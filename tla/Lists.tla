------------------------------- MODULE Lists -------------------------------
(* The doubly linked lists of src/rcunit/src/rcunit_list.c.  A list is a    *)
(* ring of nodes through its head; a node is one rcu_list field of a        *)
(* structure.  The operators work on a record with the fields next and      *)
(* prev, functions from nodes to nodes.                                     *)
EXTENDS Sequences

(* rcu_init_list: a ring of one node. *)
InitList(l, n) == [l EXCEPT !.next[n] = n, !.prev[n] = n]

(* rcu_init_list for several nodes. *)
InitLists(l, ns) ==
  [l EXCEPT !.next = [n \in DOMAIN @ |-> IF n \in ns THEN n ELSE @[n]],
            !.prev = [n \in DOMAIN @ |-> IF n \in ns THEN n ELSE @[n]]]

(* The insertion that leaves the back link of the head alone. *)
MutInsertList(l, head, e) ==
  LET last == l.prev[head]
  IN  [l EXCEPT !.prev[e] = last, !.next[e] = head, !.next[last] = e]

(* rcu_insert_list: in front of the head, that is, at the end. *)
InsertList(l, head, e) ==
  LET last == l.prev[head]
  IN  [l EXCEPT !.prev[e] = last, !.next[e] = head,
                !.next[last] = e, !.prev[head] = e]

(* rcu_remove_list.  The links of the removed node itself stay as they     *)
(* were, so that removing it once more changes nothing as long as its two   *)
(* neighbours are still each other's.                                      *)
RemoveList(l, e) ==
  IF l.next[e] = e THEN l
  ELSE [l EXCEPT !.next[l.prev[e]] = l.next[e], !.prev[l.next[e]] = l.prev[e]]

(* RCU_FOR_EACH_ENTRY: the nodes the loop visits, in its order. *)
Entries(l, head) ==
  LET Walk[n \in DOMAIN l.next] ==
        IF n = head THEN <<>> ELSE <<n>> \o Walk[l.next[n]]
  IN  Walk[l.next[head]]
=============================================================================
