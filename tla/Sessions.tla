------------------------------ MODULE Sessions ------------------------------
(***************************************************************************)
(* The session table of one peer as data: the record of a session and the   *)
(* helpers of src/src/peer.c that search the table, choose a slot in it and *)
(* fill a slot.  The state machines that use the table extend this module.  *)
(*                                                                          *)
(* A table is a function from the slots 0 .. MaxPeers-1 to session records; *)
(* n is session_slots, the number of slots ever handed out.  Fields that no *)
(* code reads (rekey_deadline) or that are only printed (is_outbound) are   *)
(* left out; the replay window of a session is module Replay.               *)
(***************************************************************************)
EXTENDS Integers, FiniteSets, FiniteSetsExt

CONSTANTS MaxPeers,      \* MAX_PEERS
          Pubs,          \* the static public keys of peers, known or not
          Addrs,         \* the UDP source and endpoint addresses
          Keys,          \* the session keys
          None,          \* the zeroed address, public key or key of a fresh slot
          PrevKeyGrace   \* cfg_prev_key_grace

ASSUME MaxPeersAssumption == MaxPeers \in Nat \ {0}
ASSUME PrevKeyGraceAssumption == PrevKeyGrace \in Nat \ {0}

Slot == 0 .. MaxPeers - 1

(* The NULL that the lookups return. *)
NoSlot == -1

Session ==
    [active : BOOLEAN,
     addr : Addrs \cup {None},
     pub : Pubs \cup {None},
     key : Keys \cup {None},
     prevKey : Keys \cup {None},
     prevActive : BOOLEAN,
     prevExpires : Nat,
     lastSeen : Nat,
     lastSent : Nat,
     lastHandshake : Nat,
     rekeying : BOOLEAN]

(* A slot of the zero-initialised static array. *)
BlankSession ==
    [active |-> FALSE, addr |-> None, pub |-> None, key |-> None, prevKey |-> None,
     prevActive |-> FALSE, prevExpires |-> 0, lastSeen |-> 0, lastSent |-> 0,
     lastHandshake |-> 0, rekeying |-> FALSE]

EmptyTable == [j \in Slot |-> BlankSession]

FirstOf(S) == IF S = {} THEN NoSlot ELSE Min(S)

FindByAddr(tab, n, addr) ==
    FirstOf({j \in 0 .. n - 1 : tab[j].active /\ tab[j].addr = addr})

FindByPub(tab, n, pub) ==
    FirstOf({j \in 0 .. n - 1 : tab[j].active /\ tab[j].pub = pub})

FreeSlot(tab, n) ==
    LET reusable == FirstOf({j \in 0 .. n - 1 : ~tab[j].active})
    IN  IF reusable # NoSlot THEN reusable
        ELSE IF n < MaxPeers THEN n ELSE NoSlot

(* Mutant of AllocSlot: the address is tried before the public key. *)
MutAllocAddrFirst(tab, n, pub, addr) ==
    LET byAddr == FindByAddr(tab, n, addr)
        byPub == FindByPub(tab, n, pub)
    IN  IF byAddr # NoSlot THEN byAddr
        ELSE IF byPub # NoSlot THEN byPub ELSE FreeSlot(tab, n)

(* Mutant of AllocSlot: the slot of an expired session is never used again. *)
MutAllocNoReuse(tab, n, pub, addr) ==
    LET byPub == FindByPub(tab, n, pub)
        byAddr == FindByAddr(tab, n, addr)
    IN  IF byPub # NoSlot THEN byPub
        ELSE IF byAddr # NoSlot THEN byAddr
        ELSE IF n < MaxPeers THEN n ELSE NoSlot

(* alloc_session: the slot of this peer, else of this address, else a free  *)
(* one; slot n is the one that growing session_slots adds.                  *)
AllocSlot(tab, n, pub, addr) ==
    LET byPub == FindByPub(tab, n, pub)
        byAddr == FindByAddr(tab, n, addr)
    IN  IF byPub # NoSlot THEN byPub
        ELSE IF byAddr # NoSlot THEN byAddr ELSE FreeSlot(tab, n)

SlotsAfter(n, j) == IF j = n THEN n + 1 ELSE n

(* session_init on a slot holding old, at time t. *)
SessionInit(old, addr, pub, key, t) ==
    [active |-> TRUE,
     addr |-> addr,
     pub |-> pub,
     key |-> key,
     prevKey |-> IF old.active THEN old.key ELSE old.prevKey,
     prevActive |-> old.active,
     prevExpires |-> IF old.active THEN t + PrevKeyGrace ELSE old.prevExpires,
     lastSeen |-> 0,
     lastSent |-> t,
     lastHandshake |-> t,
     rekeying |-> FALSE]
=============================================================================
