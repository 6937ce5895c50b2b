---------------------------- MODULE PointerCache ----------------------------
(* The allocation tracing of src/rcunit/src/rcunit_mtrace.c.  A cache is a  *)
(* list of tables of TableSize slots (32 in the code), each of which holds  *)
(* a pointer or Null; the fields ptr and used of a slot always change       *)
(* together and are one here.  balance is nr_alloc - nr_free.  The sizes,   *)
(* which are only printed, and nr_free_counter, which triggers nothing      *)
(* while RCU_ENABLE_POINTER_TABLE_COMPACTION is 0, are left out.            *)
EXTENDS Integers, Sequences, FiniteSets

CONSTANTS TableSize,   \* rcu_pointer_table_SIZE
          MaxTables,   \* rcu_native_malloc has no room for a further table
          Null

ASSUME PointerCacheAssumption == TableSize \in Nat \ {0} /\ MaxTables \in Nat \ {0}

LOCAL Slots(c) == (DOMAIN c.tables) \X (1 .. TableSize)
LOCAL At(c, s) == c.tables[s[1]][s[2]]

(* The first slot that holds p, in the order of the nested loops. *)
LOCAL SlotsWith(c, p) == {s \in Slots(c) : At(c, s) = p}
LOCAL FirstOf(ss) ==
  CHOOSE s \in ss : \A t \in ss : s[1] < t[1] \/ (s[1] = t[1] /\ s[2] <= t[2])
LOCAL Store(c, s, p) == [c EXCEPT !.tables[s[1]][s[2]] = p]

EmptyTable == [i \in 1 .. TableSize |-> Null]

NoCache == [tables |-> <<>>, balance |-> 0]

(* rcu_cre_ptr_tbl *)
CrePtrTbl(c) ==
  IF Len(c.tables) = MaxTables THEN c
  ELSE [c EXCEPT !.tables = Append(@, EmptyTable)]

(* rcu_init_ptr_cache *)
InitPtrCache == CrePtrTbl(NoCache)

(* rcu_srch_ptr_info *)
IsCached(c, p) == SlotsWith(c, p) # {}

(* rcu_find_free_slot *)
HasFreeSlot(c) == SlotsWith(c, Null) # {}

(* rcu_cache_ptr: a new table when the others are full; when there is no   *)
(* memory for one the pointer goes unrecorded.                              *)
CachePtr(c, p) ==
  IF IsCached(c, p) THEN c
  ELSE LET d == IF HasFreeSlot(c) THEN c ELSE CrePtrTbl(c)
       IN  IF HasFreeSlot(d) THEN Store(d, FirstOf(SlotsWith(d, Null)), p) ELSE d

(* The wrong slot: the first one in use. *)
MutUncachePtr(c, p) ==
  LET used == {s \in Slots(c) : At(c, s) # Null}
  IN  IF used = {} THEN c ELSE Store(c, FirstOf(used), Null)

(* rcu_uncache_ptr *)
UncachePtr(c, p) ==
  IF IsCached(c, p) THEN Store(c, FirstOf(SlotsWith(c, p)), Null) ELSE c

(* rcu_trace_alloc_impl and rcu_trace_free_impl *)
TraceAlloc(c, p) == [CachePtr(c, p) EXCEPT !.balance = @ + 1]
TraceFree(c, p) == [UncachePtr(c, p) EXCEPT !.balance = @ - 1]

(* The pointers rcu_check_mem_leak_impl and rcu_get_mtrace_results report, *)
(* with how often each is recorded.                                         *)
Leaks(c) == {At(c, s) : s \in Slots(c)} \ {Null}
TimesCached(c, p) == Cardinality(SlotsWith(c, p))
=============================================================================
