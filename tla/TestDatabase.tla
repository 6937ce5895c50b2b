---------------------------- MODULE TestDatabase ----------------------------
(* The test database of rcunit: registries that hold modules that hold      *)
(* tests, each test and module with its failure records, all of them blocks *)
(* of rcu_malloc linked by rcu_list rings (src/rcunit/src/rcunit_registry.c,*)
(* rcunit_module.c, rcunit_function.c, rcunit_assert.c, rcunit_mem.c).      *)
(*                                                                          *)
(* A heap h is a record: next and prev, the links; obj, what a block holds; *)
(* cache, the pointer cache of rcu_malloc.  The functions of the code are   *)
(* operators from heaps to heaps.  A block has up to three list nodes: its  *)
(* own link, the list of its children, the list of its failure records.     *)
EXTENDS Lists, PointerCache, SequencesExt

CONSTANTS PoolSize,                    \* blocks malloc can hand out
          Machine, DefReg, DefMod      \* the_test_machine and its two members

Addr == 1 .. PoolSize
Owner == Addr \cup {Machine, DefReg, DefMod}
Node == Owner \X {"link", "list", "recs"}
Link(o) == <<o, "link">>
List(o) == <<o, "list">>
Recs(o) == <<o, "recs">>

-----------------------------------------------------------------------------
(* Blocks *)

Free == [type |-> "free"]
Info == [type |-> "info"]
Registry(name) == [type |-> "reg", name |-> name, nr_failed_mod |-> 0]
Module(name, init, destroy) ==
  [type |-> "mod", name |-> name, init |-> init, destroy |-> destroy,
   nr_failed_test |-> 0, stat |-> "nottested",
   init_failed |-> FALSE, destroy_failed |-> FALSE]

(* nr_succ_assert and nr_fail_assert are only compared with 0 together:    *)
(* asserted says that their sum is not.  init_failed of a test is never     *)
(* set (see Record in TestMachine).                                         *)
Test(init, destroy) ==
  [type |-> "test", init |-> init, destroy |-> destroy, stat |-> "nottested",
   asserted |-> FALSE, destroy_failed |-> FALSE]

Of(h, type) == {o \in Owner : h.obj[o].type = type}
Live(h) == {a \in Addr : h.obj[a].type # "free"}

(* rcu_malloc: some free block, here the first; Null when there is none.   *)
Malloc(h) ==
  IF Live(h) = Addr THEN Null
  ELSE CHOOSE a \in Addr \ Live(h) : \A b \in Addr \ Live(h) : a <= b

Put(h, a, o) == [h EXCEPT !.obj[a] = o, !.cache = TraceAlloc(@, a)]

(* rcu_free.  What the links of a freed block hold is of no interest. *)
Release(h, a) ==
  InitLists([h EXCEPT !.obj[a] = Free, !.cache = TraceFree(@, a)],
            {Link(a), List(a), Recs(a)})

Children(h, o) == LET es == Entries(h, List(o)) IN [i \in DOMAIN es |-> es[i][1]]
ChildSet(h, o) == ToSet(Children(h, o))

-----------------------------------------------------------------------------
(* Failure records: a block for the record and one for its text. *)

(* Without the release of the first block when there is none for the text. *)
MutAddFailRec(h, o) ==
  LET r == Malloc(h)
      g == Put(h, r, [type |-> "rec", info |-> Null])
      i == Malloc(g)
  IN  IF r = Null THEN h
      ELSE IF i = Null THEN g
      ELSE InsertList(InitList([Put(g, i, Info) EXCEPT !.obj[r].info = i], Link(r)),
                      Recs(o), Link(r))

(* rcu_cre_fail_rec and rcu_add_fail_rec_impl *)
AddFailRec(h, o) ==
  LET r == Malloc(h)
      g == Put(h, r, [type |-> "rec", info |-> Null])
      i == Malloc(g)
  IN  IF r = Null THEN h
      ELSE IF i = Null THEN Release(g, r)
      ELSE InsertList(InitList([Put(g, i, Info) EXCEPT !.obj[r].info = i], Link(r)),
                      Recs(o), Link(r))

(* rcu_del_all_fail_rec_impl *)
DelFailRecs(h, o) ==
  LET Del(g, n) == Release(RemoveList(Release(g, g.obj[n[1]].info), n), n[1])
  IN  FoldLeft(Del, h, Entries(h, Recs(o)))

(* The blocks of the failure records of o. *)
RecBlocks(h, o) ==
  UNION {{n[1], h.obj[n[1]].info} : n \in ToSet(Entries(h, Recs(o)))}

-----------------------------------------------------------------------------
(* Registration *)

(* rcu_srch_reg_by_name, and rcu_srch_mod_by_name_global: the first match  *)
(* in list order, Null if there is none.                                    *)
FirstNamed(h, os, name) ==
  LET hits == SelectSeq(os, LAMBDA o : h.obj[o].name = name)
  IN  IF hits = <<>> THEN Null ELSE Head(hits)
SrchReg(h, name) == FirstNamed(h, Children(h, Machine), name)
AllMods(h) == FoldLeft(LAMBDA s, r : s \o Children(h, r), <<>>, Children(h, Machine))
SrchMod(h, name) == FirstNamed(h, AllMods(h), name)

(* rcu_add_test_reg, which refuses a name in use *)
AddTestReg(h, r) ==
  IF r = Null THEN h
  ELSE IF r \in ChildSet(h, Machine) \/ SrchReg(h, h.obj[r].name) # Null THEN h
  ELSE InsertList(InitList(h, Link(r)), List(Machine), Link(r))

(* rcu_add_mod_to_reg, whose checks for a module added twice are compiled out *)
AddModToReg(h, r, m) ==
  IF m = Null THEN h
  ELSE InitList(InsertList(InitList(h, Link(m)), List(r), Link(m)), Recs(m))

(* rcu_init_reg and rcu_init_mod *)
InitReg(h, r) == InitLists(h, {Link(r), List(r)})
InitMod(h, m) == InitLists(h, {Link(m), List(m)})

(* rcu_cre_test_reg and rcu_cre_test_mod: the block first, and it goes     *)
(* again when the name is the reserved one.  The created block is           *)
(* Malloc(h), unless the result has no such block.                          *)
CreTestReg(h, name) ==
  LET a == Malloc(h)
  IN  IF a = Null THEN h
      ELSE LET g == Put(h, a, Registry(name))
           IN  IF name = DefReg THEN Release(g, a) ELSE InitReg(g, a)
CreTestMod(h, name, init, destroy) ==
  LET a == Malloc(h)
  IN  IF a = Null THEN h
      ELSE LET g == Put(h, a, Module(name, init, destroy))
           IN  IF name = DefMod THEN Release(g, a) ELSE InitMod(g, a)
Created(h, g) == IF Live(h) = Live(g) THEN Null ELSE Malloc(h)

(* rcu_get_reg and rcu_get_mod: retrieve or create *)
GetReg(h, name) ==
  LET g == CreTestReg(h, name)
  IN  IF SrchReg(h, name) # Null THEN h ELSE AddTestReg(g, Created(h, g))
GetMod(h, name) ==
  LET g == CreTestMod(h, name, FALSE, FALSE)
  IN  IF SrchMod(h, name) # Null THEN h ELSE AddModToReg(g, DefReg, Created(h, g))

(* rcu_add_test_func *)
AddTestFunc(h, m, init, destroy) ==
  LET a == Malloc(h)
  IN  IF a = Null THEN h
      ELSE InsertList(InitLists(Put(h, a, Test(init, destroy)), {Link(a), Recs(a)}),
                      List(m), Link(a))

(* rcu_add_test_mod_tbl for a table of one module with one test, by way of *)
(* rcu_add_test_func_tbl; fxt says which fixtures both have.                *)
AddTestModTbl(h, r, name, fxt) ==
  LET g == CreTestMod(h, name, fxt[1], fxt[2])
      m == Created(h, g)
  IN  IF m = Null THEN g
      ELSE AddTestFunc(AddModToReg(g, r, m), m, fxt[1], fxt[2])

-----------------------------------------------------------------------------
(* Destruction *)

(* rcu_destroy_test_mod.  It does not delete failure records. *)
DestroyTestMod(h, m) ==
  LET Del(g, n) == Release(RemoveList(g, n), n[1])
      g == RemoveList(FoldLeft(Del, h, Entries(h, List(m))), Link(m))
  IN  IF m = DefMod THEN g ELSE Release(g, m)

(* rcu_destroy_test_reg, which unlinks every module twice *)
DestroyTestReg(h, r) ==
  LET Del(g, n) == DestroyTestMod(RemoveList(g, n), n[1])
      g == RemoveList(FoldLeft(Del, h, Entries(h, List(r))), Link(r))
  IN  IF r = DefReg THEN g ELSE Release(g, r)

(* rcu_del_all_fail_rec *)
DelAllFailRecs(h) ==
  LET OfMod(g, m) == DelFailRecs(FoldLeft(DelFailRecs, g, Children(g, m)), m)
  IN  DelFailRecs(FoldLeft(OfMod, h, AllMods(h)), Machine)

(* rcu_destroy_mtrace; nothing reads the members of the machine again      *)
(* before rcu_init sets them up anew.                                       *)
Dead(h) ==
  InitLists([h EXCEPT !.obj[DefReg] = Free, !.obj[DefMod] = Free, !.cache = NoCache],
            {Machine, DefReg, DefMod} \X {"link", "list", "recs"})

(* rcu_destroy_test_mach and rcu_destroy_test_dbase: the records while the *)
(* lists that lead to them are there, then the registries.                  *)
DestroyTestMach(h) ==
  LET Del(g, n) == DestroyTestReg(RemoveList(g, n), n[1])
      g == DelAllFailRecs(h)
  IN  Dead(FoldLeft(Del, g, Entries(g, List(Machine))))

(* rcu_init_test_mach: the members of the machine are set up anew. *)
InitTestMach(h) ==
  LET zero == [h EXCEPT !.obj[DefReg] = Registry(DefReg),
                        !.obj[DefMod] = Module(DefMod, FALSE, FALSE),
                        !.cache = InitPtrCache]
      mach == InitLists(zero, {List(Machine), Recs(Machine)})
  IN  AddModToReg(InitMod(AddTestReg(InitReg(mach, DefReg), DefReg), DefMod),
                  DefReg, DefMod)

(* Before the first rcu_init. *)
NoHeap ==
  [next |-> [n \in Node |-> n], prev |-> [n \in Node |-> n],
   obj |-> [o \in Owner |-> Free], cache |-> NoCache]
=============================================================================
