----------------------------- MODULE TestMachine -----------------------------
(* A program that registers tests with rcunit and runs them: the test       *)
(* machine (src/rcunit/src/rcunit.c, rcunit_machine.c, and the run          *)
(* functions of rcunit_registry.c, rcunit_module.c and rcunit_function.c),  *)
(* the assertions (rcunit_assert.c) and the exceptions (rcunit_exception.h  *)
(* and .c) over the database of TestDatabase.                               *)
(*                                                                          *)
(* Everything runs in one thread.  The client calls the interface while pc  *)
(* is "idle"; a run goes through the loops of the run functions one         *)
(* iteration or one called function at a time; while pc is "call" a         *)
(* function of the client runs (setup, test or teardown), which may do any  *)
(* number of assertions, open its own RCU_TRY blocks, throw, or raise a     *)
(* signal.  Every entry point of the interface begins with rcu_init(): the  *)
(* client of the model calls it first.                                      *)
(*                                                                          *)
(* pc is "tangled" once the client has added a module that is on a list     *)
(* already: the walks over the lists need not end then, and what the        *)
(* program does after it is not modelled.                                   *)
EXTENDS TestDatabase

CONSTANTS ModNames, RegNames,   \* names the client uses
          Fixtures,             \* <<has setup, has teardown>> it uses
          MaxOps,               \* calls of the interface per rcu_init
          MaxFaults,            \* signals and failed assertions per rcu_init
          MaxSteps,             \* the two together
          MaxFrames             \* nested RCU_TRY blocks

VARIABLES heap,     \* the test database
          mach,     \* the fields of the_test_machine that decide something
          pc,       \* where the run is
          cur,      \* the entries of the three loops: [reg, mod, test]
          frames,   \* RCU_TRY blocks open, the last is g_curr_excp_frame
          sig,      \* the action for SIGSEGV, SIGILL, SIGFPE and SIGBUS
          calls,    \* history: what the run of the module called
          ended,    \* history: calls that did not return
          hooks     \* history: events given to the run hook

vars == <<heap, mach, pc, cur, frames, sig, calls, ended, hooks>>
trace == <<calls, ended, hooks>>

Kinds == {"modInit", "funcInit", "func", "funcDestroy", "modDestroy"}

(* memset in rcu_init_test_mach.  run_ctx is a kind or "unknown".  solo,    *)
(* lost, ops and faults are history: rcu_run_test_mod or rcu_run_test_reg   *)
(* was called; the failure records of destroyed modules; and the bounds.    *)
NewMach ==
  [init_done |-> TRUE, ctx |-> "unknown", level |-> "mach",
   nr_failed_reg |-> 0, nr_failed_test |-> 0, solo |-> FALSE,
   lost |-> {}, ops |-> 0, faults |-> 0]
NoMach == [NewMach EXCEPT !.init_done = FALSE]
Nowhere == [reg |-> Null, mod |-> Null, test |-> Null]

Init ==
  /\ heap = NoHeap /\ mach = NoMach
  /\ pc = "idle" /\ cur = Nowhere
  /\ frames = <<>> /\ sig = "default"
  /\ calls = <<>> /\ ended = {} /\ hooks = <<>>

-----------------------------------------------------------------------------
(* The client between runs *)

Idle == pc = "idle" /\ mach.init_done
Steady == UNCHANGED <<pc, cur, frames, sig, trace>>
Regs == ChildSet(heap, Machine)
Mods == ToSet(AllMods(heap))
MayCall == mach.ops < MaxOps /\ mach.ops + mach.faults < MaxSteps
MayFail == mach.faults < MaxFaults /\ mach.ops + mach.faults < MaxSteps
Counted == mach' = [mach EXCEPT !.ops = @ + 1]
Register(h) == Idle /\ MayCall /\ heap' = h /\ Counted /\ Steady

RcuInit ==
  /\ pc = "idle" /\ ~mach.init_done
  /\ heap' = InitTestMach(heap) /\ mach' = NewMach
  /\ Steady

(* What rcu_destroy_test_mach leaves behind (see NoBlockLost) is forgotten; *)
(* the pool is that of the next life of the machine.                        *)
Destroyed(h) == [NoHeap EXCEPT !.cache = DestroyTestMach(h).cache]

RcuDestroy ==
  /\ Idle
  /\ heap' = Destroyed(heap) /\ mach' = NoMach
  /\ Steady

CallGetReg == \E name \in RegNames : Register(GetReg(heap, name))
CallGetMod == \E name \in ModNames : Register(GetMod(heap, name))
SetModFxt ==
  \E m \in Mods, f \in Fixtures :
    Register([heap EXCEPT !.obj[m].init = f[1], !.obj[m].destroy = f[2]])

(* rcu_add_test_to_mod, and rcu_add_test with the default module *)
AddTest == \E m \in Mods : Register(AddTestFunc(heap, m, FALSE, FALSE))

(* rcu_add_test_fxt; rcu_add_test_fxt_to_mod does the same, whatever its   *)
(* first argument: the test goes to the default module.                     *)
AddTestFxt ==
  \E f \in Fixtures : Register(AddTestFunc(heap, DefMod, f[1], f[2]))

CallAddModTbl ==
  \E r \in Regs, name \in ModNames \cup {DefMod}, f \in Fixtures :
    Register(AddTestModTbl(heap, r, name, f))

(* rcu_add_mod_to_reg and rcu_add_test_mod with a module the client got    *)
(* from rcu_get_mod or rcu_get_default_mod, which is on a list: it is        *)
(* linked anew without being unlinked.                                      *)
CallAddMod ==
  /\ Idle /\ MayCall
  /\ \E m \in Mods, r \in Regs : heap' = AddModToReg(heap, r, m)
  /\ pc' = "tangled" /\ Counted
  /\ UNCHANGED <<cur, frames, sig, trace>>

(* The client destroys what it created, not the default entities. *)
Discard(h, mods) ==
  /\ Idle /\ MayCall
  /\ heap' = h
  /\ mach' = [mach EXCEPT !.ops = @ + 1, !.lost = @ \cup UNION
       {RecBlocks(heap, o) : o \in mods \cup UNION {ChildSet(heap, m) : m \in mods}}]
  /\ Steady
CallDestroyMod == \E m \in Mods \ {DefMod} : Discard(DestroyTestMod(heap, m), {m})
CallDestroyReg ==
  \E r \in Regs \ {DefReg} : Discard(DestroyTestReg(heap, r), ChildSet(heap, r))

-----------------------------------------------------------------------------
(* Exceptions: RCU_TRY, and the way out of a block, which restores the     *)
(* signal actions before anything else.                                     *)

Try(owner) ==
  /\ frames' = Append(frames, [owner |-> owner, saved |-> sig])
  /\ sig' = "rcu"
MutLeave == frames' = Front(frames) /\ UNCHANGED sig
Leave == frames' = Front(frames) /\ sig' = Last(frames).saved

(* The run hook of rcu_set_run_hook, if there is one.  It asserts nothing: *)
(* in a hook a failed assertion would throw outside every RCU_TRY block     *)
(* when the context of a call before it is still set.                       *)
Hook(event) == hooks' = Append(hooks, event)
HookAt(level, event) == IF mach.level = level THEN Hook(event) ELSE UNCHANGED hooks

(* The runner calls a function of the client. *)
Call(kind, who) ==
  /\ Try("runner") /\ pc' = "call"
  /\ mach' = [mach EXCEPT !.ctx = kind]
  /\ calls' = Append(calls, <<kind, who>>)
  /\ UNCHANGED <<ended, hooks>>

Kind == Last(calls)[1]
InCall == pc = "call"

(* The teardown of a test that was aborted is skipped. *)
MutAfter(kind, returned) ==
  CASE kind = "modInit"     -> IF returned THEN "tests" ELSE "modOver"
    [] kind = "funcInit"    -> IF returned THEN "func" ELSE "count"
    [] kind = "func"        -> IF returned THEN "funcDestroy" ELSE "count"
    [] kind = "funcDestroy" -> "count"
    [] kind = "modDestroy"  -> IF returned THEN "modEnd" ELSE "modOver"

(* Where the run goes when the function that was called is over. *)
After(kind, returned) ==
  CASE kind = "modInit"     -> IF returned THEN "tests" ELSE "modOver"
    [] kind = "funcInit"    -> IF returned THEN "func" ELSE "count"
    [] kind = "func"        -> "funcDestroy"
    [] kind = "funcDestroy" -> "count"
    [] kind = "modDestroy"  -> IF returned THEN "modEnd" ELSE "modOver"

(* The function returns, with all its RCU_TRY blocks closed.  A test that  *)
(* executed no assertion fails.                                             *)
Return ==
  /\ InCall /\ Len(frames) = 1
  /\ Leave /\ pc' = After(Kind, TRUE)
  /\ heap' = IF Kind # "func" THEN heap
             ELSE [heap EXCEPT !.obj[cur.test].stat =
                     IF heap.obj[cur.test].asserted THEN "succ" ELSE "failed"]
  /\ UNCHANGED <<mach, cur, trace>>

(* The catch of a module fixture forgets the run hook. *)
MutThrow ==
  /\ Leave
  /\ UNCHANGED <<cur, calls, hooks>>
  /\ IF Last(frames).owner = "client"
     THEN UNCHANGED <<pc, ended>>
     ELSE pc' = After(Kind, FALSE) /\ ended' = ended \cup {Last(calls)}

(* RCU_THROW and the siglongjmp of rcu_sig_handler: to the innermost block.  *)
(* In one of the client's own the function goes on after it, otherwise the   *)
(* runner's catch ends the call; for a module fixture it calls the run hook. *)
Throw ==
  /\ Leave
  /\ UNCHANGED <<cur, calls>>
  /\ IF Last(frames).owner = "client"
     THEN UNCHANGED <<pc, ended, hooks>>
     ELSE /\ pc' = After(Kind, FALSE)
          /\ ended' = ended \cup {Last(calls)}
          /\ IF Kind \in {"modInit", "modDestroy"}
             THEN HookAt("mod", "finished") ELSE UNCHANGED hooks

ClientTry ==
  /\ InCall /\ Len(frames) < MaxFrames
  /\ Try("client")
  /\ UNCHANGED <<heap, mach, pc, cur, trace>>
ClientEndTry ==
  /\ InCall /\ Last(frames).owner = "client"
  /\ Leave
  /\ UNCHANGED <<heap, mach, pc, cur, trace>>

(* A signal, which comes to rcu_sig_handler while its action is installed, *)
(* or an RCU_THROW of the client.                                           *)
Signal ==
  /\ InCall /\ sig = "rcu" /\ MayFail
  /\ Throw
  /\ mach' = [mach EXCEPT !.faults = @ + 1]
  /\ UNCHANGED heap

(* rcu_assert_impl for a condition that holds *)
AssertPass ==
  /\ InCall /\ mach.ctx = "func" /\ ~heap.obj[cur.test].asserted
  /\ heap' = [heap EXCEPT !.obj[cur.test].asserted = TRUE]
  /\ UNCHANGED <<mach, pc, cur, frames, sig, trace>>

(* rcu_assert_impl for a condition that does not hold: what is marked, and *)
(* to whom the failure record goes.  In a fixture of a test the comparison  *)
(* at rcunit_assert.c:64 is never true, so that it is always destroy_failed *)
(* that is set.                                                             *)
Record(h, ctx) ==
  CASE ctx = "modInit" -> AddFailRec([h EXCEPT !.obj[cur.mod].init_failed = TRUE], cur.mod)
    [] ctx = "modDestroy" ->
         AddFailRec([h EXCEPT !.obj[cur.mod].destroy_failed = TRUE], cur.mod)
    [] ctx \in {"funcInit", "funcDestroy"} ->
         AddFailRec([h EXCEPT !.obj[cur.test].destroy_failed = TRUE], cur.test)
    [] ctx = "func" ->
         AddFailRec([h EXCEPT !.obj[cur.test].stat = "failed",
                              !.obj[cur.test].asserted = TRUE], cur.test)
    [] ctx = "unknown" -> AddFailRec(h, Machine)

(* In a function the runner called.  With the context still set the        *)
(* assertion throws; one in a function that went on after such a throw      *)
(* only leaves a record with the machine.                                   *)
AssertFail ==
  /\ InCall /\ MayFail
  /\ heap' = Record(heap, mach.ctx)
  /\ mach' = [mach EXCEPT !.ctx = "unknown", !.faults = @ + 1]
  /\ IF mach.ctx = "unknown" THEN UNCHANGED <<pc, cur, frames, sig, trace>> ELSE Throw

(* Outside a run.  The context of the last run stays behind when the       *)
(* machine was not destroyed after it; then RCU_THROW goes through          *)
(* g_curr_excp_frame, which is NULL, and the program ends: what it marked   *)
(* before that is of no interest.  Not modelled is an assertion that holds: *)
(* with the context of a test left behind it counts in nr_succ_assert of    *)
(* the last test that ran, which the next run resets, or writes to a freed  *)
(* block if that test is destroyed (rcunit_assert.c:75-88).                 *)
AssertOutside ==
  /\ Idle /\ MayCall
  /\ IF mach.ctx = "unknown"
     THEN heap' = AddFailRec(heap, Machine) /\ UNCHANGED pc
     ELSE pc' = "crashed" /\ UNCHANGED heap
  /\ Counted
  /\ UNCHANGED <<cur, frames, sig, trace>>

-----------------------------------------------------------------------------
(* A run *)

(* The loops go over the links: the owner of the node after the one of o,  *)
(* and of the first node; the owner of the list itself ends the loop.       *)
After1(o) == heap.next[Link(o)][1]
First(o) == heap.next[List(o)][1]

(* rcu_run_tests, rcu_run_test_mach and the head of rcu_run_tests_impl *)
RunTests ==
  /\ Idle
  /\ mach' = [mach EXCEPT !.level = "mach"]
  /\ Hook("started")
  /\ pc' = "regs" /\ cur' = [cur EXCEPT !.reg = First(Machine)]
  /\ UNCHANGED <<heap, frames, sig, calls, ended>>

(* rcu_run_test_reg_by_name, rcu_run_test_reg_unsupported and the head of  *)
(* rcu_run_test_reg_impl                                                    *)
RunReg ==
  /\ Idle /\ MayCall
  /\ \E r \in Regs :
       /\ mach' = [mach EXCEPT !.level = "reg", !.solo = TRUE, !.ops = @ + 1,
                               !.nr_failed_reg = 0, !.nr_failed_test = 0]
       /\ heap' = [heap EXCEPT !.obj[r].nr_failed_mod = 0]
       /\ pc' = "mods" /\ cur' = [cur EXCEPT !.reg = r, !.mod = First(r)]
  /\ Hook("started")
  /\ UNCHANGED <<frames, sig, calls, ended>>

(* rcu_reset_all_run_stat *)
ResetAllRunStat(h) ==
  [h EXCEPT !.obj = [o \in Owner |->
     IF @[o].type = "test" THEN [@[o] EXCEPT !.stat = "nottested"] ELSE @[o]]]

(* rcu_run_test_mod_by_name, rcu_run_test_mod and the head of              *)
(* rcu_run_test_mod_impl at module level                                    *)
RunMod ==
  /\ Idle /\ MayCall
  /\ \E m \in Mods :
       /\ heap' = [ResetAllRunStat(heap) EXCEPT !.obj[m].nr_failed_test = 0]
       /\ pc' = "mod" /\ cur' = [cur EXCEPT !.mod = m]
  /\ mach' = [mach EXCEPT !.level = "mod", !.solo = TRUE, !.ops = @ + 1,
                          !.nr_failed_reg = 0, !.nr_failed_test = 0]
  /\ Hook("started")
  /\ UNCHANGED <<frames, sig, calls, ended>>

(* An iteration of the loop of rcu_run_tests_impl, or its end *)
NextReg ==
  /\ pc = "regs"
  /\ IF cur.reg = Machine
     THEN pc' = "report" /\ Hook("finished") /\ UNCHANGED cur
     ELSE pc' = "mods" /\ cur' = [cur EXCEPT !.mod = First(cur.reg)] /\ UNCHANGED hooks
  /\ UNCHANGED <<heap, mach, frames, sig, calls, ended>>

(* The loop over the modules does not stop at the head of the list. *)
MutNextMod ==
  /\ pc = "mods" /\ pc' = "mod"
  /\ UNCHANGED <<heap, mach, cur, frames, sig, trace>>

(* An iteration of the loop of rcu_run_test_reg_impl, or its end *)
NextMod ==
  /\ pc = "mods"
  /\ UNCHANGED <<heap, frames, sig, calls, ended>>
  /\ IF cur.mod # cur.reg
     THEN pc' = "mod" /\ UNCHANGED <<mach, cur, hooks>>
     ELSE /\ mach' = [mach EXCEPT !.nr_failed_reg =
                        IF heap.obj[cur.reg].nr_failed_mod > 0 THEN @ + 1 ELSE @]
          /\ HookAt("reg", "finished")
          /\ pc' = IF mach.level = "reg" THEN "report" ELSE "regs"
          /\ cur' = [reg |-> IF mach.level = "reg" THEN cur.reg ELSE After1(cur.reg),
                     mod |-> Null, test |-> Null]

(* rcu_run_test_mod_impl up to the loop over the tests *)
ModSetup ==
  /\ pc = "mod"
  /\ cur' = [cur EXCEPT !.test = First(cur.mod)]
  /\ UNCHANGED heap
  /\ IF heap.obj[cur.mod].init THEN Call("modInit", cur.mod)
     ELSE pc' = "tests" /\ UNCHANGED <<mach, frames, sig, trace>>

(* An iteration of the loop over the tests: rcu_run_test_func_impl up to   *)
(* the test itself.  After the last one, the teardown of the module.        *)
NextTest ==
  /\ pc = "tests"
  /\ UNCHANGED cur
  /\ IF cur.test # cur.mod
     THEN /\ heap' = [heap EXCEPT !.obj[cur.test].stat = "failed",
                                  !.obj[cur.test].asserted = FALSE]
          /\ IF heap.obj[cur.test].init THEN Call("funcInit", cur.test)
             ELSE pc' = "func" /\ UNCHANGED <<mach, frames, sig, trace>>
     ELSE /\ UNCHANGED heap
          /\ IF heap.obj[cur.mod].destroy THEN Call("modDestroy", cur.mod)
             ELSE pc' = "modEnd" /\ UNCHANGED <<mach, frames, sig, trace>>

FuncEntry == pc = "func" /\ Call("func", cur.test) /\ UNCHANGED <<heap, cur>>

FuncTeardown ==
  /\ pc = "funcDestroy"
  /\ UNCHANGED <<heap, cur>>
  /\ IF heap.obj[cur.test].destroy THEN Call("funcDestroy", cur.test)
     ELSE pc' = "count" /\ UNCHANGED <<mach, frames, sig, trace>>

(* A failure in the fixtures of the test is not counted. *)
MutCount ==
  /\ pc = "count" /\ pc' = "tests"
  /\ heap' = IF heap.obj[cur.test].stat # "failed" THEN heap
             ELSE [heap EXCEPT !.obj[cur.mod].nr_failed_test = @ + 1]
  /\ cur' = [cur EXCEPT !.test = After1(cur.test)]
  /\ UNCHANGED <<mach, frames, sig, trace>>

(* The rest of the iteration in rcu_run_test_mod_impl *)
Count ==
  /\ pc = "count"
  /\ LET t == heap.obj[cur.test]
         bad == t.destroy_failed \/ t.stat = "failed"
     IN  heap' = IF ~bad THEN heap
                 ELSE [heap EXCEPT !.obj[cur.test].stat = "failed",
                                   !.obj[cur.mod].nr_failed_test = @ + 1]
  /\ cur' = [cur EXCEPT !.test = After1(cur.test)]
  /\ pc' = "tests"
  /\ UNCHANGED <<mach, frames, sig, trace>>

(* The failures of the module replace those of the modules before it. *)
MutModEnd ==
  /\ pc = "modEnd" /\ pc' = "modOver"
  /\ LET n == heap.obj[cur.mod].nr_failed_test
     IN  /\ heap' = [heap EXCEPT !.obj[cur.mod].stat = IF n = 0 THEN "succ" ELSE "failed"]
         /\ mach' = [mach EXCEPT !.nr_failed_test = n]
  /\ HookAt("mod", "finished")
  /\ UNCHANGED <<cur, frames, sig, calls, ended>>

(* The end of rcu_run_test_mod_impl when both fixtures went well *)
ModEnd ==
  /\ pc = "modEnd" /\ pc' = "modOver"
  /\ LET n == heap.obj[cur.mod].nr_failed_test
     IN  /\ heap' = [heap EXCEPT !.obj[cur.mod].stat = IF n = 0 THEN "succ" ELSE "failed"]
         /\ mach' = [mach EXCEPT !.nr_failed_test = @ + n]
  /\ HookAt("mod", "finished")
  /\ UNCHANGED <<cur, frames, sig, calls, ended>>

(* Back in rcu_run_test_reg_impl: after a failed assertion in a fixture of *)
(* the module all its tests have failed, and their records go.              *)
OverrideTests(h, m) ==
  LET Fail(g, t) == DelFailRecs([g EXCEPT !.obj[t].stat = "failed",
                                          !.obj[t].asserted = FALSE], t)
  IN  FoldLeft(Fail, [h EXCEPT !.obj[m].stat = "failed"], Children(h, m))

CountMod(h, m) ==
  IF h.obj[m].init_failed \/ h.obj[m].destroy_failed THEN OverrideTests(h, m)
  ELSE IF h.obj[m].stat = "failed" THEN [h EXCEPT !.obj[cur.reg].nr_failed_mod = @ + 1]
  ELSE h

ModOver ==
  /\ pc = "modOver"
  /\ IF mach.level = "mod" THEN pc' = "report" /\ UNCHANGED <<heap, cur>>
     ELSE /\ pc' = "mods"
          /\ heap' = CountMod(heap, cur.mod)
          /\ cur' = [cur EXCEPT !.mod = After1(cur.mod), !.test = Null]
  /\ calls' = <<>> /\ ended' = {}
  /\ UNCHANGED <<mach, frames, sig, hooks>>

(* The end of the run.  rcu_run_test_mach destroys the machine. *)
Report ==
  /\ pc = "report" /\ pc' = "idle"
  /\ cur' = Nowhere /\ hooks' = <<>>
  /\ IF mach.level = "mach"
     THEN heap' = Destroyed(heap) /\ mach' = NoMach
     ELSE UNCHANGED <<heap, mach>>
  /\ UNCHANGED <<frames, sig, calls, ended>>

-----------------------------------------------------------------------------

Client ==
  /\ pc = "idle"
  /\ \/ RcuInit \/ RcuDestroy
     \/ CallGetReg \/ CallGetMod \/ SetModFxt \/ AddTest \/ AddTestFxt \/ CallAddModTbl
     \/ CallAddMod \/ CallDestroyMod \/ CallDestroyReg \/ AssertOutside
     \/ RunTests \/ RunReg \/ RunMod
ClientFunction ==
  Return \/ ClientTry \/ ClientEndTry \/ Signal \/ AssertPass \/ AssertFail
Runner ==
  \/ NextReg \/ NextMod \/ ModSetup \/ NextTest \/ FuncEntry \/ FuncTeardown \/ Count
  \/ ModEnd \/ ModOver \/ Report
Next == Client \/ ClientFunction \/ Runner
Spec == Init /\ [][Next]_vars

-----------------------------------------------------------------------------
(* Properties *)

Tests == UNION {ChildSet(heap, m) : m \in Mods}
Flagged(m) == heap.obj[m].init_failed \/ heap.obj[m].destroy_failed

(* While the machine is initialised its default entities are there, and     *)
(* what the loops are at has the type the loop expects.                     *)
TypeOK ==
  /\ mach.ctx \in Kinds \cup {"unknown"} /\ mach.level \in {"mach", "reg", "mod"}
  /\ sig \in {"default", "rcu"} /\ Len(frames) \in 0 .. MaxFrames
  /\ \A a \in Addr : heap.obj[a].type \in {"free", "reg", "mod", "test", "rec", "info"}
  /\ mach.init_done => heap.obj[DefReg].type = "reg" /\ heap.obj[DefMod].type = "mod"
  /\ pc \in {"mod", "tests", "func", "funcDestroy", "count", "call"} =>
       heap.obj[cur.mod].type = "mod"
  /\ pc \in {"func", "funcDestroy", "count"} => heap.obj[cur.test].type = "test"

(* Every list is a ring: the links of the list heads and of the registries, *)
(* modules and tests on them are each other's inverses, although            *)
(* rcu_destroy_test_reg removes a node that is already removed              *)
(* (rcunit_registry.c:128 and rcunit_module.c:134).  One call breaks them,  *)
(* and always does: adding a module that is on a list, whichever the list   *)
(* and wherever the module is on it, since the checks for it are compiled   *)
(* out (rcunit_registry.c:155-189).                                         *)
RingsIntact ==
  LET parents == {Machine} \cup Of(heap, "reg") \cup Of(heap, "mod")
      linked == Of(heap, "reg") \cup Of(heap, "mod") \cup Of(heap, "test")
      recorded == {Machine} \cup Of(heap, "mod") \cup Of(heap, "test")
  IN  pc # "tangled" <=>
        \A n \in {List(o) : o \in parents} \cup {Link(o) : o \in linked}
                 \cup {Recs(o) : o \in recorded} :
          heap.prev[heap.next[n]] = n /\ heap.next[heap.prev[n]] = n

(* No block is forgotten: each one in use is reached from the lists of the  *)
(* machine, or is a failure record of a module the client destroyed, which  *)
(* rcu_destroy_test_mod does not delete; and only those outlive the         *)
(* rcu_destroy() of this moment.  Once a module is added a second time      *)
(* nothing is claimed: what is reached is not defined, and its own failure  *)
(* records are dropped (rcunit_registry.c:194).                             *)
NoBlockLost ==
  mach.init_done /\ pc # "tangled" =>
    LET entities == Regs \cup Mods \cup Tests
        records == UNION {RecBlocks(heap, o) : o \in {Machine} \cup Mods \cup Tests}
    IN  /\ Live(heap) \ mach.lost = (entities \ {DefReg, DefMod}) \cup records
        /\ mach.lost \cap (entities \cup records) = {}
        /\ pc = "idle" => Live(DestroyTestMach(heap)) = mach.lost

(* The pointer cache knows the blocks in use: nr_alloc - nr_free is their   *)
(* number, no pointer is recorded twice or after it was freed, and one is   *)
(* missing only if no further table could be allocated.                     *)
CacheExact ==
  mach.init_done =>
    LET known == Leaks(heap.cache)
    IN  /\ heap.cache.balance = Cardinality(Live(heap))
        /\ known \subseteq Live(heap)
        /\ \A p \in known : TimesCached(heap.cache, p) = 1
        /\ known = Live(heap) \/ Len(heap.cache.tables) = MaxTables

(* RCU_THROW and the signal handler go through g_curr_excp_frame: there is  *)
(* a frame whenever the handler is installed, the frame of the runner is    *)
(* below those of the function it called, and both are gone when the        *)
(* function is.  A failed assertion outside a run throws only if a single   *)
(* module or registry was run before, never after rcu_run_tests.            *)
ThrowHasFrame ==
  /\ (sig = "rcu") = (frames # <<>>)
  /\ InCall = (frames # <<>>)
  /\ InCall => Head(frames) = [owner |-> "runner", saved |-> "default"]
  /\ pc = "crashed" => mach.solo

(* What the run of a module calls, and in which order: its setup, for every *)
(* test in turn setup, test and teardown, then its teardown; a function     *)
(* that was ended by an exception or a signal takes with it only what it    *)
(* sets up (user guide, "Setup and Teardown Execution Sequence").           *)
CallsOfTest(t) ==
  LET obj == heap.obj[t]
      rest == <<<<"func", t>>>> \o (IF obj.destroy THEN <<<<"funcDestroy", t>>>> ELSE <<>>)
  IN  (IF obj.init THEN <<<<"funcInit", t>>>> ELSE <<>>)
      \o (IF <<"funcInit", t>> \in ended THEN <<>> ELSE rest)
CallsOfModule(m) ==
  LET obj == heap.obj[m]
      tests == FlattenSeq([i \in DOMAIN Children(heap, m) |->
                             CallsOfTest(Children(heap, m)[i])])
      rest == tests \o (IF obj.destroy THEN <<<<"modDestroy", m>>>> ELSE <<>>)
  IN  (IF obj.init THEN <<<<"modInit", m>>>> ELSE <<>>)
      \o (IF <<"modInit", m>> \in ended THEN <<>> ELSE rest)
CallsInOrder == pc = "modOver" => calls = CallsOfModule(cur.mod)

(* After the run of a module a test of it has passed exactly if its setup   *)
(* and the test itself returned, an assertion was executed, and none failed *)
(* in its fixtures, in this run or an earlier one.  Two things follow that  *)
(* the documents say otherwise.  An assertion that fails in the test but is *)
(* caught by an RCU_TRY of the test does not fail it, while the user guide  *)
(* (lines 116-118) has every failed assertion abort the test and flag it.   *)
(* And a teardown that a signal or an exception of the client ends fails    *)
(* nothing, while the comment at rcunit_module.c:264-266 has the test fail  *)
(* whenever its teardown did.                                               *)
StatusRight ==
  pc = "modOver" /\ <<"modInit", cur.mod>> \notin ended =>
    \A t \in ChildSet(heap, cur.mod) :
      (heap.obj[t].stat = "succ") =
        (/\ {<<"funcInit", t>>, <<"func", t>>} \cap ended = {}
         /\ heap.obj[t].asserted
         /\ ~heap.obj[t].destroy_failed)

(* The verdict of rcu_run_tests on a machine that ran nothing before: it    *)
(* returns RCU_E_NG exactly if a test failed in a module whose fixtures     *)
(* went well.  A module whose own setup or teardown fails counts neither as *)
(* failed nor its tests.  The report then says "Test failed!", and it says  *)
(* so otherwise only when an assertion failed in a fixture of a module.     *)
Verdict ==
  pc = "report" /\ mach.level = "mach" /\ ~mach.solo =>
    LET failed == \E m \in Mods :
                    /\ ~Flagged(m) /\ heap.obj[m].stat # "nottested"
                    /\ \E t \in ChildSet(heap, m) : heap.obj[t].stat = "failed"
    IN  /\ (mach.nr_failed_reg > 0) = failed
        /\ failed => mach.nr_failed_test > 0
        /\ mach.nr_failed_test > 0 => failed \/ \E m \in Mods : Flagged(m)

(* The run hook is told once that the run starts, before anything is        *)
(* called, and once that it is finished, after everything (user guide,      *)
(* "Writing Test Run Hook"), on every path out of a run of any level.       *)
HookBrackets ==
  /\ pc \in {"idle", "crashed", "tangled"} => hooks = <<>>
  /\ InCall => hooks = <<"started">>
  /\ pc = "report" => hooks = <<"started", "finished">>

-----------------------------------------------------------------------------
(* The invariant of the proofs in TestMachine_proofs: what the control of a *)
(* run keeps, whatever is in the heap.                                      *)

Running == {"regs", "mods", "mod", "tests", "func", "funcDestroy", "count", "call",
            "modEnd", "modOver"}
MachFields == {"init_done", "ctx", "level", "nr_failed_reg", "nr_failed_test", "solo",
               "lost", "ops", "faults"}
Frame(owner, saved) == [owner |-> owner, saved |-> saved]

(* The first block is the runner's, those above it are the client's, and    *)
(* each one saved the signal action that was there when it was opened.      *)
FramesInv ==
  /\ frames \in Seq({Frame("runner", "default"), Frame("client", "rcu")})
  /\ frames # <<>> => frames[1] = Frame("runner", "default")
  /\ \A i \in 2 .. Len(frames) : frames[i] = Frame("client", "rcu")
  /\ sig = IF frames = <<>> THEN "default" ELSE "rcu"
  /\ InCall <=> frames # <<>>

(* In a call of the runner the last entry of the history says which it is.  *)
CallsInv ==
  /\ calls \in Seq(ToSet(calls))
  /\ InCall => calls # <<>> /\ Kind \in Kinds

(* A context or a level other than the initial one is left behind only by a *)
(* run of a single module or registry.                                      *)
LevelInv ==
  /\ DOMAIN mach = MachFields
  /\ mach.level # "mach" => mach.solo
  /\ pc = "idle" /\ mach.ctx # "unknown" => mach.solo
  /\ pc = "crashed" => mach.solo

HooksInv ==
  hooks = IF pc \in {"idle", "crashed", "tangled"} THEN <<>>
          ELSE IF pc = "report" \/ (pc = "modOver" /\ mach.level = "mod")
            THEN <<"started", "finished">>
          ELSE <<"started">>

ControlInv ==
  /\ pc \in Running \cup {"idle", "crashed", "tangled", "report"}
  /\ FramesInv /\ CallsInv /\ LevelInv /\ HooksInv
=============================================================================
