------------------------- MODULE TestMachine_proofs -------------------------
(* The proofs about the test machine of rcunit and what it is built from:   *)
(* the list operations for rings of any number of nodes, and the control of *)
(* a run for any client, any database and any number of nested blocks.      *)
EXTENDS TestMachine, NatFacts, SequenceTheorems

-----------------------------------------------------------------------------
(* What the list operations do to rings *)

(* The links of a set N of nodes, and the nodes of it where they are each   *)
(* other's inverses.                                                        *)
Links(N) == [next : [N -> N], prev : [N -> N]]
Joined(l, n) == l.prev[l.next[n]] = n /\ l.next[l.prev[n]] = n

(* rcu_insert_list keeps all rings intact: a node that is alone goes into   *)
(* the ring of the head, every other ring stays as it is.                   *)
THEOREM InsertKeepsRings ==
  ASSUME NEW N, NEW l \in Links(N), NEW head \in N, NEW e \in N \ {head},
         \A n \in N : Joined(l, n), l.next[e] = e
  PROVE  /\ InsertList(l, head, e) \in Links(N)
         /\ \A n \in N : Joined(InsertList(l, head, e), n)
<1> DEFINE last == l.prev[head]
           m == InsertList(l, head, e)
<1>1. last \in N /\ last # e /\ l.next[last] = head /\ l.prev[e] = e
  BY Zenon DEF Links, Joined
<1>2. /\ m.next = [l.next EXCEPT ![e] = head, ![last] = e]
      /\ m.prev = [l.prev EXCEPT ![e] = last, ![head] = e]
      /\ m \in Links(N)
  BY <1>1, Zenon DEF InsertList, Links
<1> HIDE DEF m
<1>3. ASSUME NEW n \in N PROVE Joined(m, n)
  BY <1>1, <1>2 DEF Links, Joined
<1> QED BY <1>2, <1>3, Zenon DEF m

(* rcu_remove_list keeps the links of all nodes but the removed one, which  *)
(* still points to its old neighbours, and these are each other's.          *)
THEOREM RemoveKeepsRings ==
  ASSUME NEW N, NEW l \in Links(N), NEW e \in N, \A n \in N : Joined(l, n)
  PROVE  /\ RemoveList(l, e) \in Links(N)
         /\ \A n \in N \ {e} : Joined(RemoveList(l, e), n)
<1> DEFINE m == RemoveList(l, e)
<1>1. CASE l.next[e] = e
  BY <1>1, Zenon DEF RemoveList
<1>2. CASE l.next[e] # e
  <2>1. l.prev[e] \in N \ {e} /\ l.next[e] \in N \ {e}
    BY <1>2, Zenon DEF Links, Joined
  <2>2. /\ m.next = [l.next EXCEPT ![l.prev[e]] = l.next[e]]
        /\ m.prev = [l.prev EXCEPT ![l.next[e]] = l.prev[e]]
        /\ m \in Links(N)
    BY <1>2, <2>1, Zenon DEF RemoveList, Links
  <2> HIDE DEF m
  <2>3. ASSUME NEW n \in N \ {e} PROVE Joined(m, n)
    BY <2>1, <2>2 DEF Links, Joined
  <2> QED BY <2>2, <2>3, Zenon DEF m
<1> QED BY <1>1, <1>2, Zenon

(* Removing a node a second time, as rcu_destroy_test_reg does with every   *)
(* module (rcunit_registry.c:128, rcunit_module.c:134), changes nothing.    *)
THEOREM RemoveTwice ==
  ASSUME NEW N, NEW l \in Links(N), NEW e \in N, \A n \in N : Joined(l, n)
  PROVE  RemoveList(RemoveList(l, e), e) = RemoveList(l, e)
<1> DEFINE m == RemoveList(l, e)
<1>1. CASE l.next[e] = e
  BY <1>1, Zenon DEF RemoveList
<1>2. CASE l.next[e] # e
  <2>1. l.prev[e] \in N \ {e} /\ l.next[e] \in N \ {e}
    BY <1>2, Zenon DEF Links, Joined
  <2>2. /\ m.next = [l.next EXCEPT ![l.prev[e]] = l.next[e]]
        /\ m.prev = [l.prev EXCEPT ![l.next[e]] = l.prev[e]]
        /\ m \in Links(N)
    BY <1>2, <2>1, Zenon DEF RemoveList, Links
  <2> HIDE DEF m
  <2>3. m.next[e] = l.next[e] /\ m.prev[e] = l.prev[e]
    BY <2>1, <2>2, Zenon DEF Links
  <2>4. /\ [m.next EXCEPT ![m.prev[e]] = m.next[e]] = m.next
        /\ [m.prev EXCEPT ![m.next[e]] = m.prev[e]] = m.prev
    BY <2>1, <2>2, <2>3 DEF Links
  <2>5. RemoveList(m, e) = [m EXCEPT !.next = m.next, !.prev = m.prev]
    <3>1. m.next[e] # e
      BY <1>2, <2>3, Zenon
    <3>2. RemoveList(m, e)
            = [m EXCEPT !.next = [m.next EXCEPT ![m.prev[e]] = m.next[e]],
                        !.prev = [m.prev EXCEPT ![m.next[e]] = m.prev[e]]]
      BY <2>2, <3>1, Zenon DEF RemoveList, Links
    <3> QED BY <2>4, <3>2, Zenon
  <2>6. [m EXCEPT !.next = m.next, !.prev = m.prev] = m
    BY <2>2, Zenon DEF Links
  <2> QED BY <2>5, <2>6, Zenon DEF m
<1> QED BY <1>1, <1>2, Zenon

-----------------------------------------------------------------------------
(* The RCU_TRY blocks *)

Blocks == {Frame("runner", "default"), Frame("client", "rcu")}

(* FramesInv, of any stack of blocks. *)
Nested(f) ==
  /\ f \in Seq(Blocks)
  /\ f # <<>> => f[1] = Frame("runner", "default")
  /\ \A i \in 2 .. Len(f) : f[i] = Frame("client", "rcu")

LEMMA FrameFields ==
  /\ Frame("runner", "default").owner = "runner" /\ Frame("runner", "default").saved = "default"
  /\ Frame("client", "rcu").owner = "client" /\ Frame("client", "rcu").saved = "rcu"
BY Zenon DEF Frame

LEMMA NestedFirst == Nested(Append(<<>>, Frame("runner", "default")))
                       /\ Append(<<>>, Frame("runner", "default")) # <<>>
<1> DEFINE b == Frame("runner", "default")
           f == Append(<<>>, b)
<1>1. b \in Blocks
  BY Zenon DEF Blocks
<1>2. <<>> \in Seq(Blocks) /\ Len(<<>>) = 0
  OBVIOUS
<1> HIDE DEF b
<1>3. f \in Seq(Blocks) /\ Len(f) = 1 /\ f[1] = b
  BY <1>1, <1>2, AppendProperties
<1> HIDE DEF f
<1>4. f # <<>>
  BY <1>3
<1>5. 2 .. Len(f) = {}
  BY <1>3
<1> QED BY <1>3, <1>4, <1>5, Zenon DEF Nested, f, b

LEMMA NestedMore ==
  ASSUME NEW f, Nested(f), f # <<>>
  PROVE  Nested(Append(f, Frame("client", "rcu"))) /\ Append(f, Frame("client", "rcu")) # <<>>
<1> DEFINE b == Frame("client", "rcu")
           g == Append(f, b)
<1>1. f \in Seq(Blocks) /\ b \in Blocks
  BY Zenon DEF Nested, Blocks
<1>2. Len(f) \in Nat \ {0}
  BY <1>1
<1> HIDE DEF b
<1>3. /\ g \in Seq(Blocks) /\ Len(g) = Len(f) + 1 /\ g[Len(f) + 1] = b
      /\ \A i \in 1 .. Len(f) : g[i] = f[i]
  BY <1>1, AppendProperties
<1> HIDE DEF g
<1>4. g # <<>> /\ g[1] = f[1]
  BY <1>2, <1>3
<1>5. \A i \in 2 .. Len(g) : g[i] = b
  BY <1>2, <1>3 DEF Nested, b
<1> QED BY <1>3, <1>4, <1>5, Zenon DEF Nested, g, b

(* Leaving the innermost block: the runner's, and then none is left, or one *)
(* of the client's.                                                         *)
LEMMA NestedLess ==
  ASSUME NEW f, Nested(f), f # <<>>
  PROVE  /\ Nested(Front(f))
         /\ IF Len(f) = 1 THEN Front(f) = <<>> /\ Last(f) = Frame("runner", "default")
                          ELSE Front(f) # <<>> /\ Last(f) = Frame("client", "rcu")
<1> DEFINE g == Front(f)
<1>1. f \in Seq(Blocks)
  BY Zenon DEF Nested
<1>2. PICK n \in Nat : Len(f) = n + 1 /\ n = Len(f) - 1
  BY <1>1
<1>3. g = SubSeq(f, 1, n) /\ \A i \in 1 .. n : f[i] \in Blocks
  BY <1>1, <1>2 DEF Front
<1>4. /\ g \in Seq(Blocks) /\ Len(g) = IF 1 <= n THEN n - 1 + 1 ELSE 0
      /\ \A i \in 1 .. n - 1 + 1 : g[i] = f[1 + i - 1]
  BY <1>3, SubSeqProperties
<1> HIDE DEF g
<1>5. Len(g) = n /\ \A i \in 1 .. n : g[i] = f[i]
  <2>1. n = (IF 1 <= n THEN n - 1 + 1 ELSE 0) /\ 1 .. n - 1 + 1 = 1 .. n
        /\ \A i \in 1 .. n : 1 + i - 1 = i
    OBVIOUS
  <2> QED BY <1>4, <2>1
<1>6. n = 0 => g = <<>>
  BY <1>4, <1>5
<1>7. n # 0 => g # <<>> /\ g[1] = f[1]
  BY <1>4, <1>5
<1>8. \A i \in 2 .. n : g[i] = Frame("client", "rcu")
  BY <1>2, <1>5 DEF Nested
<1>9. Nested(g)
  BY <1>4, <1>5, <1>6, <1>7, <1>8, Zenon DEF Nested
<1>10. n = 0 => Last(f) = Frame("runner", "default")
  BY <1>2 DEF Last, Nested
<1>11. n # 0 => Last(f) = Frame("client", "rcu")
  <2>1. n # 0 => Len(f) \in 2 .. Len(f)
    BY <1>2
  <2> QED BY <2>1, Zenon DEF Last, Nested
<1> QED BY <1>2, <1>6, <1>7, <1>9, <1>10, <1>11 DEF g

-----------------------------------------------------------------------------
(* The control of a run: lemmas on the kinds of steps, then one for each    *)
(* group of actions.                                                        *)

Places == Running \cup {"idle", "crashed", "tangled", "report"}

(* The machine changes in none of the fields that LevelInv is about. *)
SameRun == /\ DOMAIN mach' = MachFields
           /\ mach'.level = mach.level /\ mach'.solo = mach.solo

LEMMA Grown ==
  ASSUME NEW s, s \in Seq(ToSet(s)), NEW x
  PROVE  /\ Append(s, x) \in Seq(ToSet(Append(s, x)))
         /\ Append(s, x) # <<>> /\ Last(Append(s, x)) = x
<1> DEFINE S == ToSet(s) \cup {x}
           t == Append(s, x)
<1>1. s \in Seq(S) /\ x \in S
  BY SeqMonotonic, Zenon
<1> HIDE DEF S
<1>2. t \in Seq(S) /\ Len(t) = Len(s) + 1 /\ t[Len(s) + 1] = x /\ Len(s) \in Nat
  BY <1>1, AppendProperties
<1> HIDE DEF t
<1>3. t \in Seq(ToSet(t))
  <2>1. DOMAIN t = 1 .. Len(t) /\ Len(t) \in Nat
    BY <1>2
  <2>2. t \in [1 .. Len(t) -> ToSet(t)]
    BY <1>2, <2>1 DEF ToSet
  <2> QED BY <2>1, <2>2, SeqDef, Zenon
<1>4. t # <<>> /\ Last(t) = x
  BY <1>2 DEF Last
<1> QED BY <1>3, <1>4, Zenon DEF t

(* A step outside the functions of the client that calls none of them. *)
LEMMA QuietStep ==
  ASSUME ControlInv, UNCHANGED <<frames, sig>>, pc # "call", pc' # "call",
         calls' = calls \/ calls' = <<>>,
         pc' \in Places, LevelInv', HooksInv'
  PROVE  ControlInv'
<1>1. FramesInv'
  BY Zenon DEF ControlInv, FramesInv, InCall
<1>2. CallsInv'
  <2>1. <<>> \in Seq(ToSet(<<>>))
    OBVIOUS
  <2> QED BY <2>1, Zenon DEF ControlInv, CallsInv, InCall
<1> QED BY <1>1, <1>2, Zenon DEF ControlInv, Places

LEMMA CallStep ==
  ASSUME ControlInv, NEW kind \in Kinds, NEW who, Call(kind, who),
         pc \in Running \ {"call", "modOver"}
  PROVE  ControlInv'
<1>1. /\ frames' = Append(frames, [owner |-> "runner", saved |-> sig]) /\ sig' = "rcu"
      /\ pc' = "call" /\ mach' = [mach EXCEPT !.ctx = kind]
      /\ calls' = Append(calls, <<kind, who>>) /\ UNCHANGED <<ended, hooks>>
  BY Zenon DEF Call, Try
<1>2. frames = <<>> /\ sig = "default"
  BY Zenon DEF ControlInv, FramesInv, InCall
<1>3. frames' = Append(<<>>, Frame("runner", "default"))
  BY <1>1, <1>2, Zenon DEF Frame
<1>4. Nested(frames') /\ frames' # <<>>
  BY <1>3, NestedFirst, Zenon
<1>5. FramesInv'
  BY <1>1, <1>4, Zenon DEF FramesInv, Nested, Blocks, InCall
<1>6. CallsInv'
  <2>1. calls' \in Seq(ToSet(calls')) /\ calls' # <<>> /\ Last(calls') = <<kind, who>>
    BY <1>1, Grown, Zenon DEF ControlInv, CallsInv
  <2> QED BY <2>1 DEF CallsInv, Kind
<1>7. LevelInv'
  BY <1>1, Zenon DEF ControlInv, LevelInv, MachFields
<1>8. HooksInv'
  BY <1>1, Zenon DEF ControlInv, HooksInv, Running
<1> QED BY <1>1, <1>5, <1>6, <1>7, <1>8, Zenon DEF ControlInv, Running

(* The innermost block is left: the client's function goes on, or the run   *)
(* does.                                                                    *)
LEMMA LeaveStep ==
  ASSUME ControlInv, InCall, Leave
  PROVE  /\ Nested(frames') /\ Kind \in Kinds
         /\ \/ Len(frames) = 1 /\ frames' = <<>> /\ sig' = "default" /\ Last(frames).owner = "runner"
            \/ Len(frames) # 1 /\ frames' # <<>> /\ sig' = "rcu" /\ Last(frames).owner = "client"
<1>1. Nested(frames) /\ frames # <<>> /\ Kind \in Kinds
  BY Zenon DEF ControlInv, FramesInv, CallsInv, Nested, Blocks
<1>2. frames' = Front(frames) /\ sig' = Last(frames).saved
  BY Zenon DEF Leave
<1>3. /\ Nested(Front(frames))
      /\ IF Len(frames) = 1 THEN Front(frames) = <<>> /\ Last(frames) = Frame("runner", "default")
                            ELSE Front(frames) # <<>> /\ Last(frames) = Frame("client", "rcu")
  BY <1>1, NestedLess, Zenon
<1> QED BY <1>1, <1>2, <1>3, FrameFields, Zenon

(* The client's function goes on, in a block of its own or not. *)
LEMMA StaysStep ==
  ASSUME ControlInv, InCall, Nested(frames'), frames' # <<>>, sig' = "rcu",
         UNCHANGED <<pc, calls, hooks>>, SameRun
  PROVE  ControlInv'
<1>1. FramesInv'
  BY Zenon DEF FramesInv, Nested, Blocks, InCall
<1>2. CallsInv'
  BY Zenon DEF ControlInv, CallsInv, InCall, Kind
<1>3. LevelInv' /\ HooksInv'
  BY Zenon DEF ControlInv, LevelInv, HooksInv, SameRun, InCall
<1> QED BY <1>1, <1>2, <1>3, Zenon DEF ControlInv, InCall

LEMMA HookTuples ==
  /\ Append(<<>>, "started") = <<"started">>
  /\ Append(<<"started">>, "finished") = <<"started", "finished">>
<1>1. Append(<<>>, "started") = <<"started">>
  OBVIOUS
<1>2. Append(<<"started">>, "finished") = <<"started", "finished">>
  <2> DEFINE S == {"started", "finished"}
             s == <<"started">>
             t == Append(s, "finished")
             u == <<"started", "finished">>
  <2>1. s \in Seq(S) /\ Len(s) = 1 /\ s[1] = "started"
    OBVIOUS
  <2>2. u \in Seq(S) /\ Len(u) = 2 /\ u[1] = "started" /\ u[2] = "finished"
    OBVIOUS
  <2>3. "finished" \in S
    BY Zenon
  <2> HIDE DEF S, s, u
  <2>4. t \in Seq(S) /\ Len(t) = 2 /\ t[1] = "started" /\ t[2] = "finished"
    <3>1. /\ t \in Seq(S) /\ Len(t) = Len(s) + 1 /\ t[Len(s) + 1] = "finished"
          /\ \A i \in 1 .. Len(s) : t[i] = s[i]
      <4> DEFINE e == "finished"
      <4>1. s \in Seq(S) /\ e \in S
        BY <2>1, <2>3, Zenon
      <4> HIDE DEF e
      <4>2. /\ Append(s, e) \in Seq(S) /\ Len(Append(s, e)) = Len(s) + 1
            /\ Append(s, e)[Len(s) + 1] = e /\ \A i \in 1 .. Len(s) : Append(s, e)[i] = s[i]
        BY <4>1, AppendProperties
      <4> QED BY <4>2, Zenon DEF e
    <3>2. Len(s) + 1 = 2 /\ 1 \in 1 .. Len(s)
      BY <2>1
    <3> QED BY <2>1, <3>1, <3>2, Zenon
  <2> HIDE DEF t
  <2>5. \A i \in 1 .. Len(t) : t[i] = u[i]
    BY <2>2, <2>4
  <2>6. t = u
    BY <2>2, <2>4, <2>5, SeqEqual, Zenon
  <2> QED BY <2>6, Zenon DEF t, u, s
<1> QED BY <1>1, <1>2, Zenon

(* The client's function is over. *)
LEMMA EndsStep ==
  ASSUME ControlInv, InCall, frames' = <<>>, sig' = "default", UNCHANGED calls, SameRun,
         pc' \in Running \ {"call"},
         hooks' = IF pc' = "modOver" /\ mach.level = "mod" THEN Append(hooks, "finished") ELSE hooks
  PROVE  ControlInv'
<1>1. FramesInv'
  <2>1. 2 .. Len(<<>>) = {} /\ <<>> \in Seq(Blocks)
    OBVIOUS
  <2> QED BY <2>1, Zenon DEF FramesInv, InCall, Blocks
<1>2. CallsInv'
  BY Zenon DEF ControlInv, CallsInv, InCall
<1>3. LevelInv'
  BY Zenon DEF ControlInv, LevelInv, SameRun, Running
<1>4. HooksInv'
  <2>1. hooks = <<"started">>
    BY Zenon DEF ControlInv, HooksInv, InCall
  <2> QED BY <2>1, HookTuples, Zenon DEF HooksInv, SameRun, Running
<1> QED BY <1>1, <1>2, <1>3, <1>4, Zenon DEF ControlInv

LEMMA ThrowStep ==
  ASSUME ControlInv, InCall, Throw, SameRun
  PROVE  ControlInv'
<1>1. Leave /\ UNCHANGED <<cur, calls>>
  BY Zenon DEF Throw
<1>2. CASE Last(frames).owner = "client"
  <2>1. UNCHANGED <<pc, hooks>>
    BY <1>2, Zenon DEF Throw
  <2> QED BY <1>1, <1>2, <2>1, LeaveStep, StaysStep, Zenon
<1>3. CASE Last(frames).owner # "client"
  <2>1. /\ pc' = After(Kind, FALSE)
        /\ IF Kind \in {"modInit", "modDestroy"}
           THEN HookAt("mod", "finished") ELSE UNCHANGED hooks
    BY <1>3, Zenon DEF Throw
  <2>2. Kind \in Kinds /\ frames' = <<>> /\ sig' = "default"
    BY <1>1, <1>3, LeaveStep, Zenon
  <2>3. /\ pc' \in Running \ {"call"}
        /\ pc' = "modOver" <=> Kind \in {"modInit", "modDestroy"}
    BY <2>1, <2>2, Zenon DEF After, Kinds, Running
  <2>4. hooks' = IF pc' = "modOver" /\ mach.level = "mod" THEN Append(hooks, "finished") ELSE hooks
    BY <2>1, <2>3, Zenon DEF HookAt, Hook
  <2> QED BY <1>1, <2>2, <2>3, <2>4, EndsStep, Zenon
<1> QED BY <1>2, <1>3, Zenon

(* A call of the interface that runs nothing. *)
LEMMA CalledIdle ==
  ASSUME ControlInv, pc = "idle", Steady, DOMAIN mach' = MachFields,
         \/ SameRun /\ mach'.ctx = mach.ctx
         \/ mach'.level = "mach" /\ mach'.ctx = "unknown"
  PROVE  ControlInv'
<1>1. UNCHANGED <<pc, frames, sig, calls, hooks>>
  BY Zenon DEF Steady, trace
<1>2. LevelInv'
  BY <1>1, Zenon DEF ControlInv, LevelInv, SameRun
<1>3. HooksInv'
  BY <1>1, Zenon DEF ControlInv, HooksInv
<1> QED BY <1>1, <1>2, <1>3, QuietStep, Zenon DEF Places

LEMMA FreshMach == /\ DOMAIN NewMach = MachFields /\ NewMach.level = "mach" /\ NewMach.ctx = "unknown"
                   /\ DOMAIN NoMach = MachFields /\ NoMach.level = "mach" /\ NoMach.ctx = "unknown"
                   /\ ~NewMach.solo /\ ~NoMach.solo
BY Zenon DEF NewMach, NoMach, MachFields

LEMMA ClientStep ==
  ASSUME ControlInv, Client
  PROVE  ControlInv'
<1> USE DEF Idle
<1>1. DOMAIN mach = MachFields
  BY Zenon DEF ControlInv, LevelInv
<1>2. CASE RcuInit \/ RcuDestroy
  <2>1. pc = "idle" /\ Steady /\ mach' \in {NewMach, NoMach}
    BY <1>2, Zenon DEF RcuInit, RcuDestroy
  <2> QED BY <2>1, CalledIdle, FreshMach, Zenon
<1>3. CASE \/ CallGetReg \/ CallGetMod \/ SetModFxt \/ AddTest \/ AddTestFxt \/ CallAddModTbl
  <2>1. pc = "idle" /\ Steady /\ mach' = [mach EXCEPT !.ops = mach.ops + 1]
    BY <1>3, Zenon DEF CallGetReg, CallGetMod, SetModFxt, AddTest, AddTestFxt, CallAddModTbl,
                Register, Counted
  <2>2. SameRun /\ mach'.ctx = mach.ctx
    BY <1>1, <2>1, Zenon DEF SameRun, MachFields
  <2> QED BY <2>1, <2>2, CalledIdle, Zenon DEF SameRun
<1>4. CASE CallDestroyMod \/ CallDestroyReg
  <2>1. /\ pc = "idle" /\ Steady
        /\ \E l : mach' = [mach EXCEPT !.ops = mach.ops + 1, !.lost = l]
    BY <1>4, Zenon DEF CallDestroyMod, CallDestroyReg, Discard
  <2>2. SameRun /\ mach'.ctx = mach.ctx
    BY <1>1, <2>1, Zenon DEF SameRun, MachFields
  <2> QED BY <2>1, <2>2, CalledIdle, Zenon DEF SameRun
<1>5. CASE AssertOutside
  <2>1. /\ pc = "idle" /\ mach' = [mach EXCEPT !.ops = mach.ops + 1]
        /\ pc' = IF mach.ctx = "unknown" THEN pc ELSE "crashed"
        /\ UNCHANGED <<frames, sig, calls, hooks>>
    BY <1>5, Zenon DEF AssertOutside, Counted, trace
  <2>2. SameRun /\ mach'.ctx = mach.ctx
    BY <1>1, <2>1, Zenon DEF SameRun, MachFields
  <2>3. LevelInv'
    BY <2>1, <2>2, Zenon DEF ControlInv, LevelInv, SameRun
  <2>4. HooksInv'
    BY <2>1, Zenon DEF ControlInv, HooksInv
  <2> QED BY <2>1, <2>3, <2>4, QuietStep, Zenon DEF Places
<1>6. CASE CallAddMod
  <2>1. /\ pc = "idle" /\ pc' = "tangled" /\ mach' = [mach EXCEPT !.ops = mach.ops + 1]
        /\ UNCHANGED <<frames, sig, calls, hooks>>
    BY <1>6, Zenon DEF CallAddMod, Counted, trace
  <2>2. SameRun
    BY <1>1, <2>1, Zenon DEF SameRun, MachFields
  <2>3. LevelInv'
    BY <2>1, <2>2, Zenon DEF ControlInv, LevelInv, SameRun
  <2>4. HooksInv'
    BY <2>1, Zenon DEF ControlInv, HooksInv
  <2> QED BY <2>1, <2>3, <2>4, QuietStep, Zenon DEF Places
<1>7. CASE RunTests \/ RunReg \/ RunMod
  <2>1. /\ pc = "idle" /\ pc' \in {"regs", "mods", "mod"} /\ hooks' = Append(hooks, "started")
        /\ UNCHANGED <<frames, sig, calls>>
    BY <1>7, Zenon DEF RunTests, RunReg, RunMod, Hook
  <2>2. DOMAIN mach' = MachFields /\ (mach'.level = "mach" \/ mach'.solo)
    BY <1>1, <1>7, Zenon DEF RunTests, RunReg, RunMod, MachFields
  <2>3. LevelInv'
    BY <1>1, <1>7, <2>1, <2>2, Zenon DEF ControlInv, LevelInv, RunTests, RunReg, RunMod, MachFields
  <2>4. HooksInv'
    BY <2>1, HookTuples, Zenon DEF ControlInv, HooksInv
  <2> QED BY <2>1, <2>3, <2>4, QuietStep, Zenon DEF Places, Running
<1> QED BY <1>2, <1>3, <1>4, <1>5, <1>6, <1>7, Zenon DEF Client

LEMMA ClientFunctionStep ==
  ASSUME ControlInv, ClientFunction
  PROVE  ControlInv'
<1>1. DOMAIN mach = MachFields
  BY Zenon DEF ControlInv, LevelInv
<1>2. Nested(frames) /\ (InCall => frames # <<>>) /\ (InCall => sig = "rcu")
  BY Zenon DEF ControlInv, FramesInv, Nested, Blocks
<1>3. CASE Return
  <2>1. InCall /\ Len(frames) = 1 /\ Leave /\ pc' = After(Kind, TRUE) /\ UNCHANGED <<mach, calls, hooks>>
    BY <1>3, Zenon DEF Return, trace
  <2>2. Kind \in Kinds /\ frames' = <<>> /\ sig' = "default"
    BY <2>1, LeaveStep, Zenon
  <2>3. pc' \in Running \ {"call", "modOver"}
    BY <2>1, <2>2, Zenon DEF After, Kinds, Running
  <2>4. SameRun
    BY <1>1, <2>1, Zenon DEF SameRun
  <2> QED BY <2>1, <2>2, <2>3, <2>4, EndsStep, Zenon
<1>4. CASE ClientTry
  <2>1. /\ InCall /\ frames' = Append(frames, [owner |-> "client", saved |-> sig]) /\ sig' = "rcu"
        /\ UNCHANGED <<mach, pc, calls, hooks>>
    BY <1>4, Zenon DEF ClientTry, Try, trace
  <2>2. frames' = Append(frames, Frame("client", "rcu"))
    BY <1>2, <2>1, Zenon DEF Frame
  <2>3. SameRun
    BY <1>1, <2>1, Zenon DEF SameRun
  <2> QED BY <1>2, <2>1, <2>2, <2>3, NestedMore, StaysStep, Zenon
<1>5. CASE ClientEndTry
  <2>1. InCall /\ Last(frames).owner = "client" /\ Leave /\ UNCHANGED <<mach, pc, calls, hooks>>
    BY <1>5, Zenon DEF ClientEndTry, trace
  <2>2. SameRun
    BY <1>1, <2>1, Zenon DEF SameRun
  <2> QED BY <2>1, <2>2, LeaveStep, StaysStep, Zenon
<1>6. CASE Signal
  <2>1. InCall /\ Throw /\ mach' = [mach EXCEPT !.faults = mach.faults + 1]
    BY <1>6, Zenon DEF Signal
  <2>2. SameRun
    BY <1>1, <2>1, Zenon DEF SameRun, MachFields
  <2> QED BY <2>1, <2>2, ThrowStep, Zenon
<1>7. CASE AssertPass
  <2>1. InCall /\ UNCHANGED <<mach, pc, frames, sig, calls, hooks>>
    BY <1>7, Zenon DEF AssertPass, trace
  <2>2. SameRun
    BY <1>1, <2>1, Zenon DEF SameRun
  <2> QED BY <1>2, <2>1, <2>2, StaysStep, Zenon
<1>8. CASE AssertFail
  <2>1. /\ InCall /\ mach' = [mach EXCEPT !.ctx = "unknown", !.faults = mach.faults + 1]
        /\ UNCHANGED <<pc, frames, sig, calls, hooks>> \/ Throw
    BY <1>8, Zenon DEF AssertFail, trace
  <2>2. SameRun
    BY <1>1, <2>1, Zenon DEF SameRun, MachFields
  <2> QED BY <1>2, <2>1, <2>2, StaysStep, ThrowStep, Zenon
<1> QED BY <1>3, <1>4, <1>5, <1>6, <1>7, <1>8, Zenon DEF ClientFunction

LEMMA RunnerStep ==
  ASSUME ControlInv, Runner
  PROVE  ControlInv'
<1>1. DOMAIN mach = MachFields
  BY Zenon DEF ControlInv, LevelInv
<1>2. CASE NextReg
  <2>1. /\ pc = "regs" /\ UNCHANGED <<mach, frames, sig, calls>>
        /\ \/ pc' = "report" /\ hooks' = Append(hooks, "finished")
           \/ pc' = "mods" /\ hooks' = hooks
    BY <1>2, Zenon DEF NextReg, Hook
  <2>2. LevelInv' /\ HooksInv'
    BY <2>1, HookTuples, Zenon DEF ControlInv, LevelInv, HooksInv
  <2> QED BY <2>1, <2>2, QuietStep, Zenon DEF Places, Running
<1>3. CASE NextMod
  <2>1. /\ pc = "mods" /\ UNCHANGED <<frames, sig, calls>>
        /\ \/ pc' = "mod" /\ UNCHANGED <<mach, hooks>>
           \/ /\ \E n : mach' = [mach EXCEPT !.nr_failed_reg = n]
              /\ pc' = IF mach.level = "reg" THEN "report" ELSE "regs"
              /\ hooks' = IF mach.level = "reg" THEN Append(hooks, "finished") ELSE hooks
    BY <1>3, Zenon DEF NextMod, HookAt, Hook
  <2>2. DOMAIN mach' = MachFields /\ mach'.level = mach.level /\ mach'.solo = mach.solo
    BY <1>1, <2>1, Zenon DEF MachFields
  <2>3. LevelInv' /\ HooksInv'
    BY <2>1, <2>2, HookTuples, Zenon DEF ControlInv, LevelInv, HooksInv
  <2> QED BY <2>1, <2>3, QuietStep, Zenon DEF Places, Running
<1>4. ASSUME pc \in {"mod", "tests", "func", "funcDestroy"},
             \/ \E kind \in Kinds : \E who : Call(kind, who)
             \/ pc' \in {"tests", "func", "modEnd", "count"} /\ UNCHANGED <<mach, frames, sig, trace>>
      PROVE  ControlInv'
  <2>1. CASE \E kind \in Kinds : \E who : Call(kind, who)
    BY <1>4, <2>1, CallStep, Zenon DEF Running
  <2>2. CASE pc' \in {"tests", "func", "modEnd", "count"} /\ UNCHANGED <<mach, frames, sig, trace>>
    <3>1. LevelInv' /\ HooksInv'
      BY <1>4, <2>2, Zenon DEF ControlInv, LevelInv, HooksInv, trace
    <3> QED BY <1>4, <2>2, <3>1, QuietStep, Zenon DEF Places, Running, trace
  <2> QED BY <1>4, <2>1, <2>2, Zenon
<1>5. CASE ModSetup
  BY <1>4, <1>5, Zenon DEF ModSetup, Kinds
<1>6. CASE NextTest
  BY <1>4, <1>6, Zenon DEF NextTest, Kinds
<1>7. CASE FuncEntry
  BY <1>4, <1>7, Zenon DEF FuncEntry, Kinds
<1>8. CASE FuncTeardown
  BY <1>4, <1>8, Zenon DEF FuncTeardown, Kinds
<1>9. CASE Count
  <2>1. pc = "count" /\ pc' = "tests" /\ UNCHANGED <<mach, frames, sig, calls, hooks>>
    BY <1>9, Zenon DEF Count, trace
  <2>2. LevelInv' /\ HooksInv'
    BY <2>1, Zenon DEF ControlInv, LevelInv, HooksInv
  <2> QED BY <2>1, <2>2, QuietStep, Zenon DEF Places, Running
<1>10. CASE ModEnd
  <2>1. /\ pc = "modEnd" /\ pc' = "modOver" /\ UNCHANGED <<frames, sig, calls>>
        /\ \E n : mach' = [mach EXCEPT !.nr_failed_test = n]
        /\ hooks' = IF mach.level = "mod" THEN Append(hooks, "finished") ELSE hooks
    BY <1>10, Zenon DEF ModEnd, HookAt, Hook
  <2>2. DOMAIN mach' = MachFields /\ mach'.level = mach.level /\ mach'.solo = mach.solo
    BY <1>1, <2>1, Zenon DEF MachFields
  <2>3. LevelInv' /\ HooksInv'
    BY <2>1, <2>2, HookTuples, Zenon DEF ControlInv, LevelInv, HooksInv
  <2> QED BY <2>1, <2>3, QuietStep, Zenon DEF Places, Running
<1>11. CASE ModOver
  <2>1. /\ pc = "modOver" /\ calls' = <<>> /\ UNCHANGED <<mach, frames, sig, hooks>>
        /\ pc' = IF mach.level = "mod" THEN "report" ELSE "mods"
    BY <1>11, Zenon DEF ModOver
  <2>2. LevelInv' /\ HooksInv'
    BY <2>1, Zenon DEF ControlInv, LevelInv, HooksInv
  <2> QED BY <2>1, <2>2, QuietStep, Zenon DEF Places, Running
<1>12. CASE Report
  <2>1. /\ pc = "report" /\ pc' = "idle" /\ hooks' = <<>> /\ UNCHANGED <<frames, sig, calls>>
        /\ mach' = IF mach.level = "mach" THEN NoMach ELSE mach
    BY <1>12, Zenon DEF Report
  <2>2. LevelInv'
    BY <1>1, <2>1, FreshMach, Zenon DEF ControlInv, LevelInv
  <2>3. HooksInv'
    BY <2>1, Zenon DEF HooksInv
  <2> QED BY <2>1, <2>2, <2>3, QuietStep, Zenon DEF Places
<1> QED BY <1>2, <1>3, <1>5, <1>6, <1>7, <1>8, <1>9, <1>10, <1>11, <1>12, Zenon DEF Runner

LEMMA ControlInit == Init => ControlInv
<1> SUFFICES ASSUME Init PROVE ControlInv
  BY Zenon
<1>1. pc = "idle" /\ frames = <<>> /\ sig = "default" /\ calls = <<>> /\ hooks = <<>> /\ mach = NoMach
  BY Zenon DEF Init
<1>2. FramesInv
  <2>1. 2 .. Len(<<>>) = {} /\ <<>> \in Seq(Blocks)
    OBVIOUS
  <2> QED BY <1>1, <2>1, Zenon DEF FramesInv, InCall, Blocks
<1>3. CallsInv
  BY <1>1 DEF CallsInv, InCall
<1>4. LevelInv /\ HooksInv
  BY <1>1, FreshMach, Zenon DEF LevelInv, HooksInv
<1> QED BY <1>1, <1>2, <1>3, <1>4, Zenon DEF ControlInv

LEMMA ControlInvariance == Spec => []ControlInv
<1>1. ControlInv /\ UNCHANGED vars => ControlInv'
  <2> SUFFICES ASSUME ControlInv, UNCHANGED vars PROVE ControlInv'
    BY Zenon
  <2>1. /\ pc' = pc /\ frames' = frames /\ sig' = sig /\ calls' = calls /\ hooks' = hooks
        /\ mach' = mach
    BY Zenon DEF vars
  <2> QED BY <2>1, Zenon DEF ControlInv, FramesInv, CallsInv, LevelInv, HooksInv, InCall, Kind
<1>2. ControlInv /\ [Next]_vars => ControlInv'
  BY <1>1, ClientStep, ClientFunctionStep, RunnerStep, Zenon DEF Next
<1> QED BY <1>2, ControlInit, PTL DEF Spec

(* RCU_THROW and the signal handler always find a frame: one is there       *)
(* exactly while a function of the client runs and the handler is           *)
(* installed, the runner's first, however many blocks the client nests and  *)
(* however it leaves them; and a failed assertion outside a run ends the    *)
(* program only after a run of a single module or registry.                 *)
THEOREM ThrowsCaught == Spec => []ThrowHasFrame
<1>1. ControlInv => ThrowHasFrame
  <2> SUFFICES ASSUME ControlInv PROVE ThrowHasFrame
    BY Zenon
  <2>1. (sig = "rcu") = (frames # <<>>) /\ InCall = (frames # <<>>)
    BY Zenon DEF ControlInv, FramesInv, InCall
  <2>2. InCall => Head(frames) = [owner |-> "runner", saved |-> "default"]
    BY DEF ControlInv, FramesInv, Frame
  <2> QED BY <2>1, <2>2, Zenon DEF ControlInv, LevelInv, ThrowHasFrame
<1> QED BY <1>1, ControlInvariance, PTL

(* The run hook is called exactly twice in a run of any level, before the   *)
(* first and after the last function, on every path out of it.              *)
THEOREM HooksBracket == Spec => []HookBrackets
<1>1. ControlInv => HookBrackets
  BY Zenon DEF ControlInv, HooksInv, HookBrackets, InCall
<1> QED BY <1>1, ControlInvariance, PTL
=============================================================================
