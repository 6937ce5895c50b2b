------------------------ MODULE ThreadsLocks_proofs ------------------------
(***************************************************************************)
(* The types of the threads' variables and the locks the threads hold at   *)
(* each label, as steps of the inductive proof in Threads_proofs, and what *)
(* the locks exclude.                                                      *)
(***************************************************************************)
EXTENDS Threads, TLAPS

USE ThreadsAssumption DEF Threads

(***************************************************************************)
(* Type correctness: every step keeps TypeOK and EventsInv.                *)
(***************************************************************************)

\* An event less is still a result of epoll_wait (peer.c:748-755).
LEMMA TailTyped ==
  ASSUME NEW es \in EventSeqs, es # <<>>
  PROVE  Tail(es) \in EventSeqs
<1>1. CASE \E f \in Fds : es = <<f>>
  <2>1. PICK f \in Fds : es = <<f>>
    BY <1>1, Zenon
  <2>2. Tail(es) = <<>>
    BY <2>1
  <2> QED BY <2>2, Zenon DEF EventSeqs
<1>2. CASE es \in Fds \X Fds
  <2>1. PICK f \in Fds, g \in Fds : es = <<f, g>>
    BY <1>2
  <2>2. Tail(es) = <<g>>
    BY <2>1
  <2> QED BY <2>2, Zenon DEF EventSeqs
<1> QED BY <1>1, <1>2, Zenon DEF EventSeqs

\* The label after an event is one of worker_loop's.
LEMMA NextEventTyped ==
  ASSUME NEW es \in EventSeqs
  PROVE  NextEvent(es) \in {"read", "done", "wait"} /\ (NextEvent(es) = "read" => es # <<>>)
BY Zenon DEF NextEvent

\* The state before the threads run is well formed (start_peer).
LEMMA InitTyped == Init => TypeOK /\ EventsInv
<1> SUFFICES ASSUME Init PROVE TypeOK /\ EventsInv
  BY Zenon
<1>1. NoSession \in Session
  BY DEF NoSession, Session
<1>2. pc \in [Threads -> {"loop", "wait", "done"}]
  BY Zenon DEF Init
<1>3. events \in [Workers -> EventSeqs]
  BY Zenon DEF Init, EventSeqs
<1>4. queue \in [Fds -> 0 .. QueueLimit]
  BY DEF Init
<1>5. stop \in BOOLEAN
  BY Zenon DEF Init
<1>6. /\ readers \subseteq Threads /\ writer \in Threads \cup {NoThread}
      /\ hot \in [Slots -> Threads \cup {NoThread}] /\ sess \in [Slots -> Session]
      /\ at \in [Threads -> Nat \ {0}] /\ num \in [Threads -> Nat]
  BY <1>1 DEF Init
<1>7. TypeOK
  BY <1>2, <1>3, <1>4, <1>5, <1>6, Zenon DEF TypeOK, Labels, FreeLabels
<1> QED BY <1>2, <1>7, Zenon DEF EventsInv

\* Every label but "read", which only epoll_wait and the end of an event lead to.
Others == Labels \ {"read"}

\* The sets of labels that tell about locks contain no other.
LEMMA OtherLabels ==
  ForwardLabels \cup HotLabels \cup HotWaits \cup ReadLabels \cup WriteLabels \cup EitherLabels
    \cup TableWaits \cup {"loop", "wait", "done"} \subseteq Others
BY Zenon DEF Others, Labels, ForwardLabels, HotLabels, HotWaits, ReadLabels, WriteLabels, EitherLabels,
       TableWaits, FreeLabels

\* A jump to such a label keeps the labels well formed, and the events as they must be.
LEMMA GotoTyped ==
  ASSUME TypeOK, EventsInv, UNCHANGED events, NEW t \in Threads, NEW l \in Others, Goto(t, l)
  PROVE  pc' \in [Threads -> Labels] /\ events' \in [Workers -> EventSeqs] /\ EventsInv'
BY Zenon DEF TypeOK, EventsInv, Goto, Others

\* What follows a call of forward_to_peer is well formed.
LEMMA AfterForwardTyped ==
  ASSUME TypeOK, EventsInv, UNCHANGED events, NEW t \in Threads, AfterForward(t)
  PROVE  /\ pc' \in [Threads -> Labels] /\ events' \in [Workers -> EventSeqs] /\ EventsInv'
         /\ at' \in [Threads -> Nat \ {0}]
<1>1. {"keepalive", "unlock"} \subseteq Others
  BY OtherLabels, Zenon DEF WriteLabels, EitherLabels
<1>2. CASE t = Hk
  BY <1>1, <1>2, GotoTyped DEF AfterForward, Move, TypeOK
<1>3. CASE t # Hk
  BY <1>1, <1>3, GotoTyped, Zenon DEF AfterForward, TypeOK
<1> QED BY <1>2, <1>3, Zenon

\* The slot of a thread at one of SlotLabels exists.
LEMMA SlotExists ==
  ASSUME LockInv, NEW t \in Threads, pc[t] \in SlotLabels
  PROVE  at[t] \in Slots
BY Zenon DEF LockInv, ThreadLocks

\* forward_to_peer keeps the types.
LEMMA ForwardTyped ==
  ASSUME TypeOK, EventsInv, LockInv, NEW t \in Threads, ForwardToPeer(t)
  PROVE  TypeOK' /\ EventsInv'
<1>1. ForwardLabels \subseteq Others /\ ForwardLabels \subseteq SlotLabels
  BY OtherLabels, Zenon DEF SlotLabels
<1>2. CASE FwdLock(t)
  BY <1>1, <1>2, GotoTyped, Zenon DEF TypeOK, FwdLock, Acquire, HotLock, ForwardLabels
<1>3. CASE FwdSeq(t)
  <2>1. sess[at[t]].send \in Nat
    BY <1>1, <1>3, SlotExists DEF TypeOK, FwdSeq, Session, ForwardLabels
  <2> QED BY <1>1, <1>3, <2>1, GotoTyped, Zenon DEF TypeOK, FwdSeq, ForwardLabels, locks
<1>4. CASE FwdSeal(t)
  <2>1. at[t] \in Slots
    BY <1>1, <1>4, SlotExists, Zenon DEF FwdSeal, ForwardLabels
  <2>2. (num[t] + 1) % SeqMod \in 0 .. SeqMod - 1
    BY DEF TypeOK
  <2>3. sess' \in [Slots -> Session]
    <3>1. sess' = [sess EXCEPT ![at[t]] = [sess[at[t]] EXCEPT !.send = (num[t] + 1) % SeqMod]]
      BY <1>4, <2>1, Zenon DEF TypeOK, FwdSeal
    <3>2. sess \in [Slots -> Session] /\ sess[at[t]] \in Session
      BY <2>1, Zenon DEF TypeOK
    <3>3. [sess[at[t]] EXCEPT !.send = (num[t] + 1) % SeqMod] \in Session
      BY <2>2, <3>2, Zenon DEF Session
    <3> QED BY <2>1, <3>1, <3>2, <3>3, Zenon
  <2>4. /\ pc' \in [Threads -> Labels] /\ events' \in [Workers -> EventSeqs] /\ EventsInv'
        /\ at' \in [Threads -> Nat \ {0}]
    BY <1>1, <1>4, GotoTyped, AfterForwardTyped, Zenon DEF TypeOK, FwdSeal, ForwardLabels
  <2> QED BY <1>4, <2>3, <2>4, Zenon DEF TypeOK, FwdSeal, HotUnlock
<1>5. CASE FwdSend(t)
  <2>1. /\ pc' \in [Threads -> Labels] /\ events' \in [Workers -> EventSeqs] /\ EventsInv'
        /\ at' \in [Threads -> Nat \ {0}]
    BY <1>1, <1>5, GotoTyped, AfterForwardTyped, Zenon DEF TypeOK, FwdSend, ForwardLabels
  <2> QED BY <1>5, <2>1, Zenon DEF TypeOK, FwdSend, locks
<1>6. CASE FwdStamp(t)
  BY <1>6, AfterForwardTyped, Zenon DEF TypeOK, FwdStamp, HotBriefly, locks
<1> QED BY <1>2, <1>3, <1>4, <1>5, <1>6, Zenon DEF ForwardToPeer

\* print_sessions keeps the types.
LEMMA PrintTyped ==
  ASSUME TypeOK, EventsInv, NEW t \in Threads, PrintSessions(t)
  PROVE  TypeOK' /\ EventsInv'
<1>1. {"print", "unlock"} \subseteq Others
  BY OtherLabels, Zenon DEF EitherLabels
<1>2. CASE PrintSlot(t)
  BY <1>1, <1>2, GotoTyped DEF TypeOK, PrintSlot, Move, locks
<1>3. CASE PrintEnd(t)
  BY <1>1, <1>3, GotoTyped, Zenon DEF TypeOK, PrintEnd, locks
<1> QED BY <1>2, <1>3, Zenon DEF PrintSessions

\* A jump of a worker after an event, or into one, is well formed.
LEMMA EventTyped ==
  ASSUME TypeOK, EventsInv, NEW w \in Workers, NEW es \in EventSeqs, NEW l \in Labels,
         l = "read" => es # <<>>, events' = [events EXCEPT ![w] = es], Goto(w, l)
  PROVE  pc' \in [Threads -> Labels] /\ events' \in [Workers -> EventSeqs] /\ EventsInv'
BY Zenon DEF TypeOK, EventsInv, Goto

\* Waiting for a packet and reading it keep the types.
LEMMA ReceiveTyped ==
  ASSUME TypeOK, EventsInv, NEW w \in Workers,
         EpollWait(w) \/ EpollTimeout(w) \/ WorkerFails(w) \/ ReadTun(w) \/ RecvUdp(w)
           \/ WorkerUnlock(w)
  PROVE  TypeOK' /\ EventsInv'
<1>1. TableWaits \subseteq Others /\ {"wait", "done"} \subseteq Others /\ Others \subseteq Labels
      /\ "read" \notin Others /\ "read" \in Labels
  BY OtherLabels, Zenon DEF Others, Labels, FreeLabels
<1>2. CASE EpollWait(w)
  <2>1. PICK es \in Returned : events' = [events EXCEPT ![w] = es]
    BY <1>2, Zenon DEF EpollWait
  <2>2. es \in EventSeqs /\ es # <<>>
    BY <2>1 DEF Returned, Ready, EventSeqs
  <2> QED BY <1>1, <1>2, <2>1, <2>2, EventTyped, Zenon DEF TypeOK, EpollWait, locks
<1>3. CASE EpollTimeout(w)
  BY <1>1, <1>3, GotoTyped, Zenon DEF TypeOK, EpollTimeout, locks
<1>4. CASE WorkerFails(w)
  BY <1>1, <1>4, GotoTyped, Zenon DEF TypeOK, WorkerFails, locks
<1>5. CASE ReadTun(w)
  <2>1. Tail(events[w]) \in EventSeqs
    BY <1>5, TailTyped, Zenon DEF TypeOK, EventsInv, ReadTun
  <2>2. pc' \in [Threads -> Labels] /\ events' \in [Workers -> EventSeqs] /\ EventsInv'
    <3>1. events' = [events EXCEPT ![w] = Tail(events[w])]
      BY <1>5, Zenon DEF ReadTun
    <3>2. CASE Goto(w, "tun")
      BY <1>1, <2>1, <3>1, <3>2, EventTyped, Zenon DEF TableWaits
    <3>3. CASE Goto(w, NextEvent(Tail(events[w])))
      BY <1>1, <2>1, <3>1, <3>3, EventTyped, NextEventTyped, Zenon
    <3> QED BY <1>5, <3>2, <3>3, Zenon DEF ReadTun
  <2>3. queue' \in [Fds -> 0 .. QueueLimit]
    BY <1>5 DEF TypeOK, ReadTun, Fds
  <2> QED BY <1>5, <2>2, <2>3, Zenon DEF TypeOK, ReadTun, locks
<1>6. CASE RecvUdp(w)
  <2>1. Tail(events[w]) \in EventSeqs
    BY <1>6, TailTyped, Zenon DEF TypeOK, EventsInv, RecvUdp
  <2>2. events' = [events EXCEPT ![w] = Tail(events[w])]
    BY <1>6, Zenon DEF RecvUdp
  <2>3. pc' \in [Threads -> Labels] /\ events' \in [Workers -> EventSeqs] /\ EventsInv'
    BY <1>1, <1>6, <2>1, <2>2, EventTyped, Zenon DEF TableWaits, RecvUdp
  <2>4. queue' \in [Fds -> 0 .. QueueLimit]
    BY <1>6 DEF TypeOK, RecvUdp, Fds
  <2> QED BY <1>6, <2>3, <2>4, Zenon DEF TypeOK, RecvUdp, locks
<1>7. CASE WorkerUnlock(w)
  <2>1. events[w] \in EventSeqs /\ events' = [events EXCEPT ![w] = events[w]]
    BY <1>7, Zenon DEF TypeOK, WorkerUnlock
  <2>2. pc' \in [Threads -> Labels] /\ events' \in [Workers -> EventSeqs] /\ EventsInv'
    BY <1>1, <1>7, <2>1, EventTyped, NextEventTyped, Zenon DEF WorkerUnlock, Move
  <2> QED BY <1>7, <2>2 DEF TypeOK, WorkerUnlock, Move, TableUnlock
<1> QED BY <1>2, <1>3, <1>4, <1>5, <1>6, <1>7, Zenon

\* A step that only takes a lock keeps the types.
LEMMA AcquireTyped ==
  ASSUME TypeOK, EventsInv, NEW t \in Threads, NEW from, NEW l \in Others,
         \/ Acquire(t, ReadLock, from, l) \/ Acquire(t, WriteLock, from, l)
         \/ Acquire(t, HotLock, from, l)
  PROVE  TypeOK' /\ EventsInv'
<1>1. pc' \in [Threads -> Labels] /\ events' \in [Workers -> EventSeqs] /\ EventsInv'
  BY GotoTyped, Zenon DEF Acquire
<1>2. /\ readers' \subseteq Threads /\ writer' \in Threads \cup {NoThread}
      /\ hot' \in [Slots -> Threads \cup {NoThread}]
  BY Zenon DEF TypeOK, Acquire, ReadLock, WriteLock, HotLock
<1> QED BY <1>1, <1>2, Zenon DEF TypeOK, Acquire

\* The changes that the handlers make to a session leave it one.
LEMMA SessionTyped ==
  ASSUME NEW r \in Session
  PROVE  /\ \A p \in Peers : [r EXCEPT !.active = TRUE, !.peer = p] \in Session
         /\ [r EXCEPT !.addr = r.peer] \in Session
         /\ [r EXCEPT !.key = r.peer, !.send = 0, !.seen = {}] \in Session
         /\ \A n \in Seqs : [r EXCEPT !.seen = r.seen \cup {n}] \in Session
<1>1. ASSUME NEW p \in Peers
      PROVE  [r EXCEPT !.active = TRUE, !.peer = p] \in Session
  BY Zenon DEF Session
<1>2. [r EXCEPT !.addr = r.peer] \in Session
  BY Zenon DEF Session
<1>3. [r EXCEPT !.key = r.peer, !.send = 0, !.seen = {}] \in Session
  <2>1. 0 \in 0 .. SeqMod - 1 /\ {} \in SUBSET Seqs
    OBVIOUS
  <2>2. [r EXCEPT !.key = r.peer] \in Session
    BY Zenon DEF Session
  <2>3. \A q \in Session : [q EXCEPT !.send = 0] \in Session
    BY <2>1, Zenon DEF Session
  <2>4. \A q \in Session : [q EXCEPT !.seen = {}] \in Session
    BY <2>1, Zenon DEF Session
  <2> QED BY <2>2, <2>3, <2>4, Zenon
<1>4. ASSUME NEW n \in Seqs
      PROVE  [r EXCEPT !.seen = r.seen \cup {n}] \in Session
  BY Zenon DEF Session
<1> QED BY <1>1, <1>2, <1>3, <1>4, Zenon

\* The TUN and handshake branches keep the types.
LEMMA HandshakeTyped ==
  ASSUME TypeOK, EventsInv, LockInv, NEW w \in Workers, TunLock(w) \/ Route(w) \/ Handshake(w)
  PROVE  TypeOK' /\ EventsInv'
<1>1. {"route", "fwd", "unlock", "hsTable", "init", "initAddr", "initKey", "print"} \subseteq Others
  BY OtherLabels, Zenon DEF ReadLabels, WriteLabels, EitherLabels, ForwardLabels
<1>2. Slots \subseteq Nat \ {0} /\ {"initAddr", "initKey"} \subseteq SlotLabels
  BY DEF Slots, SlotLabels, HotLabels
<1>3. CASE TunLock(w) \/ HandshakeLock(w) \/ InitLock(w)
  BY <1>1, <1>3, AcquireTyped, Zenon DEF TunLock, HandshakeLock, InitLock
<1>4. CASE Route(w)
  BY <1>1, <1>2, <1>4, GotoTyped DEF TypeOK, Route, Move, locks
<1>5. CASE HandshakeTable(w)
  <2>1. CASE Goto(w, "unlock") /\ UNCHANGED <<sess, at>>
    BY <1>1, <1>5, <2>1, GotoTyped, Zenon DEF TypeOK, HandshakeTable, locks
  <2>2. ASSUME NEW p \in Peers, NEW s \in AllocChoices(p), Move(w, "init", s),
               sess' = [sess EXCEPT ![s] = [@ EXCEPT !.active = TRUE, !.peer = p]]
        PROVE  TypeOK' /\ EventsInv'
    <3>1. s \in Slots
      BY Zenon DEF AllocChoices
    <3>2. sess' \in [Slots -> Session]
      BY <2>2, <3>1, SessionTyped, Zenon DEF TypeOK
    <3> QED BY <1>1, <1>2, <1>5, <2>2, <3>1, <3>2, GotoTyped, Zenon DEF TypeOK, HandshakeTable, Move, locks
  <2> QED BY <1>5, <2>1, <2>2, Zenon DEF HandshakeTable
<1>6. CASE InitAddr(w)
  <2>1. sess' \in [Slots -> Session]
    BY <1>2, <1>6, SlotExists, SessionTyped, Zenon DEF TypeOK, InitAddr
  <2> QED BY <1>1, <1>6, <2>1, GotoTyped, Zenon DEF TypeOK, InitAddr, locks
<1>7. CASE InitKey(w)
  <2>1. sess' \in [Slots -> Session]
    BY <1>2, <1>7, SlotExists, SessionTyped, Zenon DEF TypeOK, InitKey
  <2> QED BY <1>1, <1>7, <2>1, GotoTyped DEF TypeOK, InitKey, Move, HotUnlock
<1> QED BY <1>3, <1>4, <1>5, <1>6, <1>7, Zenon DEF Handshake

\* The data branch keeps the types.
LEMMA DataTyped ==
  ASSUME TypeOK, EventsInv, LockInv, SessionInv, NEW w \in Workers, Data(w)
  PROVE  TypeOK' /\ EventsInv'
<1>1. {"dataFind", "dataHot", "dataOpen", "dataMark", "dataDone", "unlock", "fwd"} \subseteq Others
  BY OtherLabels, Zenon DEF ReadLabels, EitherLabels, ForwardLabels
<1>2. Slots \subseteq Nat \ {0}
  BY DEF Slots
<1>3. CASE DataLock(w) \/ DataHotLock(w)
  BY <1>1, <1>3, AcquireTyped, Zenon DEF DataLock, DataHotLock
<1>4. CASE DataFind(w)
  BY <1>1, <1>2, <1>4, GotoTyped DEF TypeOK, DataFind, Move, locks
<1>5. CASE DataOpen(w)
  <2>1. pc' \in [Threads -> Labels] /\ events' \in [Workers -> EventSeqs] /\ EventsInv'
    BY <1>1, <1>5, GotoTyped, Zenon DEF DataOpen
  <2>2. /\ readers' = readers /\ writer' = writer
        /\ hot' \in {hot, [hot EXCEPT ![at[w]] = NoThread]}
    BY <1>5, Zenon DEF DataOpen, HotUnlock, locks
  <2>3. hot' \in [Slots -> Threads \cup {NoThread}]
    BY <2>2 DEF TypeOK
  <2>4. num' \in [Threads -> Nat]
    BY <1>5, ThreadsAssumption DEF TypeOK, DataOpen
  <2> QED BY <1>5, <2>1, <2>2, <2>3, <2>4, Zenon DEF TypeOK, DataOpen
<1>6. CASE DataMark(w)
  <2>1. at[w] \in Slots /\ num[w] \in Seqs
    BY <1>6, SlotExists, Zenon DEF DataMark, SlotLabels, HotLabels, SessionInv
  <2>2. sess' \in [Slots -> Session]
    BY <1>6, <2>1, SessionTyped, Zenon DEF TypeOK, DataMark
  <2> QED BY <1>1, <1>6, <2>2, GotoTyped, Zenon DEF TypeOK, DataMark, HotUnlock
<1>7. CASE DataDone(w)
  BY <1>1, <1>2, <1>7, GotoTyped DEF TypeOK, DataDone, Move, locks
<1> QED BY <1>3, <1>4, <1>5, <1>6, <1>7, Zenon DEF Data

\* housekeeping_loop keeps the types.
LEMMA HkTyped ==
  ASSUME TypeOK, EventsInv, LockInv, HkStep
  PROVE  TypeOK' /\ EventsInv'
<1>1. {"loop", "done", "printTable", "pass", "print", "reconnect", "resolve", "expire", "keepalive",
       "fwd"} \subseteq Others
  BY OtherLabels, Zenon DEF WriteLabels, EitherLabels, ForwardLabels, TableWaits
<1>2. Hk \in Threads /\ at[Hk] + 1 \in Nat \ {0} /\ 1 \in Nat \ {0}
  BY DEF TypeOK
<1>3. CASE HkPrintLock \/ HkPassLock
  BY <1>1, <1>2, <1>3, AcquireTyped, Zenon DEF HkPrintLock, HkPassLock
<1>4. CASE HkLoop
  BY <1>1, <1>2, <1>4, GotoTyped, Zenon DEF TypeOK, HkLoop, locks
<1>5. CASE HkPrintUnlock
  BY <1>1, <1>2, <1>5, GotoTyped, Zenon DEF TypeOK, HkPrintUnlock, Move, TableUnlock
<1>6. CASE HkReconnect
  <2>1. \/ \E s \in Nat \ {0} : Move(Hk, "expire", s) \/ Move(Hk, "reconnect", s)
        \/ Goto(Hk, "resolve") /\ UNCHANGED at
    BY <1>2, <1>6, Zenon DEF HkReconnect
  <2>2. pc' \in [Threads -> Labels] /\ events' \in [Workers -> EventSeqs] /\ EventsInv'
    BY <1>1, <1>2, <1>6, <2>1, GotoTyped, Zenon DEF HkReconnect, Move
  <2>3. at' \in [Threads -> Nat \ {0}]
    BY <1>2, <2>1, Zenon DEF TypeOK, Move
  <2> QED BY <1>6, <2>2, <2>3, Zenon DEF TypeOK, HkReconnect, locks
<1>7. CASE HkResolve
  BY <1>1, <1>2, <1>7, GotoTyped, Zenon DEF TypeOK, HkResolve, Move, locks
<1>8. CASE HkExpireSkip
  BY <1>1, <1>2, <1>8, GotoTyped DEF TypeOK, HkExpireSkip, Move, locks
<1>9. CASE HkExpire
  <2>1. NoSession \in Session
    BY DEF NoSession, Session
  <2>2. sess' \in [Slots -> Session]
    BY <1>9, <2>1, Zenon DEF TypeOK, HkExpire
  <2> QED BY <1>1, <1>2, <1>9, <2>2, GotoTyped, Zenon DEF TypeOK, HkExpire, HotBriefly, Move, locks
<1>10. CASE HkKeepalive
  BY <1>1, <1>2, <1>10, GotoTyped DEF TypeOK, HkKeepalive, Move, locks
<1>11. CASE HkPassEnd
  BY <1>1, <1>2, <1>11, GotoTyped, Zenon DEF TypeOK, HkPassEnd, Move, TableUnlock
<1> QED BY <1>2, <1>3, <1>4, <1>5, <1>6, <1>7, <1>8, <1>9, <1>10, <1>11, ForwardTyped, PrintTyped, Zenon
        DEF HkStep

\* Every step keeps the types.
LEMMA TypeStep ==
  ASSUME TypeOK, EventsInv, LockInv, SessionInv, [Next]_vars
  PROVE  TypeOK' /\ EventsInv'
<1>1. ASSUME NEW w \in Workers, WorkerStep(w) \/ WorkerFails(w)
      PROVE  TypeOK' /\ EventsInv'
  BY <1>1, ReceiveTyped, HandshakeTyped, DataTyped, ForwardTyped, PrintTyped, Zenon DEF WorkerStep
<1>2. ASSUME NEW f \in Fds, Arrive(f)
      PROVE  TypeOK' /\ EventsInv'
  BY <1>2 DEF TypeOK, EventsInv, Arrive, locks
<1>3. CASE HandleSignal
  BY <1>3, Zenon DEF TypeOK, EventsInv, HandleSignal, locks
<1>4. CASE UNCHANGED vars
  BY <1>4, Zenon DEF TypeOK, EventsInv, vars, locks
<1> QED BY <1>1, <1>2, <1>3, <1>4, HkTyped, Zenon DEF Next, Joined

(***************************************************************************)
(* The locks.                                                              *)
(***************************************************************************)

\* A step of t leaves the labels, slots and locks of all other threads alone.
OnlyMoves(t) == \A u \in Threads \ {t} : pc'[u] = pc[u] /\ at'[u] = at[u]
OnlyLocks(t) ==
  /\ writer' # NoThread => readers' = {}
  /\ \A u \in Threads \ {t} :
       /\ u \in readers' <=> u \in readers
       /\ writer' = u <=> writer = u
       /\ \A s \in Slots : hot'[s] = u <=> hot[s] = u

\* Then the invariant is left to be shown for t.
LEMMA LocalStep ==
  ASSUME LockInv, NEW t \in Threads, OnlyMoves(t), OnlyLocks(t), ThreadLocks(t)'
  PROVE  LockInv'
<1>1. ASSUME NEW u \in Threads \ {t}
      PROVE  ThreadLocks(u)'
  BY DEF LockInv, ThreadLocks, OnlyMoves, OnlyLocks
<1> QED BY <1>1, Zenon DEF LockInv, OnlyLocks

\* Jumps move one thread.
LEMMA GotoMoves ==
  ASSUME TypeOK, NEW t \in Threads, NEW l, NEW s,
         (Goto(t, l) /\ UNCHANGED at) \/ Move(t, l, s)
  PROVE  OnlyMoves(t) /\ pc'[t] = l
BY Zenon DEF TypeOK, OnlyMoves, Goto, Move

\* The operations of table_lock and hot_lock change what one thread holds.  A mutex is
\* released by the thread that has it.
LEMMA LockMoves ==
  ASSUME TypeOK, LockInv, NEW t \in Threads,
         \/ ReadLock(t) \/ WriteLock(t) \/ TableUnlock(t) \/ HotLock(t) \/ UNCHANGED locks
         \/ HotUnlock(t) /\ pc[t] \in HotLabels
  PROVE  OnlyLocks(t)
<1>1. CASE ReadLock(t)
  BY <1>1, Zenon DEF ReadLock, OnlyLocks
<1>2. CASE WriteLock(t)
  BY <1>2, Zenon DEF WriteLock, OnlyLocks
<1>3. CASE TableUnlock(t)
  BY <1>3, Zenon DEF TableUnlock, OnlyLocks, LockInv
<1>4. CASE HotLock(t)
  BY <1>4, Zenon DEF HotLock, OnlyLocks, LockInv, TypeOK
<1>5. CASE UNCHANGED locks
  BY <1>5, Zenon DEF locks, OnlyLocks, LockInv
<1>6. CASE HotUnlock(t) /\ pc[t] \in HotLabels
  <2>1. hot[at[t]] = t /\ at[t] \in Slots
    BY <1>6, Zenon DEF LockInv, ThreadLocks, SlotLabels
  <2> QED BY <1>6, <2>1, Zenon DEF HotUnlock, OnlyLocks, LockInv, TypeOK
<1> QED BY <1>1, <1>2, <1>3, <1>4, <1>5, <1>6, Zenon

\* A thread that has no hot_lock any more and is between the sealed packet and the end of
\* forward_to_peer holds table_lock as before.
LEMMA ForwardEnds ==
  ASSUME TypeOK, LockInv, NEW t \in Threads, pc[t] \in ForwardLabels, UNCHANGED <<readers, writer>>,
         \A s \in Slots : hot'[s] # t,
         \/ AfterForward(t)
         \/ (Goto(t, "fwdSend") \/ Goto(t, "stamp")) /\ UNCHANGED at
  PROVE  ThreadLocks(t)'
<1> USE DEF ForwardLabels, HotLabels, ReadLabels, WriteLabels, EitherLabels, SlotLabels
<1>1. /\ t \in readers' \/ writer' = t
      /\ t = Hk => writer' = t /\ t \notin readers'
      /\ at[t] \in Slots
  BY Zenon DEF LockInv, ThreadLocks
<1>2. CASE t = Hk /\ AfterForward(t)
  <2>1. pc'[t] = "keepalive"
    BY <1>2, Zenon DEF AfterForward, Move, Goto, TypeOK
  <2> QED BY <1>1, <1>2, <2>1, Zenon DEF ThreadLocks
<1>3. CASE t # Hk /\ AfterForward(t)
  <2>1. pc'[t] = "unlock"
    BY <1>3, Zenon DEF AfterForward, Move, Goto, TypeOK
  <2> QED BY <1>1, <1>3, <2>1, Zenon DEF ThreadLocks
<1>4. CASE (Goto(t, "fwdSend") \/ Goto(t, "stamp")) /\ UNCHANGED at
  <2>1. pc'[t] \in {"fwdSend", "stamp"} /\ at'[t] = at[t]
    BY <1>4, Zenon DEF Goto, TypeOK
  <2> QED BY <1>1, <1>4, <2>1, Zenon DEF ThreadLocks
<1> QED BY <1>2, <1>3, <1>4, Zenon

\* forward_to_peer: hot_lock is held from the number to the sealed packet.
LEMMA ForwardLocks ==
  ASSUME TypeOK, LockInv, NEW t \in Threads, ForwardToPeer(t)
  PROVE  LockInv'
<1> USE DEF ForwardLabels, HotLabels, ReadLabels, WriteLabels, EitherLabels, SlotLabels
<1>1. OnlyMoves(t)
  BY GotoMoves, Zenon DEF ForwardToPeer, FwdLock, FwdSeq, FwdSeal, FwdSend, FwdStamp, Acquire, AfterForward
<1>2. OnlyLocks(t)
  BY LockMoves, Zenon DEF ForwardToPeer, FwdLock, FwdSeq, FwdSeal, FwdSend, FwdStamp, Acquire, HotBriefly
<1>3. ThreadLocks(t)
  BY Zenon DEF LockInv
<1>4. CASE FwdLock(t)
  <2>1. ThreadLocks(t)'
    BY <1>3, <1>4, Zenon DEF TypeOK, ThreadLocks, FwdLock, Acquire, HotLock, Goto
  <2> QED BY <1>1, <1>2, <2>1, LocalStep, Zenon
<1>5. CASE FwdSeq(t)
  <2>1. ThreadLocks(t)'
    BY <1>3, <1>5, Zenon DEF TypeOK, ThreadLocks, FwdSeq, Goto, locks
  <2> QED BY <1>1, <1>2, <2>1, LocalStep, Zenon
<1>6. CASE FwdSeal(t)
  <2>1. ThreadLocks(t)'
    <3>1. UNCHANGED <<readers, writer>> /\ \A s \in Slots : hot'[s] # t
      BY <1>3, <1>6, Zenon DEF TypeOK, ThreadLocks, FwdSeal, HotUnlock
    <3> QED BY <1>6, <3>1, ForwardEnds, Zenon DEF FwdSeal
  <2> QED BY <1>1, <1>2, <2>1, LocalStep, Zenon
<1>7. CASE FwdSend(t)
  <2>1. ThreadLocks(t)'
    <3>1. UNCHANGED <<readers, writer>> /\ \A s \in Slots : hot'[s] # t
      BY <1>3, <1>7, Zenon DEF ThreadLocks, FwdSend, locks
    <3> QED BY <1>7, <3>1, ForwardEnds, Zenon DEF FwdSend
  <2> QED BY <1>1, <1>2, <2>1, LocalStep, Zenon
<1>8. CASE FwdStamp(t)
  <2>1. ThreadLocks(t)'
    <3>1. UNCHANGED <<readers, writer>> /\ \A s \in Slots : hot'[s] # t
      BY <1>3, <1>8, Zenon DEF ThreadLocks, FwdStamp, HotBriefly, locks
    <3> QED BY <1>8, <3>1, ForwardEnds, Zenon DEF FwdStamp
  <2> QED BY <1>1, <1>2, <2>1, LocalStep, Zenon
<1> QED BY <1>4, <1>5, <1>6, <1>7, <1>8, Zenon DEF ForwardToPeer

\* print_sessions keeps table_lock to its end.
LEMMA PrintLocks ==
  ASSUME TypeOK, LockInv, NEW t \in Threads, PrintSessions(t)
  PROVE  LockInv'
<1> USE DEF ForwardLabels, HotLabels, ReadLabels, WriteLabels, EitherLabels, SlotLabels
<1>1. OnlyMoves(t) /\ pc'[t] \in {"print", "unlock"}
  BY GotoMoves, Zenon DEF PrintSessions, PrintSlot, PrintEnd, Move
<1>2. UNCHANGED locks /\ pc[t] = "print"
  BY Zenon DEF PrintSessions, PrintSlot, PrintEnd
<1>3. ThreadLocks(t)'
  BY <1>1, <1>2, Zenon DEF LockInv, ThreadLocks, locks
<1> QED BY <1>1, <1>2, <1>3, LocalStep, LockMoves, Zenon

\* A worker between two events has no lock, and unlocks the table at the end of one.
LEMMA ReceiveLocks ==
  ASSUME TypeOK, EventsInv, LockInv, NEW w \in Workers,
         EpollWait(w) \/ EpollTimeout(w) \/ WorkerFails(w) \/ ReadTun(w) \/ RecvUdp(w)
           \/ WorkerUnlock(w)
  PROVE  LockInv'
<1> USE DEF ForwardLabels, HotLabels, ReadLabels, WriteLabels, EitherLabels, SlotLabels
<1> DEFINE Free == {"read", "wait", "done", "tun", "handshake", "data"}
<1>1. OnlyMoves(w) /\ pc'[w] \in Free /\ pc[w] \in {"wait", "read", "unlock"}
  <2>1. CASE EpollWait(w) \/ EpollTimeout(w) \/ WorkerFails(w) \/ RecvUdp(w)
    BY <2>1, GotoMoves, Zenon DEF EpollWait, EpollTimeout, WorkerFails, RecvUdp
  <2>2. CASE ReadTun(w)
    <3>1. NextEvent(Tail(events[w])) \in Free
      BY <2>2, TailTyped, NextEventTyped, Zenon DEF TypeOK, EventsInv, ReadTun
    <3> QED BY <2>2, <3>1, GotoMoves, Zenon DEF ReadTun
  <2>3. CASE WorkerUnlock(w)
    <3>1. NextEvent(events[w]) \in Free
      BY NextEventTyped, Zenon DEF TypeOK
    <3> QED BY <2>3, <3>1, GotoMoves, Zenon DEF WorkerUnlock
  <2> QED BY <2>1, <2>2, <2>3, Zenon
<1>2. (UNCHANGED locks /\ pc[w] # "unlock") \/ TableUnlock(w)
  BY Zenon DEF EpollWait, EpollTimeout, WorkerFails, ReadTun, RecvUdp, WorkerUnlock
<1>3. ThreadLocks(w)'
  <2>1. w \notin readers' /\ writer' # w /\ \A s \in Slots : hot'[s] # w
    BY <1>1, <1>2 DEF LockInv, ThreadLocks, locks, TableUnlock
  <2> QED BY <1>1, <2>1, Zenon DEF ThreadLocks
<1> QED BY <1>1, <1>2, <1>3, LocalStep, LockMoves, Zenon

\* The TUN branch reads the table under its lock; the handshake branch writes it, and the
\* hot fields of a slot under that slot's lock too.
LEMMA HandshakeLocks ==
  ASSUME TypeOK, LockInv, NEW w \in Workers, TunLock(w) \/ Route(w) \/ Handshake(w)
  PROVE  LockInv'
<1> USE DEF ForwardLabels, HotLabels, ReadLabels, WriteLabels, EitherLabels, SlotLabels
<1>1. OnlyMoves(w)
  BY GotoMoves, Zenon DEF TunLock, Route, Handshake, HandshakeLock, HandshakeTable, InitLock, InitAddr,
                   InitKey, Acquire
<1>2. OnlyLocks(w)
  BY LockMoves, Zenon DEF TunLock, Route, Handshake, HandshakeLock, HandshakeTable, InitLock, InitAddr,
                   InitKey, Acquire
<1>3. ThreadLocks(w) /\ w \in Threads /\ w # Hk
  BY Zenon DEF LockInv
<1>4. ThreadLocks(w)'
  <2>1. CASE TunLock(w) \/ HandshakeLock(w)
    BY <1>3, <2>1 DEF TypeOK, ThreadLocks, TunLock, HandshakeLock, Acquire, ReadLock, WriteLock, Goto
  <2>2. CASE Route(w)
    BY <1>3, <2>2 DEF TypeOK, ThreadLocks, Route, Goto, Move, locks
  <2>3. CASE HandshakeTable(w)
    <3>1. \A p \in Peers : AllocChoices(p) \subseteq Slots
      BY Zenon DEF AllocChoices
    <3>2. \/ Goto(w, "unlock")
          \/ \E s \in Slots : Move(w, "init", s)
      BY <2>3, <3>1, Zenon DEF HandshakeTable
    <3>3. CASE Goto(w, "unlock")
      <4>1. pc'[w] = "unlock"
        BY <1>3, <3>3, Zenon DEF TypeOK, Goto
      <4> QED BY <1>3, <2>3, <4>1, Zenon DEF ThreadLocks, HandshakeTable, locks
    <3>4. ASSUME NEW s \in Slots, Move(w, "init", s) PROVE ThreadLocks(w)'
      <4>1. pc'[w] = "init" /\ at'[w] = s
        BY <1>3, <3>4, Zenon DEF TypeOK, Goto, Move
      <4> QED BY <1>3, <2>3, <4>1, Zenon DEF ThreadLocks, HandshakeTable, locks
    <3> QED BY <3>2, <3>3, <3>4, Zenon
  <2>4. CASE InitLock(w)
    BY <1>3, <2>4, Zenon DEF TypeOK, ThreadLocks, InitLock, Acquire, HotLock, Goto
  <2>5. CASE InitAddr(w)
    BY <1>3, <2>5, Zenon DEF TypeOK, ThreadLocks, InitAddr, Goto, locks
  <2>6. CASE InitKey(w)
    <3>1. \A s \in Slots : hot'[s] # w
      BY <1>3, <2>6, Zenon DEF TypeOK, ThreadLocks, InitKey, HotUnlock
    <3>2. pc'[w] = "print" /\ UNCHANGED <<readers, writer>>
      BY <2>6, Zenon DEF TypeOK, InitKey, Move, Goto, HotUnlock
    <3> QED BY <1>3, <2>6, <3>1, <3>2, Zenon DEF ThreadLocks, InitKey
  <2> QED BY <2>1, <2>2, <2>3, <2>4, <2>5, <2>6, Zenon DEF Handshake
<1> QED BY <1>1, <1>2, <1>3, <1>4, LocalStep, Zenon

\* The data branch reads the table under its lock, and opens and checks the packet under
\* the lock of the session.
LEMMA DataLocks ==
  ASSUME TypeOK, LockInv, NEW w \in Workers, Data(w)
  PROVE  LockInv'
<1> USE DEF ForwardLabels, HotLabels, ReadLabels, WriteLabels, EitherLabels, SlotLabels
<1>1. OnlyMoves(w)
  BY GotoMoves, Zenon DEF Data, DataLock, DataFind, DataHotLock, DataOpen, DataMark, DataDone, Acquire
<1>2. OnlyLocks(w)
  BY LockMoves, Zenon DEF Data, DataLock, DataFind, DataHotLock, DataOpen, DataMark, DataDone, Acquire
<1>3. ThreadLocks(w) /\ w \in Threads /\ w # Hk
  BY Zenon DEF LockInv
<1>4. ThreadLocks(w)'
  <2>1. CASE DataLock(w)
    BY <1>3, <2>1, Zenon DEF TypeOK, ThreadLocks, DataLock, Acquire, ReadLock, Goto
  <2>2. CASE DataFind(w)
    BY <1>3, <2>2 DEF TypeOK, ThreadLocks, DataFind, Goto, Move, locks
  <2>3. CASE DataHotLock(w)
    BY <1>3, <2>3, Zenon DEF TypeOK, ThreadLocks, DataHotLock, Acquire, HotLock, Goto
  <2>4. CASE DataOpen(w) /\ pc'[w] = "dataMark"
    BY <1>3, <2>4, Zenon DEF TypeOK, ThreadLocks, DataOpen, Goto, locks
  <2>5. CASE DataMark(w) \/ (DataOpen(w) /\ pc'[w] # "dataMark")
    <3>1. HotUnlock(w) /\ at' = at /\ pc'[w] \in {"dataDone", "unlock"}
      BY <1>3, <2>5, Zenon DEF TypeOK, DataMark, DataOpen, Goto
    <3>2. \A s \in Slots : hot'[s] # w
      BY <1>3, <2>5, <3>1, Zenon DEF TypeOK, ThreadLocks, HotUnlock, DataMark, DataOpen
    <3>3. w \in readers' /\ writer' # w /\ at'[w] \in Slots
      BY <1>3, <2>5, <3>1, Zenon DEF ThreadLocks, HotUnlock, DataMark, DataOpen
    <3> QED BY <3>1, <3>2, <3>3, Zenon DEF ThreadLocks
  <2>6. CASE DataDone(w)
    BY <1>3, <2>6 DEF TypeOK, ThreadLocks, DataDone, Goto, Move, locks
  <2> QED BY <2>1, <2>2, <2>3, <2>4, <2>5, <2>6, Zenon DEF Data
<1> QED BY <1>1, <1>2, <1>3, <1>4, LocalStep, Zenon

\* The housekeeping thread prints under the read lock and makes its whole pass under the
\* write lock.
LEMMA HkLocks ==
  ASSUME TypeOK, LockInv, HkStep
  PROVE  LockInv'
<1> USE DEF ForwardLabels, HotLabels, ReadLabels, WriteLabels, EitherLabels, SlotLabels
<1>1. Hk \in Threads /\ ThreadLocks(Hk)
  BY Zenon DEF LockInv
<1>2. CASE HkPrintLock \/ HkPassLock
  <2>1. ThreadLocks(Hk)'
    BY <1>1, <1>2 DEF TypeOK, ThreadLocks, HkPrintLock, HkPassLock, Acquire, ReadLock, WriteLock, Goto
  <2> QED BY <1>1, <1>2, <2>1, LocalStep, GotoMoves, LockMoves, Zenon DEF HkPrintLock, HkPassLock, Acquire
<1>3. CASE HkPrintUnlock \/ HkPassEnd
  <2>1. pc'[Hk] \in {"pass", "loop"} /\ OnlyMoves(Hk)
    BY <1>1, <1>3, GotoMoves, Zenon DEF HkPrintUnlock, HkPassEnd
  <2>2. ThreadLocks(Hk)'
    BY <1>1, <1>3, <2>1, Zenon DEF ThreadLocks, HkPrintUnlock, HkPassEnd, TableUnlock
  <2> QED BY <1>1, <1>3, <2>1, <2>2, LocalStep, LockMoves, Zenon DEF HkPrintUnlock, HkPassEnd
<1>4. CASE HkLoop
  <2>1. pc'[Hk] \in {"done", "printTable", "pass"} /\ OnlyMoves(Hk)
    BY <1>1, <1>4, GotoMoves, Zenon DEF HkLoop
  <2>2. ThreadLocks(Hk)'
    BY <1>1, <1>4, <2>1, Zenon DEF ThreadLocks, HkLoop, locks
  <2> QED BY <1>1, <1>4, <2>1, <2>2, LocalStep, LockMoves, Zenon DEF HkLoop
<1>5. CASE HkReconnect \/ HkResolve \/ HkExpireSkip \/ HkExpire \/ HkKeepalive
  <2>1. /\ OnlyMoves(Hk) /\ UNCHANGED locks
        /\ pc[Hk] \in {"reconnect", "resolve", "expire", "keepalive"}
    BY <1>1, <1>5, GotoMoves, Zenon
       DEF HkReconnect, HkResolve, HkExpireSkip, HkExpire, HkKeepalive, HotBriefly
  <2>2. \/ pc'[Hk] \in {"reconnect", "resolve", "expire", "keepalive"}
        \/ pc'[Hk] = "fwd" /\ at'[Hk] \in Slots
    BY <1>1, <1>5, Zenon DEF TypeOK, HkReconnect, HkResolve, HkExpireSkip, HkExpire, HkKeepalive, Goto, Move
  <2>3. ThreadLocks(Hk)'
    BY <1>1, <2>1, <2>2, Zenon DEF ThreadLocks, locks
  <2> QED BY <1>1, <2>1, <2>3, LocalStep, LockMoves, Zenon
<1> QED BY <1>1, <1>2, <1>3, <1>4, <1>5, ForwardLocks, PrintLocks, Zenon DEF HkStep

\* Every step keeps the relation between labels and locks.
LEMMA LockStep ==
  ASSUME TypeOK, EventsInv, LockInv, [Next]_vars
  PROVE  LockInv'
<1>1. ASSUME NEW w \in Workers, WorkerStep(w) \/ WorkerFails(w)
      PROVE  LockInv'
  BY <1>1, ReceiveLocks, HandshakeLocks, DataLocks, ForwardLocks, PrintLocks, Zenon DEF WorkerStep
<1>2. CASE UNCHANGED <<locks, pc, at>>
  BY <1>2 DEF LockInv, ThreadLocks, locks
<1> QED BY <1>1, <1>2, HkLocks, Zenon DEF Next, Joined, Arrive, HandleSignal, vars

(***************************************************************************)
(* What the locks exclude.                                                 *)
(***************************************************************************)

Locked == ReadLabels \cup WriteLabels \cup EitherLabels

\* While one thread holds table_lock for writing no other is between its lock and unlock.
LEMMA WriterAlone ==
  ASSUME LockInv, NEW t \in Threads, NEW u \in Threads, t # u, writer = t
  PROVE  pc[u] \notin Locked
<1>1. u \notin readers /\ writer # u
  BY Zenon DEF LockInv
<1> QED BY <1>1, Zenon DEF LockInv, ThreadLocks, Locked

\* Two threads that hold a hot_lock hold those of different slots.
LEMMA HotAlone ==
  ASSUME LockInv, NEW t \in Threads, NEW u \in Threads, t # u,
         pc[t] \in HotLabels, pc[u] \in HotLabels
  PROVE  at[t] # at[u]
<1>1. at[t] \in Slots /\ hot[at[t]] = t /\ (at[u] = at[t] => hot[at[t]] = u)
  BY Zenon DEF LockInv, ThreadLocks, SlotLabels
<1> QED BY <1>1, Zenon

\* The labels with a write need the write lock of the table, or the lock of a slot.
LEMMA LockInvRaceFree == LockInv => TableRaceFree
<1> SUFFICES ASSUME LockInv, NEW t \in Threads, NEW u \in Threads, t # u
             PROVE  TableWrites(t) \cap (TableReads(u) \cup TableWrites(u)) = {}
  BY Zenon DEF TableRaceFree
<1>1. TableReads(u) \cup TableWrites(u) # {} => pc[u] \in Locked
  BY Zenon DEF TableReads, TableWrites, Locked, ReadLabels, WriteLabels, EitherLabels, ForwardLabels
<1>2. CASE pc[t] \in WriteLabels
  <2>1. writer = t
    BY <1>2, Zenon DEF LockInv, ThreadLocks
  <2> QED BY <1>1, <2>1, WriterAlone, Zenon
<1>3. CASE pc[u] \in WriteLabels
  <2>1. writer = u
    BY <1>3, Zenon DEF LockInv, ThreadLocks
  <2>2. pc[t] \notin Locked
    BY <2>1, WriterAlone, Zenon
  <2>3. TableWrites(t) = {}
    BY <2>2, Zenon DEF TableWrites, Locked, ReadLabels, WriteLabels, EitherLabels, ForwardLabels
  <2> QED BY <2>3, Zenon
<1>4. CASE pc[t] \notin WriteLabels /\ pc[u] \notin WriteLabels
  <2>1. CASE pc[t] \in {"fwdSeal", "dataOpen", "dataMark"}
    <3>1. TableWrites(t) = {<<"hot", at[t]>>} /\ pc[t] \in HotLabels
      BY <2>1, Zenon DEF TableWrites, HotLabels
    <3>2. ASSUME <<"hot", at[t]>> \in TableReads(u) \cup TableWrites(u)
          PROVE  pc[u] \in HotLabels /\ at[u] = at[t]
      BY <1>4, <3>2, Zenon DEF TableReads, TableWrites, WriteLabels, HotLabels
    <3> QED BY <3>1, <3>2, HotAlone, Zenon
  <2>2. CASE pc[t] \notin {"fwdSeal", "dataOpen", "dataMark"}
    BY <1>4, <2>2, Zenon DEF TableWrites, WriteLabels
  <2> QED BY <2>1, <2>2, Zenon
<1> QED BY <1>2, <1>3, <1>4, Zenon

\* A thread that waits for a lock holds only locks that come before it.
LEMMA LockInvOrder == LockInv => LockOrder
<1> SUFFICES ASSUME LockInv, NEW t \in Threads
             PROVE  /\ pc[t] \in TableWaits => /\ t \notin readers /\ writer # t
                                               /\ \A s \in Slots : hot[s] # t
                    /\ pc[t] \in HotWaits => /\ t \in readers \/ writer = t
                                             /\ \A s \in Slots : hot[s] # t
  BY Zenon DEF LockOrder
<1>1. ThreadLocks(t)
  BY Zenon DEF LockInv
<1> QED BY <1>1, Zenon DEF ThreadLocks, TableWaits, HotWaits, ReadLabels, WriteLabels, EitherLabels,
                    ForwardLabels, HotLabels

\* A worker prints under the write lock, so nobody else prints.
LEMMA LockInvOnePrinter == LockInv => OnePrinter
<1> SUFFICES ASSUME LockInv, NEW t \in Threads, NEW u \in Threads, t # u,
                    pc[t] = "print", pc[u] = "print"
             PROVE  FALSE
  BY Zenon DEF OnePrinter
<1>1. writer = t \/ writer = u
  BY Zenon DEF LockInv, ThreadLocks
<1>2. "print" \in Locked
  BY Zenon DEF Locked, EitherLabels
<1> QED BY <1>1, <1>2, WriterAlone, Zenon
=============================================================================
