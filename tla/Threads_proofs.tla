-------------------------- MODULE Threads_proofs --------------------------
(***************************************************************************)
(* Proofs about the threads of a process and their locks, for every number *)
(* of workers, peers and slots and every width of the counter.             *)
(***************************************************************************)
EXTENDS ThreadsLocks_proofs

USE ThreadsAssumption DEF Threads

(***************************************************************************)
(* The sessions and the numbers.                                           *)
(***************************************************************************)

Good == SessionInv /\ NumberCurrent /\ AcceptsOnce
InitLabels == {"init", "initAddr", "initKey"}

\* A step of t that changes no session and no number, and takes t neither out of
\* session_init nor to one of the labels that promise something about them.
LEMMA QuietStep ==
  ASSUME Good, NEW t \in Threads, OnlyMoves(t), UNCHANGED <<sess, num>>,
         pc'[t] \notin {"fwdSeal", "dataMark", "initKey"},
         pc'[t] \in ForwardLabels => sess[at'[t]].active,
         pc[t] \in InitLabels => pc'[t] \in InitLabels /\ at'[t] = at[t]
  PROVE  Good'
<1>1. ASSUME NEW s \in Slots, sess'[s].active
      PROVE  Whole(s)' \/ Initialising(s)'
  <2>1. CASE Whole(s)
    BY <2>1, Zenon DEF Whole
  <2>2. CASE Initialising(s)
    <3>1. PICK u \in Threads : pc[u] \in InitLabels /\ at[u] = s
      BY <2>2, Zenon DEF Initialising, InitLabels
    <3>2. pc'[u] \in InitLabels /\ at'[u] = s
      BY <3>1, Zenon DEF OnlyMoves
    <3> QED BY <3>2, Zenon DEF Initialising, InitLabels
  <2> QED BY <1>1, <2>1, <2>2, Zenon DEF Good, SessionInv
<1>2. ASSUME NEW u \in Threads
      PROVE  /\ pc'[u] = "initKey" => sess'[at'[u]].addr = sess'[at'[u]].peer
             /\ pc'[u] \in ForwardLabels => sess'[at'[u]].active
             /\ pc'[u] = "fwdSeal" => num'[u] = sess'[at'[u]].send
  BY DEF Good, SessionInv, NumberCurrent, OnlyMoves
<1>3. ASSUME NEW w \in Workers, pc'[w] = "dataMark"
      PROVE  num'[w] \in Seqs /\ num'[w] \notin sess'[at'[w]].seen
  BY <1>3, Zenon DEF Good, SessionInv, AcceptsOnce, OnlyMoves
<1> QED BY <1>1, <1>2, <1>3, Zenon DEF Good, SessionInv, NumberCurrent, AcceptsOnce

\* A step of t that changes the sessions under the write lock of the table: the other
\* threads are at no label that promises anything, and only t may be in session_init.
LEMMA WriterStep ==
  ASSUME Good, LockInv, NEW t \in Threads, OnlyMoves(t), writer = t,
         pc'[t] \notin ForwardLabels \cup {"dataMark"},
         pc'[t] = "initKey" => sess'[at'[t]].addr = sess'[at'[t]].peer,
         \A s \in Slots : sess'[s].active => Whole(s)' \/ (pc'[t] \in InitLabels /\ at'[t] = s)
  PROVE  Good'
<1>1. ASSUME NEW u \in Threads \ {t}
      PROVE  pc'[u] \notin ForwardLabels \cup {"dataMark", "initKey"}
  BY WriterAlone DEF OnlyMoves, Locked, EitherLabels, ReadLabels, WriteLabels
<1>2. \A s \in Slots : sess'[s].active => Whole(s)' \/ Initialising(s)'
  BY Zenon DEF Initialising, InitLabels
<1>3. "fwdSeal" \in ForwardLabels
  BY Zenon DEF ForwardLabels
<1> QED BY <1>1, <1>2, <1>3, Zenon DEF Good, SessionInv, NumberCurrent, AcceptsOnce

\* Under the write lock a session is whole unless its holder is initialising it.
LEMMA WholeForWriter ==
  ASSUME Good, LockInv, NEW t \in Threads, writer = t, NEW s \in Slots, sess[s].active,
         ~(pc[t] \in InitLabels /\ at[t] = s)
  PROVE  Whole(s)
<1>1. InitLabels \subseteq Locked
  BY Zenon DEF InitLabels, Locked, WriteLabels
<1>2. ~Initialising(s)
  BY <1>1, WriterAlone, Zenon DEF Initialising, InitLabels
<1> QED BY <1>2, Zenon DEF Good, SessionInv

\* A step of t under the hot_lock of its slot that changes the counter or the window of
\* that session, or what t has read of them.
LEMMA HotStep ==
  ASSUME Good, LockInv, NEW t \in Threads, OnlyMoves(t), pc[t] \in HotLabels \ InitLabels,
         \A s \in Slots : /\ sess'[s].active <=> sess[s].active
                          /\ sess'[s].peer = sess[s].peer
                          /\ sess'[s].addr = sess[s].addr
                          /\ sess'[s].key = sess[s].key,
         \A s \in Slots \ {at[t]} : sess'[s] = sess[s],
         \A u \in Threads \ {t} : num'[u] = num[u],
         pc'[t] \notin InitLabels,
         pc'[t] \in ForwardLabels => at'[t] \in Slots /\ sess[at'[t]].active,
         pc'[t] = "fwdSeal" => num'[t] = sess'[at'[t]].send,
         pc'[t] = "dataMark" => num'[t] \in Seqs \ sess'[at'[t]].seen
  PROVE  Good'
<1>1. ASSUME NEW s \in Slots, sess'[s].active
      PROVE  Whole(s)' \/ Initialising(s)'
  <2>1. CASE Whole(s)
    BY <2>1, Zenon DEF Whole
  <2>2. CASE Initialising(s)
    <3>1. PICK u \in Threads : pc[u] \in InitLabels /\ at[u] = s
      BY <2>2, Zenon DEF Initialising, InitLabels
    <3>2. pc'[u] \in InitLabels /\ at'[u] = s
      BY <3>1, Zenon DEF OnlyMoves
    <3> QED BY <3>2, Zenon DEF Initialising, InitLabels
  <2> QED BY <1>1, <2>1, <2>2, Zenon DEF Good, SessionInv
<1>2. ASSUME NEW u \in Threads \ {t}, pc[u] \in SlotLabels
      PROVE  at[u] \in Slots
  BY <1>2, SlotExists, Zenon
<1>3. {"initKey", "fwdSeal", "dataMark"} \subseteq HotLabels /\ HotLabels \subseteq SlotLabels
      /\ ForwardLabels \subseteq SlotLabels /\ "initKey" \in InitLabels
  BY Zenon DEF HotLabels, SlotLabels, InitLabels
<1>4. ASSUME NEW u \in Threads
      PROVE  /\ pc'[u] = "initKey" => sess'[at'[u]].addr = sess'[at'[u]].peer
             /\ pc'[u] \in ForwardLabels => sess'[at'[u]].active
  BY <1>2, <1>3 DEF Good, SessionInv, OnlyMoves
<1>5. ASSUME NEW u \in Threads \ {t}, pc[u] \in HotLabels
      PROVE  sess'[at'[u]] = sess[at[u]] /\ num'[u] = num[u] /\ pc'[u] = pc[u]
  BY <1>2, <1>3, <1>5, HotAlone DEF OnlyMoves
<1>6. ASSUME NEW u \in Threads, pc'[u] = "fwdSeal"
      PROVE  num'[u] = sess'[at'[u]].send
  BY <1>3, <1>5, <1>6 DEF Good, NumberCurrent, OnlyMoves
<1>7. ASSUME NEW w \in Workers, pc'[w] = "dataMark"
      PROVE  num'[w] \in Seqs /\ num'[w] \notin sess'[at'[w]].seen
  BY <1>3, <1>5, <1>7 DEF Good, SessionInv, AcceptsOnce, OnlyMoves
<1> QED BY <1>1, <1>4, <1>6, <1>7, Zenon DEF Good, SessionInv, NumberCurrent, AcceptsOnce

\* forward_to_peer draws and writes back the number under hot_lock.
LEMMA ForwardGood ==
  ASSUME TypeOK, LockInv, Good, NEW t \in Threads, ForwardToPeer(t)
  PROVE  Good'
<1> USE DEF ForwardLabels, InitLabels
<1>1. OnlyMoves(t)
  BY GotoMoves, Zenon DEF ForwardToPeer, FwdLock, FwdSeq, FwdSeal, FwdSend, FwdStamp, Acquire, AfterForward
<1>2. at[t] \in Slots /\ sess[at[t]].active /\ pc[t] \in ForwardLabels
  <2>1. pc[t] \in ForwardLabels
    BY Zenon DEF ForwardToPeer, FwdLock, FwdSeq, FwdSeal, FwdSend, FwdStamp, Acquire
  <2> QED BY <2>1, SlotExists, Zenon DEF Good, SessionInv, SlotLabels
<1>3. AfterForward(t) => pc'[t] \in {"keepalive", "unlock"}
  BY Zenon DEF TypeOK, AfterForward, Move, Goto
<1>4. CASE FwdLock(t) \/ FwdSend(t) \/ FwdStamp(t)
  <2>1. UNCHANGED <<sess, num>>
    BY <1>4, Zenon DEF FwdLock, FwdSend, FwdStamp, Acquire
  <2>2. (pc'[t] \in {"fwdSeq", "stamp"} /\ at' = at) \/ pc'[t] \in {"keepalive", "unlock"}
    BY <1>3, <1>4, Zenon DEF TypeOK, FwdLock, FwdSend, FwdStamp, Acquire, Goto
  <2> QED BY <1>1, <1>2, <2>1, <2>2, QuietStep, Zenon
<1>5. CASE FwdSeq(t)
  <2>1. /\ pc'[t] = "fwdSeal" /\ at' = at /\ sess' = sess /\ num'[t] = sess[at[t]].send
        /\ \A u \in Threads \ {t} : num'[u] = num[u]
    BY <1>5, Zenon DEF TypeOK, FwdSeq, Goto
  <2>2. pc[t] \in HotLabels \ InitLabels
    BY <1>5, Zenon DEF FwdSeq, HotLabels
  <2> QED BY <1>1, <1>2, <2>1, <2>2, HotStep, Zenon
<1>6. CASE FwdSeal(t)
  <2>1. (pc'[t] = "fwdSend" /\ at' = at) \/ pc'[t] \in {"keepalive", "unlock"}
    BY <1>3, <1>6, Zenon DEF TypeOK, FwdSeal, Goto
  <2>2. pc[t] \in HotLabels \ InitLabels
    BY <1>6, Zenon DEF FwdSeal, HotLabels
  <2>3. \A u \in Threads \ {t} : num'[u] = num[u]
    BY <1>6, Zenon DEF TypeOK, FwdSeal
  <2>4. /\ \A s \in Slots : /\ sess'[s].active <=> sess[s].active
                            /\ sess'[s].peer = sess[s].peer
                            /\ sess'[s].addr = sess[s].addr
                            /\ sess'[s].key = sess[s].key
        /\ \A s \in Slots \ {at[t]} : sess'[s] = sess[s]
    BY <1>2, <1>6 DEF TypeOK, Session, FwdSeal
  <2> QED BY <1>1, <1>2, <2>1, <2>2, <2>3, <2>4, HotStep, Zenon
<1> QED BY <1>4, <1>5, <1>6, Zenon DEF ForwardToPeer

\* Printing, waiting for a packet and reading it touch no session.
LEMMA PrintGood ==
  ASSUME TypeOK, LockInv, Good, NEW t \in Threads, PrintSessions(t)
  PROVE  Good'
<1>1. OnlyMoves(t) /\ pc'[t] \in {"print", "unlock"} /\ pc[t] = "print" /\ UNCHANGED <<sess, num>>
  BY GotoMoves, Zenon DEF PrintSessions, PrintSlot, PrintEnd
<1> QED BY <1>1, QuietStep, Zenon DEF ForwardLabels, InitLabels

\* The same for the head of worker_loop.
LEMMA ReceiveGood ==
  ASSUME TypeOK, EventsInv, LockInv, Good, NEW w \in Workers,
         EpollWait(w) \/ EpollTimeout(w) \/ WorkerFails(w) \/ ReadTun(w) \/ RecvUdp(w)
           \/ WorkerUnlock(w)
  PROVE  Good'
<1> DEFINE Outside == {"read", "wait", "done", "tun", "handshake", "data"}
<1>1. OnlyMoves(w) /\ pc'[w] \in Outside
  <2>1. CASE EpollWait(w) \/ EpollTimeout(w) \/ WorkerFails(w) \/ RecvUdp(w)
    BY <2>1, GotoMoves, Zenon DEF EpollWait, EpollTimeout, WorkerFails, RecvUdp
  <2>2. CASE ReadTun(w)
    <3>1. NextEvent(Tail(events[w])) \in Outside
      BY <2>2, TailTyped, NextEventTyped, Zenon DEF TypeOK, EventsInv, ReadTun
    <3> QED BY <2>2, <3>1, GotoMoves, Zenon DEF ReadTun
  <2>3. CASE WorkerUnlock(w)
    <3>1. NextEvent(events[w]) \in Outside
      BY NextEventTyped, Zenon DEF TypeOK
    <3> QED BY <2>3, <3>1, GotoMoves, Zenon DEF WorkerUnlock
  <2> QED BY <2>1, <2>2, <2>3, Zenon
<1>2. UNCHANGED <<sess, num>> /\ pc[w] \in {"wait", "read", "unlock"}
  BY Zenon DEF EpollWait, EpollTimeout, WorkerFails, ReadTun, RecvUdp, WorkerUnlock
<1> QED BY <1>1, <1>2, QuietStep, Zenon DEF ForwardLabels, InitLabels

\* The TUN branch forwards to an active session; session_init has written every field of
\* a session when it ends.
LEMMA HandshakeGood ==
  ASSUME TypeOK, LockInv, Good, NEW w \in Workers, TunLock(w) \/ Route(w) \/ Handshake(w)
  PROVE  Good'
<1> USE DEF ForwardLabels, InitLabels
<1>1. OnlyMoves(w) /\ w \in Threads
  BY GotoMoves, Zenon DEF TunLock, Route, Handshake, HandshakeLock, HandshakeTable, InitLock, InitAddr,
                   InitKey, Acquire
<1>2. CASE TunLock(w) \/ HandshakeLock(w) \/ InitLock(w)
  <2>1. /\ UNCHANGED <<sess, num, at>>
        /\ \/ pc'[w] \in {"route", "hsTable"} /\ pc[w] \in {"tun", "handshake"}
           \/ pc'[w] = "initAddr" /\ pc[w] = "init"
    BY <1>2, Zenon DEF TypeOK, TunLock, HandshakeLock, InitLock, Acquire, Goto
  <2> QED BY <1>1, <2>1, QuietStep, Zenon
<1>3. CASE Route(w)
  <2>1. UNCHANGED <<sess, num>> /\ pc[w] = "route"
    BY <1>3, Zenon DEF Route
  <2>2. pc'[w] = "unlock" \/ (pc'[w] = "fwd" /\ sess[at'[w]].active)
    BY <1>3, Zenon DEF TypeOK, Route, Goto, Move
  <2> QED BY <1>1, <2>1, <2>2, QuietStep, Zenon
<1>4. CASE HandshakeTable(w)
  <2>1. pc[w] = "hsTable" /\ writer = w
    BY <1>4, Zenon DEF HandshakeTable, LockInv, ThreadLocks, WriteLabels
  <2>2. CASE Goto(w, "unlock") /\ UNCHANGED <<sess, at>>
    <3>1. pc'[w] = "unlock" /\ UNCHANGED <<sess, num>>
      BY <1>4, <2>2, Zenon DEF TypeOK, Goto, HandshakeTable
    <3> QED BY <1>1, <2>1, <3>1, QuietStep, Zenon
  <2>3. ASSUME NEW p \in Peers, NEW s \in AllocChoices(p), Move(w, "init", s),
               sess' = [sess EXCEPT ![s] = [@ EXCEPT !.active = TRUE, !.peer = p]]
        PROVE  Good'
    <3>1. pc'[w] = "init" /\ at'[w] = s
      BY <2>3, Zenon DEF TypeOK, Move, Goto
    <3>2. ASSUME NEW r \in Slots \ {s}, sess'[r].active
          PROVE  Whole(r)'
      <4>1. sess'[r] = sess[r]
        BY <2>3, Zenon DEF TypeOK
      <4>2. Whole(r)
        BY <1>1, <2>1, <3>2, <4>1, WholeForWriter, Zenon
      <4> QED BY <4>1, <4>2, Zenon DEF Whole
    <3> QED BY <1>1, <2>1, <3>1, <3>2, WriterStep, Zenon
  <2> QED BY <1>4, <2>2, <2>3, Zenon DEF HandshakeTable
<1>5. CASE InitAddr(w)
  <2>1. pc[w] = "initAddr" /\ writer = w /\ at[w] \in Slots
    BY <1>5, SlotExists, Zenon DEF InitAddr, LockInv, ThreadLocks, WriteLabels, SlotLabels, HotLabels
  <2>2. pc'[w] = "initKey" /\ at' = at
    BY <1>5, Zenon DEF TypeOK, InitAddr, Goto
  <2>3. sess'[at[w]].addr = sess'[at[w]].peer
    BY <1>5, <2>1 DEF TypeOK, Session, InitAddr
  <2>4. ASSUME NEW r \in Slots \ {at[w]}, sess'[r].active
        PROVE  Whole(r)'
    <3>1. sess'[r] = sess[r]
      BY <1>5, Zenon DEF TypeOK, InitAddr
    <3>2. Whole(r)
      BY <1>1, <2>1, <2>4, <3>1, WholeForWriter, Zenon
    <3> QED BY <3>1, <3>2, Zenon DEF Whole
  <2> QED BY <1>1, <2>1, <2>2, <2>3, <2>4, WriterStep, Zenon
<1>6. CASE InitKey(w)
  <2>1. pc[w] = "initKey" /\ writer = w /\ at[w] \in Slots
    BY <1>6, SlotExists, Zenon DEF InitKey, LockInv, ThreadLocks, WriteLabels, SlotLabels, HotLabels
  <2>2. pc'[w] = "print"
    BY <1>6, Zenon DEF TypeOK, InitKey, Goto, Move
  <2>3. ASSUME NEW r \in Slots, sess'[r].active
        PROVE  Whole(r)'
    <3>1. CASE r = at[w]
      <4>1. sess[r].addr = sess[r].peer
        BY <1>1, <2>1, <3>1, Zenon DEF Good, SessionInv
      <4>2. /\ sess'[r].addr = sess[r].addr /\ sess'[r].peer = sess[r].peer
            /\ sess'[r].key = sess[r].peer
        BY <1>6, <3>1 DEF TypeOK, Session, InitKey
      <4> QED BY <4>1, <4>2, Zenon DEF Whole
    <3>2. CASE r # at[w]
      <4>1. sess'[r] = sess[r]
        BY <1>6, <3>2, Zenon DEF TypeOK, InitKey
      <4>2. Whole(r)
        BY <1>1, <2>1, <2>3, <3>2, <4>1, WholeForWriter, Zenon
      <4> QED BY <4>1, <4>2, Zenon DEF Whole
    <3> QED BY <3>1, <3>2, Zenon
  <2> QED BY <1>1, <2>1, <2>2, <2>3, WriterStep, Zenon
<1> QED BY <1>2, <1>3, <1>4, <1>5, <1>6, Zenon DEF Handshake

\* The data branch checks and marks a number under one hold of hot_lock, and relays to an
\* active session.
LEMMA DataGood ==
  ASSUME TypeOK, LockInv, Good, NEW w \in Workers, Data(w)
  PROVE  Good'
<1> USE DEF ForwardLabels, InitLabels
<1>1. OnlyMoves(w) /\ w \in Threads
  BY GotoMoves, Zenon DEF Data, DataLock, DataFind, DataHotLock, DataOpen, DataMark, DataDone, Acquire
<1>2. CASE DataLock(w) \/ DataHotLock(w)
  <2>1. /\ UNCHANGED <<sess, num>> /\ pc[w] \in {"data", "dataHot"}
        /\ pc'[w] \in {"dataFind", "dataOpen"}
    BY <1>2, Zenon DEF TypeOK, DataLock, DataHotLock, Acquire, Goto
  <2> QED BY <1>1, <2>1, QuietStep, Zenon
<1>3. CASE DataFind(w) \/ DataDone(w)
  <2>1. UNCHANGED <<sess, num>> /\ pc[w] \in {"dataFind", "dataDone"}
    BY <1>3, Zenon DEF DataFind, DataDone
  <2>2. pc'[w] \in {"unlock", "dataHot"} \/ (pc'[w] = "fwd" /\ sess[at'[w]].active)
    BY <1>3, Zenon DEF TypeOK, DataFind, DataDone, Goto, Move
  <2> QED BY <1>1, <2>1, <2>2, QuietStep, Zenon
<1>4. CASE DataOpen(w)
  <2>1. pc[w] \in HotLabels \ InitLabels /\ UNCHANGED <<sess, at>>
    BY <1>4, Zenon DEF DataOpen, HotLabels
  <2>2. \/ pc'[w] \in {"dataDone", "unlock"}
        \/ pc'[w] = "dataMark" /\ num'[w] \in Seqs \ sess[at[w]].seen
    BY <1>4, Zenon DEF TypeOK, DataOpen, Goto
  <2>3. \A u \in Threads \ {w} : num'[u] = num[u]
    BY <1>4, Zenon DEF TypeOK, DataOpen
  <2> QED BY <1>1, <2>1, <2>2, <2>3, HotStep, Zenon
<1>5. CASE DataMark(w)
  <2>1. pc[w] \in HotLabels \ InitLabels /\ at[w] \in Slots
    BY <1>1, <1>5, SlotExists, Zenon DEF DataMark, HotLabels, SlotLabels
  <2>2. pc'[w] = "dataDone" /\ \A u \in Threads \ {w} : num'[u] = num[u]
    BY <1>5, Zenon DEF TypeOK, DataMark, Goto
  <2>3. /\ \A s \in Slots : /\ sess'[s].active <=> sess[s].active
                            /\ sess'[s].peer = sess[s].peer
                            /\ sess'[s].addr = sess[s].addr
                            /\ sess'[s].key = sess[s].key
        /\ \A s \in Slots \ {at[w]} : sess'[s] = sess[s]
    BY <1>5, <2>1 DEF TypeOK, Session, DataMark
  <2> QED BY <1>1, <2>1, <2>2, <2>3, HotStep, Zenon
<1> QED BY <1>2, <1>3, <1>4, <1>5, Zenon DEF Data

\* The housekeeping thread frees a slot under the write lock, and sends keepalives to
\* active sessions.
LEMMA HkGood ==
  ASSUME TypeOK, LockInv, Good, HkStep
  PROVE  Good'
<1> USE DEF ForwardLabels, InitLabels
<1> DEFINE Quiet == {"loop", "done", "printTable", "print", "pass", "reconnect", "resolve", "expire",
                     "keepalive"}
<1>1. Hk \in Threads
  BY Zenon
<1>2. CASE HkLoop \/ HkPrintLock \/ HkPrintUnlock \/ HkPassLock \/ HkPassEnd
  <2>1. OnlyMoves(Hk) /\ pc'[Hk] \in Quiet
    BY <1>1, <1>2, GotoMoves, Zenon DEF HkLoop, HkPrintLock, HkPrintUnlock, HkPassLock, HkPassEnd, Acquire
  <2>2. UNCHANGED <<sess, num>> /\ pc[Hk] \in Quiet \cup {"unlock"}
    BY <1>2, Zenon DEF HkLoop, HkPrintLock, HkPrintUnlock, HkPassLock, HkPassEnd, Acquire
  <2> QED BY <1>1, <2>1, <2>2, QuietStep, Zenon
<1>3. CASE HkReconnect \/ HkResolve \/ HkExpireSkip \/ HkKeepalive
  <2>1. OnlyMoves(Hk)
    BY <1>1, <1>3, GotoMoves, Zenon DEF HkReconnect, HkResolve, HkExpireSkip, HkKeepalive
  <2>2. pc'[Hk] \in Quiet \/ (pc'[Hk] = "fwd" /\ sess[at'[Hk]].active)
    BY <1>1, <1>3, Zenon DEF TypeOK, HkReconnect, HkResolve, HkExpireSkip, HkKeepalive, Goto, Move
  <2>3. UNCHANGED <<sess, num>> /\ pc[Hk] \in Quiet
    BY <1>3, Zenon DEF HkReconnect, HkResolve, HkExpireSkip, HkKeepalive
  <2> QED BY <1>1, <2>1, <2>2, <2>3, QuietStep, Zenon
<1>4. CASE HkExpire
  <2>1. OnlyMoves(Hk) /\ pc'[Hk] = "expire" /\ pc[Hk] = "expire"
    BY <1>1, <1>4, GotoMoves, Zenon DEF HkExpire
  <2>2. writer = Hk
    BY <1>1, <2>1, Zenon DEF LockInv, ThreadLocks, WriteLabels
  <2>3. ASSUME NEW r \in Slots, sess'[r].active
        PROVE  Whole(r)'
    <3>1. sess'[r] = NoSession \/ sess'[r] = sess[r]
      BY <1>4, Zenon DEF TypeOK, HkExpire
    <3>2. sess'[r] = sess[r]
      BY <2>3, <3>1 DEF NoSession
    <3>3. Whole(r)
      BY <1>1, <2>1, <2>2, <2>3, <3>2, WholeForWriter, Zenon
    <3> QED BY <3>2, <3>3, Zenon DEF Whole
  <2> QED BY <1>1, <2>1, <2>2, <2>3, WriterStep, Zenon
<1> QED BY <1>1, <1>2, <1>3, <1>4, ForwardGood, PrintGood, Zenon DEF HkStep

\* Every step keeps what is said about sessions and numbers.
LEMMA GoodStep ==
  ASSUME TypeOK, EventsInv, LockInv, Good, [Next]_vars
  PROVE  Good'
<1>1. ASSUME NEW w \in Workers, WorkerStep(w) \/ WorkerFails(w)
      PROVE  Good'
  BY <1>1, ReceiveGood, HandshakeGood, DataGood, ForwardGood, PrintGood, Zenon DEF WorkerStep
<1>2. CASE UNCHANGED <<sess, num, pc, at>>
  BY <1>2, Zenon DEF Good, SessionInv, NumberCurrent, AcceptsOnce, Whole, Initialising
<1> QED BY <1>1, <1>2, HkGood, Zenon DEF Next, Joined, Arrive, HandleSignal, vars

(***************************************************************************)
(* The theorems.                                                           *)
(***************************************************************************)

\* Inv is an invariant of the threads of one process, however many workers it has.
THEOREM Invariance == Spec => []Inv
<1>1. Init => Inv
  <2> SUFFICES ASSUME Init PROVE Inv
    BY Zenon
  <2>1. TypeOK /\ EventsInv
    BY InitTyped, Zenon
  <2>2. /\ \A t \in Threads : pc[t] \in {"loop", "done", "wait"}
        /\ readers = {} /\ writer = NoThread /\ \A s \in Slots : hot[s] = NoThread
        /\ \A s \in Slots : ~sess[s].active
    BY Zenon DEF Init, NoSession
  <2>3. LockInv
    BY <2>2, Zenon DEF LockInv, ThreadLocks, ReadLabels, WriteLabels, EitherLabels, ForwardLabels,
                SlotLabels, HotLabels
  <2>4. SessionInv /\ NumberCurrent /\ AcceptsOnce
    BY <2>2, Zenon DEF SessionInv, NumberCurrent, AcceptsOnce, ForwardLabels
  <2> QED BY <2>1, <2>3, <2>4, Zenon DEF Inv
<1>2. Inv /\ [Next]_vars => Inv'
  BY TypeStep, LockStep, GoodStep, Zenon DEF Inv, Good
<1> QED BY <1>1, <1>2, PTL DEF Spec

\* The variables of the threads keep their types; send_seq stays within its width.
THEOREM ThreadsTyped == Spec => []TypeOK
BY Invariance, PTL DEF Inv

\* No two threads access a field of the table or of a session at once of which one
\* writes it, for any number of workers (peer.c:54-66, 112-119).  The log's buffer,
\* which no lock guards, is not in the statement: see SharesOnlyTheTable.
THEOREM NoTableRace == Spec => []TableRaceFree
<1>1. Inv => TableRaceFree
  BY LockInvRaceFree, Zenon DEF Inv
<1> QED BY <1>1, Invariance, PTL

\* Locks are always taken in the order table_lock, hot_lock, and never two of a kind, so
\* that no cycle of waiting threads can form (peer.c:443-446).
THEOREM LocksOrdered == Spec => []LockOrder
<1>1. Inv => LockOrder
  BY LockInvOrder, Zenon DEF Inv
<1> QED BY <1>1, Invariance, PTL

\* print_sessions runs in one thread at a time (peer.c:603-605).
THEOREM PrintsApart == Spec => []OnePrinter
<1>1. Inv => OnePrinter
  BY LockInvOnePrinter, Zenon DEF Inv
<1> QED BY <1>1, Invariance, PTL

\* forward_to_peer seals under a number no other thread has drawn.
THEOREM NumbersExclusive == Spec => []NumberCurrent
<1>1. Inv => NumberCurrent
  BY Zenon DEF Inv
<1> QED BY <1>1, Invariance, PTL

\* Of the workers that hold copies of one packet, check_replay accepts it for one.
THEOREM CopiesAcceptedOnce == Spec => []AcceptsOnce
<1>1. Inv => AcceptsOnce
  BY Zenon DEF Inv
<1> QED BY <1>1, Invariance, PTL

\* A packet goes out under the key and to the address of the peer its route led to
\* (peer.c:516-522).
THEOREM SealsForPeer == Spec => SealedForPeer
<1> DEFINE Sealed == \A t \in Threads : pc[t] \in ForwardLabels =>
                       LET s == sess[at[t]] IN
                         /\ s.active /\ s.addr = s.peer /\ s.key = s.peer
                         /\ sess'[at[t]].peer = s.peer
<1>1. Inv /\ [Next]_vars => [Sealed]_vars
  <2> SUFFICES ASSUME Inv, [Next]_vars, NEW t \in Threads, pc[t] \in ForwardLabels
               PROVE  /\ sess[at[t]].active /\ Whole(at[t])
                      /\ sess'[at[t]].peer = sess[at[t]].peer
    BY Zenon DEF Whole
  <2> USE DEF Inv
  <2>1. at[t] \in Slots /\ sess[at[t]].active
    BY SlotExists, Zenon DEF SlotLabels, SessionInv
  <2>2. t \in readers \/ writer = t
    BY Zenon DEF LockInv, ThreadLocks, EitherLabels
  <2>3. ASSUME NEW u \in Threads, pc[u] \in WriteLabels, u # t
        PROVE  FALSE
    BY <2>2, <2>3 DEF LockInv, ThreadLocks
  <2>4. Whole(at[t])
    <3>1. ~Initialising(at[t])
      BY <2>3, Zenon DEF Initialising, WriteLabels, ForwardLabels
    <3> QED BY <2>1, <3>1, Zenon DEF SessionInv
  <2>5. sess'[at[t]].peer = sess[at[t]].peer
    <3>1. ASSUME NEW w \in Workers, WorkerStep(w) \/ WorkerFails(w)
          PROVE  sess'[at[t]].peer = sess[at[t]].peer
      <4>1. ~HandshakeTable(w) /\ ~InitAddr(w) /\ ~InitKey(w)
        BY <2>3, Zenon DEF HandshakeTable, InitAddr, InitKey, WriteLabels, ForwardLabels
      <4>2. UNCHANGED sess \/ FwdSeal(w) \/ DataMark(w)
        BY <3>1, <4>1, Zenon DEF WorkerStep, WorkerFails, EpollWait, EpollTimeout, ReadTun, RecvUdp,
             WorkerUnlock, TunLock, Route, Handshake, HandshakeLock, InitLock, Data, DataLock,
             DataFind, DataHotLock, DataOpen, DataDone, ForwardToPeer, FwdLock, FwdSeq, FwdSend,
             FwdStamp, PrintSessions, PrintSlot, PrintEnd, Acquire
      <4> QED BY <2>1, <4>2 DEF TypeOK, Session, FwdSeal, DataMark
    <3>2. CASE HkStep
      <4>1. ~HkExpire
        BY <2>3, Zenon DEF HkExpire, WriteLabels, ForwardLabels
      <4>2. UNCHANGED sess \/ FwdSeal(Hk)
        BY <3>2, <4>1, Zenon DEF HkStep, HkLoop, HkPrintLock, HkPrintUnlock, HkPassLock, HkReconnect,
             HkResolve, HkExpireSkip, HkKeepalive, HkPassEnd, ForwardToPeer, FwdLock, FwdSeq,
             FwdSend, FwdStamp, PrintSessions, PrintSlot, PrintEnd, Acquire
      <4> QED BY <2>1, <4>2 DEF TypeOK, Session, FwdSeal
    <3>3. CASE UNCHANGED sess
      BY <3>3, Zenon
    <3> QED BY <3>1, <3>2, <3>3, Zenon DEF Next, Joined, Arrive, HandleSignal, vars
  <2> QED BY <2>1, <2>4, <2>5, Zenon
<1> QED BY <1>1, Invariance, PTL DEF Spec, SealedForPeer

(***************************************************************************)
(* The blocking descriptors, with any number of workers: a worker that     *)
(* takes the last packet of a descriptor is not about to read it again.    *)
(***************************************************************************)

\* The descriptors named by a result of epoll_wait.
Named(es) == {es[i] : i \in DOMAIN es}
Distinct(es) == \A i, j \in DOMAIN es : i # j => es[i] # es[j]

\* Handling the first event takes its descriptor off the list (peer.c:755).
LEMMA TailNames ==
  ASSUME NEW es \in EventSeqs, es # <<>>, Distinct(es)
  PROVE  /\ Distinct(Tail(es)) /\ Named(Tail(es)) \subseteq Named(es)
         /\ Head(es) \notin Named(Tail(es)) /\ Head(es) \in Named(es)
<1>1. CASE \E f \in Fds : es = <<f>>
  <2>1. PICK f \in Fds : es = <<f>>
    BY <1>1, Zenon
  <2>2. Tail(es) = <<>> /\ Head(es) = f
    BY <2>1
  <2> QED BY <2>1, <2>2 DEF Named, Distinct
<1>2. CASE es \in Fds \X Fds
  <2>1. PICK f \in Fds, g \in Fds : es = <<f, g>>
    BY <1>2
  <2>2. f # g
    BY <2>1 DEF Distinct
  <2>3. Tail(es) = <<g>> /\ Head(es) = f
    BY <2>1
  <2> QED BY <2>1, <2>2, <2>3 DEF Named, Distinct
<1> QED BY <1>1, <1>2, Zenon DEF EventSeqs

\* epoll_wait names descriptors on which packets wait, none of them twice.
LEMMA ReturnedReady ==
  ASSUME NEW es \in Returned
  PROVE  Distinct(es) /\ \A f \in Named(es) : f \in Fds /\ queue[f] > 0
<1>1. CASE \E f \in Ready : es = <<f>>
  BY <1>1 DEF Ready, Named, Distinct
<1>2. CASE \E f, g \in Ready : es = <<f, g>> /\ f # g
  BY <1>2 DEF Ready, Named, Distinct
<1> QED BY <1>1, <1>2 DEF Returned

\* EpollInv, in terms of the operators above.
LEMMA EpollInvNamed ==
  EpollInv <=> /\ \A w \in Workers : Distinct(events[w])
               /\ \A f \in Fds : queue[f] > 0 \/ \E w \in Workers : f \notin Named(events[w])
BY Zenon DEF EpollInv, Pending, Named, Distinct

\* The same after a step.
LEMMA EpollInvNamedNext ==
  EpollInv' <=> /\ \A w \in Workers : Distinct(events'[w])
                /\ \A f \in Fds : queue'[f] > 0 \/ \E w \in Workers : f \notin Named(events'[w])
BY Zenon DEF EpollInv, Pending, Named, Distinct

\* A worker takes a packet from descriptor f, the first of its events.
LEMMA TakeStep ==
  ASSUME TypeOK, EventsInv, EpollInv, NEW w \in Workers, NEW f \in Fds,
         pc[w] = "read", Head(events[w]) = f,
         queue' = [queue EXCEPT ![f] = @ - 1], events' = [events EXCEPT ![w] = Tail(@)]
  PROVE  EpollInv'
<1>1. events[w] \in EventSeqs /\ events[w] # <<>> /\ Distinct(events[w])
  BY EpollInvNamed, Zenon DEF TypeOK, EventsInv
<1>2. /\ Distinct(events'[w]) /\ f \notin Named(events'[w])
      /\ Named(events'[w]) \subseteq Named(events[w])
  <2>1. events'[w] = Tail(events[w])
    BY Zenon DEF TypeOK
  <2> QED BY <1>1, <2>1, TailNames
<1>3. \A u \in Workers \ {w} : events'[u] = events[u]
  BY Zenon DEF TypeOK
<1>4. \A g \in Fds \ {f} : queue'[g] = queue[g]
  BY Zenon DEF TypeOK
<1>5. \A u \in Workers : Distinct(events'[u])
  BY <1>2, <1>3, EpollInvNamed, Zenon
<1>6. ASSUME NEW g \in Fds \ {f}
      PROVE  queue'[g] > 0 \/ \E u \in Workers : g \notin Named(events'[u])
  <2>1. CASE queue[g] > 0
    BY <1>4, <2>1, Zenon
  <2>2. CASE \E u \in Workers : g \notin Named(events[u])
    BY <1>2, <1>3, <2>2, Zenon
  <2> QED BY <2>1, <2>2, EpollInvNamed, Zenon
<1> QED BY <1>2, <1>5, <1>6, EpollInvNamedNext, Zenon

\* epoll_wait returns.
LEMMA WaitStep ==
  ASSUME TypeOK, EpollInv, NEW w \in Workers, EpollWait(w)
  PROVE  EpollInv'
<1>1. PICK es \in Returned : events' = [events EXCEPT ![w] = es]
  BY Zenon DEF EpollWait
<1>2. events'[w] = es /\ queue' = queue /\ \A u \in Workers \ {w} : events'[u] = events[u]
  BY <1>1, Zenon DEF TypeOK, EpollWait
<1>3. \A u \in Workers : Distinct(events'[u])
  BY <1>2, ReturnedReady, EpollInvNamed, Zenon
<1>4. ASSUME NEW f \in Fds
      PROVE  queue'[f] > 0 \/ \E u \in Workers : f \notin Named(events'[u])
  BY <1>2, ReturnedReady, Zenon
<1> QED BY <1>3, <1>4, EpollInvNamedNext, Zenon

\* A packet arrives.
LEMMA ArriveStep ==
  ASSUME TypeOK, EpollInv, NEW f \in Fds, Arrive(f)
  PROVE  EpollInv'
<1>1. events' = events /\ \A g \in Fds : queue[g] > 0 => queue'[g] > 0
  BY DEF TypeOK, Arrive
<1> QED BY <1>1, EpollInvNamed, EpollInvNamedNext, Zenon

\* Every step keeps EpollInv.
LEMMA EpollStep == Inv /\ EpollInv /\ [Next]_vars => EpollInv'
<1> SUFFICES ASSUME Inv, EpollInv, [Next]_vars
             PROVE  EpollInv'
  BY Zenon
<1>1. TypeOK /\ EventsInv
  BY Zenon DEF Inv
<1>2. ASSUME NEW w \in Workers, WorkerStep(w) \/ WorkerFails(w)
      PROVE  EpollInv'
  <2>1. CASE EpollWait(w)
    BY <1>1, <2>1, WaitStep, Zenon
  <2>2. CASE ReadTun(w)
    BY <1>1, <2>2, TakeStep, Zenon DEF ReadTun, Fds
  <2>3. CASE RecvUdp(w)
    BY <1>1, <2>3, TakeStep, Zenon DEF RecvUdp, Fds
  <2>4. CASE UNCHANGED <<queue, events>>
    BY <2>4, EpollInvNamed, EpollInvNamedNext, Zenon
  <2>5. EpollWait(w) \/ ReadTun(w) \/ RecvUdp(w) \/ UNCHANGED <<queue, events>>
    BY <1>2, Zenon DEF WorkerStep, WorkerFails, EpollTimeout, WorkerUnlock, TunLock, Route, Handshake,
         HandshakeLock, HandshakeTable, InitLock, InitAddr, InitKey, Data, DataLock, DataFind,
         DataHotLock, DataOpen, DataMark, DataDone, ForwardToPeer, FwdLock, FwdSeq, FwdSeal,
         FwdSend, FwdStamp, PrintSessions, PrintSlot, PrintEnd, Acquire
  <2> QED BY <2>1, <2>2, <2>3, <2>4, <2>5, Zenon
<1>3. CASE HkStep
  <2>1. UNCHANGED <<queue, events>>
    BY <1>3, Zenon DEF HkStep, HkLoop, HkPrintLock, HkPrintUnlock, HkPassLock, HkReconnect, HkResolve,
         HkExpireSkip, HkExpire, HkKeepalive, HkPassEnd, ForwardToPeer, FwdLock, FwdSeq, FwdSeal,
         FwdSend, FwdStamp, PrintSessions, PrintSlot, PrintEnd, Acquire
  <2> QED BY <2>1, EpollInvNamed, EpollInvNamedNext, Zenon
<1>4. CASE \E f \in Fds : Arrive(f)
  BY <1>1, <1>4, ArriveStep, Zenon
<1>5. CASE HandleSignal \/ Joined \/ UNCHANGED vars
  <2>1. UNCHANGED <<queue, events>>
    BY <1>5, Zenon DEF HandleSignal, Joined, vars
  <2> QED BY <2>1, EpollInvNamed, EpollInvNamedNext, Zenon
<1> QED BY <1>2, <1>3, <1>4, <1>5, Zenon DEF Next

\* With any number of workers, the blocking read and recvfrom never hold all of them
\* on one descriptor (peer.c:763, 785).
THEOREM NoStarvation == Spec => []NoFdStarved
<1>1. Init => EpollInv
  <2> SUFFICES ASSUME Init PROVE EpollInv
    BY Zenon
  <2>1. \A w \in Workers : events[w] = <<>>
    BY Zenon DEF Init
  <2>2. Distinct(<<>>) /\ Named(<<>>) = {}
    BY DEF Named, Distinct
  <2>3. \A w \in Workers : Distinct(events[w]) /\ Named(events[w]) = {}
    BY <2>1, <2>2, Zenon
  <2> QED BY <2>3, ThreadsAssumption, EpollInvNamed, Zenon
<1>2. Inv /\ EpollInv => NoFdStarved
  <2> SUFFICES ASSUME TypeOK, EventsInv, EpollInv, NEW f \in Fds, Blocked(f) = Workers
               PROVE  FALSE
    BY Zenon DEF NoFdStarved, Inv
  <2>1. PICK v \in Workers : TRUE
    BY ThreadsAssumption, Zenon
  <2>2. \A w \in Workers : pc[w] = "read" /\ Head(events[w]) = f /\ queue[f] = 0
    BY Zenon DEF Blocked
  <2>3. PICK w \in Workers : f \notin Named(events[w])
    BY <2>1, <2>2, EpollInvNamed
  <2>4. events[w] \in EventSeqs /\ events[w] # <<>> /\ Distinct(events[w])
    BY <2>2, EpollInvNamed, Zenon DEF TypeOK, EventsInv
  <2> QED BY <2>2, <2>3, <2>4, TailNames
<1> QED BY <1>1, <1>2, EpollStep, Invariance, PTL DEF Spec
=============================================================================
