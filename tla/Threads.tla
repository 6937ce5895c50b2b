------------------------------ MODULE Threads ------------------------------
(***************************************************************************)
(* The threads of one tunnel process and the locks they share: N worker    *)
(* threads (worker_loop), the housekeeping thread (housekeeping_loop), the *)
(* reader-writer lock table_lock over the session table, the mutex         *)
(* hot_lock of every session slot, and the two descriptors all workers     *)
(* wait on.  What the packets contain, which route is chosen and what the  *)
(* clock says is left open; module SessionTable says what the handlers     *)
(* compute, this module in which order they lock, read and write.          *)
(***************************************************************************)
EXTENDS Integers, Sequences, FiniteSets

CONSTANTS Workers,      \* the worker threads
          Hk,           \* the housekeeping thread
          Peers,        \* configured peers
          NSlots,       \* entries of sessions[]
          SeqMod,       \* send_seq is a counter modulo SeqMod (2^64 in C)
          Seqs,         \* sequence numbers that arrive
          QueueLimit,   \* packets that may wait on one descriptor
          MayEnd,       \* whether signals and failing descriptors end threads
          NoThread,     \* the holder of a free lock
          NoPeer        \* the owner of a free slot

ASSUME ThreadsAssumption ==
  /\ Hk \notin Workers /\ Workers # {}
  /\ NoThread \notin Workers \cup {Hk}
  /\ NSlots \in Nat \ {0}
  /\ SeqMod \in Nat \ {0}
  /\ Seqs \subseteq Nat
  /\ QueueLimit \in Nat
  /\ NoPeer \notin Peers
  /\ MayEnd \in BOOLEAN

VARIABLES queue,        \* packets waiting on each descriptor
          stop,         \* stop_flag
          readers,      \* threads that hold table_lock for reading
          writer,       \* the thread that holds table_lock for writing
          hot,          \* the holder of each slot's hot_lock
          sess,         \* sessions[]
          pc,           \* where each thread is
          at,           \* the slot (or configured peer) a thread works on
          num,          \* the sequence number a thread has read
          events        \* what epoll_wait returned and is not handled yet

locks == <<readers, writer, hot>>
vars == <<queue, stop, locks, sess, pc, at, num, events>>

Threads == Workers \cup {Hk}
Slots == 1 .. NSlots
Fds == {"tun", "udp"}

\* A slot: static_pub, the hot fields addr, session_key and send_seq, and the
\* numbers the replay window holds.  addr and session_key are represented by the
\* peer they belong to.
Session == [active : BOOLEAN, peer : Peers \cup {NoPeer}, addr : Peers \cup {NoPeer},
            key : Peers \cup {NoPeer}, send : 0 .. SeqMod - 1, seen : SUBSET Seqs]

\* A free slot.  session_init writes every field, so what an expired session leaves
\* behind is not kept.
NoSession == [active |-> FALSE, peer |-> NoPeer, addr |-> NoPeer, key |-> NoPeer,
              send |-> 0, seen |-> {}]

\* start_peer has started the threads.  The housekeeping thread ends at once when it
\* gets no cipher context.
Init ==
  /\ queue = [f \in Fds |-> 0] /\ stop = FALSE
  /\ readers = {} /\ writer = NoThread /\ hot = [s \in Slots |-> NoThread]
  /\ sess = [s \in Slots |-> NoSession]
  /\ \E start \in IF MayEnd THEN {"loop", "done"} ELSE {"loop"} :
       pc = [t \in Threads |-> IF t = Hk THEN start ELSE "wait"]
  /\ at = [t \in Threads |-> 1] /\ num = [t \in Threads |-> 0]
  /\ events = [w \in Workers |-> <<>>]

--------------------------------------------------------------------------
\* Steps shared by the threads.

Goto(t, label) == pc' = [pc EXCEPT ![t] = label]
Move(t, label, s) == Goto(t, label) /\ at' = [at EXCEPT ![t] = s]

\* pthread_rwlock_rdlock and pthread_rwlock_wrlock of table_lock
ReadLock(t) == writer = NoThread /\ readers' = readers \cup {t} /\ UNCHANGED <<writer, hot>>
WriteLock(t) ==
  writer = NoThread /\ readers = {} /\ writer' = t /\ UNCHANGED <<readers, hot>>
TableUnlock(t) ==
  /\ readers' = readers \ {t}
  /\ writer' = IF writer = t THEN NoThread ELSE writer
  /\ UNCHANGED hot

\* pthread_mutex_lock and pthread_mutex_unlock of a slot's hot_lock
HotLock(t) ==
  hot[at[t]] = NoThread /\ hot' = [hot EXCEPT ![at[t]] = t] /\ UNCHANGED <<readers, writer>>
HotUnlock(t) == hot' = [hot EXCEPT ![at[t]] = NoThread] /\ UNCHANGED <<readers, writer>>

\* A hot_lock taken, one field copied or set, and the lock released: one step, in
\* which the lock must be free.
HotBriefly(t) == hot[at[t]] = NoThread /\ UNCHANGED locks

\* The label for the next event of a worker, if es are left, or for the head of its
\* loop: while (!stop_flag)
NextEvent(es) == CASE es # <<>> -> "read" [] es = <<>> /\ stop -> "done" [] OTHER -> "wait"

\* A lock taken on the way from one label to another.
Acquire(t, Lock(_), from, label) ==
  /\ pc[t] = from /\ Lock(t) /\ Goto(t, label)
  /\ UNCHANGED <<queue, stop, sess, at, num, events>>

--------------------------------------------------------------------------
\* forward_to_peer, called with table_lock held by a worker or by Hk.

\* The label after the call: a worker unlocks the table, the housekeeping thread
\* goes on to the next slot.
AfterForward(t) == IF t = Hk THEN Move(t, "keepalive", at[t] + 1)
                             ELSE Goto(t, "unlock") /\ UNCHANGED at

\* Mutant: the number is drawn without hot_lock.
MutFwdLock(t) ==
  /\ pc[t] = "fwd" /\ Goto(t, "fwdSeq")
  /\ UNCHANGED <<queue, stop, locks, sess, at, num, events>>
FwdLock(t) == Acquire(t, HotLock, "fwd", "fwdSeq")

\* send_seq is read ...
FwdSeq(t) ==
  /\ pc[t] = "fwdSeq"
  /\ num' = [num EXCEPT ![t] = sess[at[t]].send]
  /\ Goto(t, "fwdSeal")
  /\ UNCHANGED <<queue, stop, locks, sess, at, events>>

\* ... and written back; the packet is sealed and the address copied, or the
\* encryption fails and the call returns.
FwdSeal(t) ==
  /\ pc[t] = "fwdSeal"
  /\ sess' = [sess EXCEPT ![at[t]].send = (num[t] + 1) % SeqMod]
  /\ HotUnlock(t)
  /\ \/ Goto(t, "fwdSend") /\ UNCHANGED at
     \/ AfterForward(t)
  /\ num' = [num EXCEPT ![t] = 0]
  /\ UNCHANGED <<queue, stop, events>>

\* sendto, with no hot_lock held; last_sent is written only if it succeeds.
FwdSend(t) ==
  /\ pc[t] = "fwdSend"
  /\ \/ Goto(t, "stamp") /\ UNCHANGED at
     \/ AfterForward(t)
  /\ UNCHANGED <<queue, stop, locks, sess, num, events>>

FwdStamp(t) ==
  /\ pc[t] = "stamp" /\ HotBriefly(t) /\ AfterForward(t)
  /\ UNCHANGED <<queue, stop, sess, num, events>>

ForwardToPeer(t) == FwdLock(t) \/ FwdSeq(t) \/ FwdSeal(t) \/ FwdSend(t) \/ FwdStamp(t)

--------------------------------------------------------------------------
\* print_sessions, called with table_lock held.

\* The next slot: an active one is printed, with its address read under hot_lock.
PrintSlot(t) ==
  /\ pc[t] = "print" /\ at[t] \in Slots
  /\ sess[at[t]].active => HotBriefly(t)
  /\ Move(t, "print", at[t] + 1)
  /\ UNCHANGED <<queue, stop, locks, sess, num, events>>

PrintEnd(t) ==
  /\ pc[t] = "print" /\ at[t] > NSlots /\ Goto(t, "unlock")
  /\ UNCHANGED <<queue, stop, locks, sess, at, num, events>>

PrintSessions(t) == PrintSlot(t) \/ PrintEnd(t)

--------------------------------------------------------------------------
\* worker_loop: waiting for packets.

\* What epoll_wait may return: ready descriptors, one or both, in either order.
Ready == {f \in Fds : queue[f] > 0}
Returned == {<<f>> : f \in Ready} \cup {es \in Ready \X Ready : es[1] # es[2]}

EpollWait(w) ==
  /\ pc[w] = "wait"
  /\ \E es \in Returned : events' = [events EXCEPT ![w] = es]
  /\ Goto(w, "read")
  /\ UNCHANGED <<queue, stop, locks, sess, at, num>>

\* Mutant: an interrupted epoll_wait is restarted without a look at stop_flag.
MutEpollTimeout(w) ==
  /\ pc[w] = "wait" /\ stop /\ Goto(w, "wait")
  /\ UNCHANGED <<queue, stop, locks, sess, at, num, events>>

\* The 5 s timeout, or a signal: stop_flag is tested again.
EpollTimeout(w) ==
  /\ pc[w] = "wait" /\ stop /\ Goto(w, "done")
  /\ UNCHANGED <<queue, stop, locks, sess, at, num, events>>

\* A failed epoll_wait, an error or hangup event, a failed read or recvfrom.
WorkerFails(w) ==
  /\ MayEnd /\ pc[w] \in {"wait", "read"} /\ Goto(w, "done")
  /\ UNCHANGED <<queue, stop, locks, sess, at, num, events>>

\* Mutant: the worker reads the descriptor again and again, until it is empty.
MutReadTun(w) ==
  /\ pc[w] = "read" /\ Head(events[w]) = "tun" /\ queue["tun"] > 0
  /\ queue' = [queue EXCEPT !["tun"] = @ - 1]
  /\ Goto(w, "tun") \/ Goto(w, "read")
  /\ UNCHANGED <<stop, locks, sess, at, num, events>>

\* read(tun_fd): the descriptor is blocking, the call waits for a packet.  A
\* packet that is not IPv4 is dropped.
ReadTun(w) ==
  /\ pc[w] = "read" /\ Head(events[w]) = "tun" /\ queue["tun"] > 0
  /\ queue' = [queue EXCEPT !["tun"] = @ - 1]
  /\ events' = [events EXCEPT ![w] = Tail(@)]
  /\ Goto(w, "tun") \/ Goto(w, NextEvent(Tail(events[w])))
  /\ UNCHANGED <<stop, locks, sess, at, num>>

\* recvfrom(sock_fd): a handshake packet, by its size and header, or data.
RecvUdp(w) ==
  /\ pc[w] = "read" /\ Head(events[w]) = "udp" /\ queue["udp"] > 0
  /\ queue' = [queue EXCEPT !["udp"] = @ - 1]
  /\ events' = [events EXCEPT ![w] = Tail(@)]
  /\ Goto(w, "handshake") \/ Goto(w, "data")
  /\ UNCHANGED <<stop, locks, sess, at, num>>

\* The table is unlocked and the event is over.  A packet for this host is
\* written to the TUN device after that; the write shares nothing.
WorkerUnlock(w) ==
  /\ pc[w] = "unlock" /\ TableUnlock(w)
  /\ Move(w, NextEvent(events[w]), 1)
  /\ UNCHANGED <<queue, stop, sess, num, events>>

--------------------------------------------------------------------------
\* worker_loop: TUN -> UDP.

TunLock(w) == Acquire(w, ReadLock, "tun", "route")

\* Mutant: table_lock is released between the lookup and forward_to_peer.
MutRoute(w) ==
  /\ pc[w] = "route" /\ TableUnlock(w)
  /\ \/ \E s \in Slots : sess[s].active /\ Move(w, "fwd", s)
     \/ Goto(w, "unlock") /\ UNCHANGED at
  /\ UNCHANGED <<queue, stop, sess, num, events>>

\* route_lookup finds an active session, or the packet is dropped.
Route(w) ==
  /\ pc[w] = "route"
  /\ \/ \E s \in Slots : sess[s].active /\ Move(w, "fwd", s)
     \/ Goto(w, "unlock") /\ UNCHANGED at
  /\ UNCHANGED <<queue, stop, locks, sess, num, events>>

--------------------------------------------------------------------------
\* worker_loop: handshake packets, under table_lock held for writing.

\* Mutant: the handshake branch takes table_lock for reading.
MutHandshakeLock(w) == Acquire(w, ReadLock, "handshake", "hsTable")
HandshakeLock(w) == Acquire(w, WriteLock, "handshake", "hsTable")

\* The slots alloc_session may return for p: its own, otherwise one that is free
\* or whose address the packet came from.
AllocChoices(p) ==
  LET own == {s \in Slots : sess[s].active /\ sess[s].peer = p}
  IN IF own # {} THEN own ELSE Slots

\* The packet is refused (no answer to a pending handshake, cooldown, unknown key,
\* failed verification), or session_init starts on a slot.
HandshakeTable(w) ==
  /\ pc[w] = "hsTable"
  /\ \/ Goto(w, "unlock") /\ UNCHANGED <<sess, at>>
     \/ \E p \in Peers : \E s \in AllocChoices(p) :
          /\ sess' = [sess EXCEPT ![s] = [@ EXCEPT !.active = TRUE, !.peer = p]]
          /\ Move(w, "init", s)
  /\ UNCHANGED <<queue, stop, locks, num, events>>

InitLock(w) == Acquire(w, HotLock, "init", "initAddr")

\* session_init writes the hot fields one after the other.
InitAddr(w) ==
  /\ pc[w] = "initAddr" /\ Goto(w, "initKey")
  /\ sess' = [sess EXCEPT ![at[w]].addr = sess[at[w]].peer]
  /\ UNCHANGED <<queue, stop, locks, at, num, events>>

InitKey(w) ==
  /\ pc[w] = "initKey" /\ HotUnlock(w) /\ Move(w, "print", 1)
  /\ sess' = [sess EXCEPT ![at[w]] = [@ EXCEPT !.key = sess[at[w]].peer, !.send = 0, !.seen = {}]]
  /\ UNCHANGED <<queue, stop, num, events>>

Handshake(w) == HandshakeLock(w) \/ HandshakeTable(w) \/ InitLock(w) \/ InitAddr(w) \/ InitKey(w)

--------------------------------------------------------------------------
\* worker_loop: data packets, under table_lock held for reading.

DataLock(w) == Acquire(w, ReadLock, "data", "dataFind")

\* find_session_by_addr
DataFind(w) ==
  /\ pc[w] = "dataFind"
  /\ \/ \E s \in Slots : sess[s].active /\ Move(w, "dataHot", s)
     \/ Goto(w, "unlock") /\ UNCHANGED at
  /\ UNCHANGED <<queue, stop, locks, sess, num, events>>

\* Mutant: the packet is opened and checked without hot_lock.
MutDataHotLock(w) ==
  /\ pc[w] = "dataHot" /\ Goto(w, "dataOpen")
  /\ UNCHANGED <<queue, stop, locks, sess, at, num, events>>
DataHotLock(w) == Acquire(w, HotLock, "dataHot", "dataOpen")

\* Mutant: check_replay also runs for a packet that did not open, on the 0 that seq
\* was initialised with.
MutDataOpen(w) ==
  /\ pc[w] = "dataOpen" /\ Goto(w, "dataMark")
  /\ \E n \in {0} \cup (Seqs \ sess[at[w]].seen) : num' = [num EXCEPT ![w] = n]
  /\ UNCHANGED <<queue, stop, locks, sess, at, events>>

\* The packet does not open, opens under the previous key, or is a replay: the
\* window is left alone.  Otherwise its number is about to be marked.
DataOpen(w) ==
  /\ pc[w] = "dataOpen"
  /\ \/ HotUnlock(w) /\ Goto(w, "dataDone") /\ UNCHANGED num
     \/ HotUnlock(w) /\ Goto(w, "unlock") /\ UNCHANGED num
     \/ \E n \in Seqs \ sess[at[w]].seen :
          num' = [num EXCEPT ![w] = n] /\ Goto(w, "dataMark") /\ UNCHANGED locks
  /\ UNCHANGED <<queue, stop, sess, at, events>>

\* Mutant: hot_lock is still held when the packet is relayed.
MutDataMark(w) ==
  /\ pc[w] = "dataMark" /\ Goto(w, "dataDone")
  /\ sess' = [sess EXCEPT ![at[w]].seen = @ \cup {num[w]}]
  /\ num' = [num EXCEPT ![w] = 0]
  /\ UNCHANGED <<queue, stop, locks, at, events>>

\* check_replay records the number.
DataMark(w) ==
  /\ pc[w] = "dataMark" /\ HotUnlock(w) /\ Goto(w, "dataDone")
  /\ sess' = [sess EXCEPT ![at[w]].seen = @ \cup {num[w]}]
  /\ num' = [num EXCEPT ![w] = 0]
  /\ UNCHANGED <<queue, stop, at, events>>

\* An opened packet is relayed to another session, or the table is unlocked: it was
\* a keepalive, its source is not allowed, or it is for this host.
DataDone(w) ==
  /\ pc[w] = "dataDone"
  /\ \/ \E s \in Slots \ {at[w]} :
          sess[s].active /\ Move(w, "fwd", s)
     \/ Goto(w, "unlock") /\ UNCHANGED at
  /\ UNCHANGED <<queue, stop, locks, sess, num, events>>

Data(w) == DataLock(w) \/ DataFind(w) \/ DataHotLock(w) \/ DataOpen(w) \/ DataMark(w) \/ DataDone(w)

--------------------------------------------------------------------------
\* housekeeping_loop

\* while (!stop_flag): a print request (print_sessions_flag) is served first, and
\* may be there at any iteration; the pass runs when 10 s have gone by.
HkLoop ==
  /\ pc[Hk] = "loop"
  /\ IF stop THEN Goto(Hk, "done") ELSE Goto(Hk, "printTable") \/ Goto(Hk, "pass")
  /\ UNCHANGED <<queue, stop, locks, sess, at, num, events>>

\* Mutant: the housekeeping thread prints without table_lock.
MutHkPrintLock ==
  /\ pc[Hk] = "printTable" /\ Goto(Hk, "print")
  /\ UNCHANGED <<queue, stop, locks, sess, at, num, events>>
HkPrintLock == Acquire(Hk, ReadLock, "printTable", "print")

HkPrintUnlock ==
  /\ pc[Hk] = "unlock" /\ TableUnlock(Hk)
  /\ Move(Hk, "pass", 1) \/ Move(Hk, "loop", 1)
  /\ UNCHANGED <<queue, stop, sess, num, events>>

HkPassLock == Acquire(Hk, WriteLock, "pass", "reconnect")

\* A configured peer is left alone, or its endpoint is resolved, which blocks, and a
\* handshake is sent to it.  After the last one, pending handshakes are expired.
HkReconnect ==
  /\ pc[Hk] = "reconnect"
  /\ IF at[Hk] > Cardinality(Peers)
       THEN Move(Hk, "expire", 1)
       ELSE \/ Move(Hk, "reconnect", at[Hk] + 1)
            \/ Goto(Hk, "resolve") /\ UNCHANGED at
  /\ UNCHANGED <<queue, stop, locks, sess, num, events>>

HkResolve ==
  /\ pc[Hk] = "resolve" /\ Move(Hk, "reconnect", at[Hk] + 1)
  /\ UNCHANGED <<queue, stop, locks, sess, num, events>>

\* A slot that is free or was heard of lately is skipped, ...
HkExpireSkip ==
  /\ pc[Hk] = "expire"
  /\ IF at[Hk] > NSlots THEN Move(Hk, "keepalive", 1) ELSE Move(Hk, "expire", at[Hk] + 1)
  /\ UNCHANGED <<queue, stop, locks, sess, num, events>>

\* ... a silent one is freed after its address was read for the log.
HkExpire ==
  /\ pc[Hk] = "expire" /\ at[Hk] \in Slots /\ sess[at[Hk]].active
  /\ HotBriefly(Hk) /\ Move(Hk, "expire", at[Hk] + 1)
  /\ sess' = [sess EXCEPT ![at[Hk]] = NoSession]
  /\ UNCHANGED <<queue, stop, num, events>>

\* last_sent, read under hot_lock, says whether a keepalive is due.
HkKeepalive ==
  /\ pc[Hk] = "keepalive" /\ at[Hk] \in Slots
  /\ sess[at[Hk]].active => HotBriefly(Hk)
  /\ \/ sess[at[Hk]].active /\ Goto(Hk, "fwd") /\ UNCHANGED at
     \/ Move(Hk, "keepalive", at[Hk] + 1)
  /\ UNCHANGED <<queue, stop, locks, sess, num, events>>

HkPassEnd ==
  /\ pc[Hk] = "keepalive" /\ at[Hk] > NSlots /\ TableUnlock(Hk) /\ Move(Hk, "loop", 1)
  /\ UNCHANGED <<queue, stop, sess, num, events>>

--------------------------------------------------------------------------
\* The environment: packets arrive, handle_signal sets a flag, and start_peer joins
\* the threads once they are done.

Arrive(f) ==
  /\ queue[f] < QueueLimit /\ queue' = [queue EXCEPT ![f] = @ + 1]
  /\ UNCHANGED <<stop, locks, sess, pc, at, num, events>>

HandleSignal ==
  /\ MayEnd /\ ~stop /\ stop' = TRUE
  /\ UNCHANGED <<queue, locks, sess, pc, at, num, events>>

Joined == (\A t \in Threads : pc[t] = "done") /\ UNCHANGED vars

WorkerStep(w) ==
  \/ EpollWait(w) \/ EpollTimeout(w)
  \/ ReadTun(w) \/ RecvUdp(w) \/ WorkerUnlock(w)
  \/ TunLock(w) \/ Route(w) \/ Handshake(w) \/ Data(w)
  \/ ForwardToPeer(w) \/ PrintSessions(w)

HkStep ==
  \/ HkLoop \/ HkPrintLock \/ HkPrintUnlock \/ HkPassLock \/ HkReconnect \/ HkResolve
  \/ HkExpireSkip \/ HkExpire \/ HkKeepalive \/ HkPassEnd
  \/ ForwardToPeer(Hk) \/ PrintSessions(Hk)

Next ==
  \/ \E w \in Workers : WorkerStep(w) \/ WorkerFails(w)
  \/ HkStep
  \/ \E f \in Fds : Arrive(f)
  \/ HandleSignal \/ Joined

Spec == Init /\ [][Next]_vars

\* Every thread that can run does; nothing is promised about the order in which a
\* lock is handed to the threads that wait for it.
FairSpec == Spec /\ WF_vars(HkStep) /\ \A w \in Workers : WF_vars(WorkerStep(w))

--------------------------------------------------------------------------
\* Where a thread is with respect to the locks.

ForwardLabels == {"fwd", "fwdSeq", "fwdSeal", "fwdSend", "stamp"}
HotLabels == {"fwdSeq", "fwdSeal", "initAddr", "initKey", "dataOpen", "dataMark"}
HotWaits == {"fwd", "stamp", "init", "dataHot", "print", "expire", "keepalive"}
ReadLabels == {"route", "dataFind", "dataHot", "dataOpen", "dataMark", "dataDone"}
WriteLabels == {"hsTable", "init", "initAddr", "initKey", "reconnect", "resolve",
                "expire", "keepalive"}
\* Labels reached under either mode of table_lock.
EitherLabels == ForwardLabels \cup {"print", "unlock"}
TableWaits == {"tun", "data", "handshake", "printTable", "pass"}
FreeLabels == {"loop", "wait", "read", "done"}
Labels == ReadLabels \cup WriteLabels \cup EitherLabels \cup TableWaits \cup FreeLabels

\* What a worker may still have to handle.
EventSeqs == {<<>>} \cup {<<f>> : f \in Fds} \cup Fds \X Fds

\* Every variable has its type; in particular the window of a session holds only
\* numbers that came in packets.
TypeOK ==
  /\ queue \in [Fds -> 0 .. QueueLimit] /\ stop \in BOOLEAN
  /\ readers \subseteq Threads /\ writer \in Threads \cup {NoThread}
  /\ hot \in [Slots -> Threads \cup {NoThread}]
  /\ sess \in [Slots -> Session]
  /\ pc \in [Threads -> Labels] /\ at \in [Threads -> Nat \ {0}]
  /\ num \in [Threads -> Nat]
  /\ events \in [Workers -> EventSeqs]

\* The memory a thread touches at its present label.  "table" stands for the
\* fields that table_lock guards, addr and hot for those under hot_lock; addr is
\* apart because find_session_by_addr reads it with table_lock alone.  Of the others,
\* last_seen alone is read without its hot_lock, when sessions are expired
\* (peer.c:665).  What HotBriefly touches it touches inside its one step.
\*
\* "log" is the static buffer of log_timestamp and the result of localtime, which a
\* LOG_ macro writes and reads, under whatever locks its thread has: at the labels
\* whose step may log with log_level 0, so without LOG_DEBUG.
LogLabels == {"hsTable", "initKey", "print", "dataFind", "dataOpen", "dataDone", "fwdSeal",
              "reconnect", "resolve", "expire"}
             \cup IF MayEnd THEN {"wait", "read", "loop"} ELSE {}
Logs(t) == IF pc[t] \in LogLabels THEN {<<"log", 0>>} ELSE {}

TableReads(t) ==
  CASE pc[t] \in {"route", "dataDone", "print", "keepalive"} -> {<<"table", 0>>}
    [] pc[t] = "dataFind" -> {<<"table", 0>>} \cup ({"addr"} \X Slots)
    [] pc[t] = "hsTable" -> {"addr"} \X Slots
    [] pc[t] \in {"fwdSeq", "expire"} -> {<<"hot", at[t]>>}
    [] pc[t] = "fwdSeal" -> {<<"addr", at[t]>>}
    [] OTHER -> {}
TableWrites(t) ==
  CASE pc[t] \in {"hsTable", "reconnect", "resolve", "expire"} -> {<<"table", 0>>}
    [] pc[t] = "initAddr" -> {<<"addr", at[t]>>}
    [] pc[t] = "initKey" -> {<<"table", 0>>, <<"hot", at[t]>>}
    [] pc[t] \in {"fwdSeal", "dataOpen", "dataMark"} -> {<<"hot", at[t]>>}
    [] OTHER -> {}
Reads(t) == TableReads(t) \cup Logs(t)
Writes(t) == TableWrites(t) \cup Logs(t)

\* No data race on the table: what one thread may write of the sessions, of the
\* pending handshakes or of the configured peers at its present label, no other
\* thread may read or write at its own.  The code takes two liberties with the rule
\* of the comment on peer_session_t (peer.c:54-66), that the fields of hot_lock are
\* touched under it: find_session_by_addr reads addr, and the expiry last_seen.
TableRaceFree ==
  \A t, u \in Threads :
    t # u => TableWrites(t) \cap (TableReads(u) \cup TableWrites(u)) = {}

\* What the comment on worker_loop (peer.c:706-708) says: no state is shared except
\* through the locked session table.  Then no memory at all, the log's included,
\* would be written by one thread while another may touch it.
SharesOnlyTheTable ==
  \A t, u \in Threads : t # u => Writes(t) \cap (Reads(u) \cup Writes(u)) = {}

\* The order of the locks (peer.c:443-446): a thread that waits for table_lock holds
\* no lock at all, one that waits for a hot_lock holds table_lock and no other
\* hot_lock.  So no cycle of waiting threads can form.
LockOrder ==
  \A t \in Threads :
    /\ pc[t] \in TableWaits => /\ t \notin readers /\ writer # t
                               /\ \A s \in Slots : hot[s] # t
    /\ pc[t] \in HotWaits => /\ t \in readers \/ writer = t
                             /\ \A s \in Slots : hot[s] # t

\* forward_to_peer seals no two packets of a session under one number, whichever
\* threads forward to it at once: the number a thread is about to write back is
\* still the session's next one.
NumberCurrent == \A t \in Threads : pc[t] = "fwdSeal" => num[t] = sess[at[t]].send

\* Two workers that receive copies of one packet do not both accept it: the number
\* check_replay found fresh is not in the window when it is recorded.
AcceptsOnce == \A w \in Workers : pc[w] = "dataMark" => num[w] \notin sess[at[w]].seen

\* From the route lookup to the end of the send the slot belongs to the peer that
\* was looked up, and its key and address are that peer's: no handshake or expiry
\* gets between (peer.c:516-522).
SealedForPeer ==
  [][\A t \in Threads : pc[t] \in ForwardLabels =>
       LET s == sess[at[t]] IN
         /\ s.active /\ s.addr = s.peer /\ s.key = s.peer
         /\ sess'[at[t]].peer = s.peer]_vars

\* A worker that waits in read or recvfrom because another one took the packet
\* epoll_wait announced.
Blocked(f) == {w \in Workers : pc[w] = "read" /\ Head(events[w]) = f /\ queue[f] = 0}

\* As long as no worker has ended, the blocking calls never tie up all of them on
\* one descriptor while packets may wait on the other (peer.c:763, 785).
NoFdStarved == (\A w \in Workers : pc[w] # "done") => \A f \in Fds : Blocked(f) # Workers

\* print_sessions reports a table that no other thread prints or changes meanwhile:
\* the housekeeping thread prints under the read lock, the workers under the write
\* lock, so two reports never mix.
OnePrinter ==
  \A t, u \in Threads : t # u => ~(pc[t] = "print" /\ pc[u] = "print")

\* After a stop request the housekeeping thread ends, and so does every worker that
\* is not stuck in a read or recvfrom for which no packet is there.
ShutdownEnds ==
  stop ~> /\ pc[Hk] = "done"
          /\ \A w \in Workers : pc[w] = "done" \/ \E f \in Fds : w \in Blocked(f)

\* What the comment on housekeeping_loop (peer.c:601-602) says: the blocking
\* resolve_endpoint never stalls a packet-processing worker.
DnsStallsNobody ==
  pc[Hk] = "resolve" => \A w \in Workers : pc[w] \notin TableWaits

--------------------------------------------------------------------------
\* The invariant the proofs in Threads_proofs use.

\* The locks a thread holds are told by its label: labels of the read branch hold
\* table_lock for reading, of the write branch for writing, and exactly the labels
\* between lock and unlock of a hot_lock hold that of the thread's slot.  The
\* housekeeping thread forwards, and workers print, only under the write lock.
SlotLabels == ForwardLabels \cup HotLabels \cup {"init", "dataHot", "dataDone"}
ThreadLocks(t) ==
  /\ pc[t] \in ReadLabels => t \in readers
  /\ pc[t] \in WriteLabels => writer = t
  /\ pc[t] \in EitherLabels => t \in readers \/ writer = t
  /\ t \in readers => pc[t] \in ReadLabels \cup EitherLabels
  /\ writer = t => pc[t] \in WriteLabels \cup EitherLabels
  /\ t = Hk /\ pc[t] \in ForwardLabels => writer = t
  /\ t # Hk /\ pc[t] = "print" => writer = t
  /\ pc[t] \in SlotLabels => at[t] \in Slots
  /\ \A s \in Slots : hot[s] = t <=> (pc[t] \in HotLabels /\ at[t] = s)

LockInv ==
  /\ writer # NoThread => readers = {}
  /\ \A t \in Threads : ThreadLocks(t)

\* An active session is that of one peer, unless session_init is working on it; a
\* packet is forwarded to an active one; a number to be marked came in a packet.
Initialising(s) == \E t \in Threads : pc[t] \in {"init", "initAddr", "initKey"} /\ at[t] = s
Whole(s) == sess[s].addr = sess[s].peer /\ sess[s].key = sess[s].peer

SessionInv ==
  /\ \A s \in Slots : sess[s].active => Whole(s) \/ Initialising(s)
  /\ \A t \in Threads : pc[t] = "initKey" => sess[at[t]].addr = sess[at[t]].peer
  /\ \A t \in Threads : pc[t] \in ForwardLabels => sess[at[t]].active
  /\ \A w \in Workers : pc[w] = "dataMark" => num[w] \in Seqs

\* A worker that is to read a descriptor knows which.
EventsInv == \A w \in Workers : pc[w] = "read" => events[w] # <<>>

Inv == TypeOK /\ EventsInv /\ LockInv /\ SessionInv /\ NumberCurrent /\ AcceptsOnce

\* What epoll_wait returned names no descriptor twice, and if nothing waits on one
\* there is a worker that is not about to read it: the one that took the last packet.
Pending(w) == {events[w][i] : i \in DOMAIN events[w]}
EpollInv ==
  /\ \A w \in Workers : \A i, j \in DOMAIN events[w] : i # j => events[w][i] # events[w][j]
  /\ \A f \in Fds : queue[f] > 0 \/ \E w \in Workers : f \notin Pending(w)
=============================================================================
