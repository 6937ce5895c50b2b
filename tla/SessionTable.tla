---------------------------- MODULE SessionTable ----------------------------
(***************************************************************************)
(* The session table and the pending outbound handshakes of one peer        *)
(* (src/src/peer.c), driven by its worker threads and its housekeeping      *)
(* thread.  The rest of the world is arbitrary: any address may send a      *)
(* handshake packet or a data packet at any time, DNS may answer anything,  *)
(* and any send may fail.                                                   *)
(*                                                                          *)
(* Every handler runs under table_lock.  A worker's handler is one step.    *)
(* The housekeeping pass holds the lock for writing over many steps (one    *)
(* per configured peer, because each may block in DNS, then one per sweep); *)
(* meanwhile no worker handler runs but the clock goes on.  Both threads    *)
(* read the clock BEFORE they wait for the lock, so the time a handler      *)
(* works with may be older than the state it meets.                         *)
(***************************************************************************)
EXTENDS Sessions

CONSTANTS CfgCount,           \* peer_config_count
          CfgPub,             \* peer_configs[c].pub
          CfgEndpoints,       \* the c with peer_configs[c].has_endpoint
          RekeyAfter,         \* cfg_rekey_after
          ReconnectInterval,  \* cfg_reconnect_interval
          SessionExpiry,      \* cfg_session_expiry
          HandshakeTimeout,   \* cfg_handshake_timeout
          HandshakeCooldown,  \* cfg_handshake_cooldown
          KeepaliveInterval,  \* ctx->keepalive_interval
          CheckInterval,      \* the 10 seconds between housekeeping passes
          StartTime,          \* the clock when the threads start
          MaxLag,             \* bound on how old a worker's clock reading is
          SendLag,            \* bound on the time that sending an initiation takes
          MaxPass,            \* bound on how long a housekeeping pass takes
          Horizon             \* bound on the clock

Cfg == 0 .. CfgCount - 1

(* What load_config and main enforce before any thread starts. *)
ASSUME CfgCountAssumption == CfgCount \in Nat \ {0} /\ CfgCount <= MaxPeers
ASSUME CfgPubAssumption == CfgPub \in [Cfg -> Pubs]
ASSUME CfgEndpointsAssumption == CfgEndpoints \subseteq Cfg
ASSUME TimingAssumption ==
    /\ RekeyAfter \in Nat \ {0}
    /\ ReconnectInterval \in Nat \ {0}
    /\ SessionExpiry \in Nat /\ SessionExpiry > RekeyAfter
    /\ HandshakeTimeout \in Nat \ {0}
    /\ HandshakeCooldown \in Nat \ {0}
    /\ KeepaliveInterval \in Nat \ {0}
    /\ CheckInterval \in Nat \ {0}
    /\ MaxLag \in Nat
    /\ SendLag \in Nat
    /\ MaxPass \in Nat
    /\ Horizon \in Nat
(* The clock is far from the epoch, which a zero timestamp stands for. *)
ASSUME StartTimeAssumption ==
    StartTime \in Nat /\ StartTime > MaxLag + ReconnectInterval + CheckInterval

VARIABLES now,          \* time(NULL)
          sess,         \* sessions
          slots,        \* session_slots
          pending,      \* pending_hs
          lastAttempt,  \* peer_configs[c].last_attempt
          hk            \* the housekeeping thread: where it is, the clock it
                        \* read (also last_check), the index of its first loop

vars == <<now, sess, slots, pending, lastAttempt, hk>>

Pending == [active : BOOLEAN, cfg : Cfg, sentAt : Nat, addr : Addrs \cup {None}]

Init ==
    /\ now = StartTime
    /\ sess = EmptyTable
    /\ slots = 0
    /\ pending = [p \in Slot |-> [active |-> FALSE, cfg |-> 0, sentAt |-> 0, addr |-> None]]
    /\ lastAttempt = [c \in Cfg |-> 0]
    /\ hk = [pc |-> "sleep", now |-> 0, i |-> 0]

ActiveSlots == {j \in Slot : j < slots /\ sess[j].active}

SessionOf(pub) == FindByPub(sess, slots, pub)
SessionAt(addr) == FindByAddr(sess, slots, addr)

(* forward_to_peer on the session s, when the packet is sent. *)
Forwarded(s) == [s EXCEPT !.lastSent = now]

(* The table with the rekeying flag of slot j set to b; j may be NULL. *)
WithRekeying(j, b) ==
    IF j = NoSlot THEN sess ELSE [sess EXCEPT ![j].rekeying = b]

Tick ==
    /\ now < Horizon
    /\ hk.pc # "sleep" => now - hk.now < MaxPass
    /\ now' = now + 1
    /\ UNCHANGED <<sess, slots, pending, lastAttempt, hk>>

-----------------------------------------------------------------------------
(* The housekeeping thread.                                                 *)

(* It reads the clock, finds a pass due and goes to wait for the lock. *)
HkWake ==
    /\ hk.pc = "sleep"
    /\ now - hk.now >= CheckInterval
    /\ hk' = [pc |-> "wait", now |-> now, i |-> 0]
    /\ UNCHANGED <<now, sess, slots, pending, lastAttempt>>

HkLock ==
    /\ hk.pc = "wait"
    /\ hk' = [hk EXCEPT !.pc = "reconnect"]
    /\ UNCHANGED <<now, sess, slots, pending, lastAttempt>>

(* Mutant of NeedsHandshake: a peer without a session is not connected to. *)
MutNeedsHandshake(c) ==
    LET s == SessionOf(CfgPub[c])
    IN  /\ s # NoSlot
        /\ hk.now >= sess[s].lastHandshake + (RekeyAfter * 4) \div 5
        /\ ~sess[s].rekeying

(* No session with this peer, or one whose key is due and not being renewed. *)
NeedsHandshake(c) ==
    LET s == SessionOf(CfgPub[c])
    IN  s # NoSlot => /\ hk.now >= sess[s].lastHandshake + (RekeyAfter * 4) \div 5
                      /\ ~sess[s].rekeying

(* Mutant of ReadyToRetry: the reconnect interval is not waited for. *)
MutReadyToRetry(c) == hk.now >= lastAttempt[c]

ReadyToRetry(c) == hk.now - lastAttempt[c] >= ReconnectInterval

FreePending == FirstOf({p \in Slot : ~pending[p].active})

(* Mutant of HkSkip: the loop runs one index too far. *)
MutHkSkip ==
    /\ hk.pc = "reconnect"
    /\ hk.i <= CfgCount
    /\ ~(hk.i \in CfgEndpoints /\ NeedsHandshake(hk.i) /\ ReadyToRetry(hk.i))
    /\ hk' = [hk EXCEPT !.i = @ + 1]
    /\ UNCHANGED <<now, sess, slots, pending, lastAttempt>>

(* The first loop passes over a peer it need not, or must not yet, contact. *)
HkSkip ==
    /\ hk.pc = "reconnect"
    /\ hk.i < CfgCount
    /\ ~(hk.i \in CfgEndpoints /\ NeedsHandshake(hk.i) /\ ReadyToRetry(hk.i))
    /\ hk' = [hk EXCEPT !.i = @ + 1]
    /\ UNCHANGED <<now, sess, slots, pending, lastAttempt>>

(* resolve_endpoint takes the address that DNS answers, or keeps the last   *)
(* one if DNS fails: any address, to this model.                            *)
ResolveEndpoint == Addrs

(* initiate_outbound_handshake, when its packet is sent: a free entry is    *)
(* registered for configured peer c at address a.  The clock is read twice, *)
(* for last_attempt before the packet is made and sent, at t, and for       *)
(* sent_at after that.                                                      *)
InitiateOutbound(c, a, t) ==
    /\ FreePending # NoSlot
    /\ pending' = [pending EXCEPT ![FreePending] =
                     [active |-> TRUE, cfg |-> c, sentAt |-> now, addr |-> a]]
    /\ lastAttempt' = [lastAttempt EXCEPT ![c] = t]

(* The times at which an attempt that has now sent its packet may have begun. *)
AttemptClock == {t \in hk.now .. now : now - t <= SendLag}

HkInitiate ==
    /\ hk.pc = "reconnect"
    /\ hk.i < CfgCount
    /\ hk.i \in CfgEndpoints /\ NeedsHandshake(hk.i) /\ ReadyToRetry(hk.i)
    /\ \E a \in ResolveEndpoint, t \in AttemptClock : InitiateOutbound(hk.i, a, t)
    /\ sess' = WithRekeying(SessionOf(CfgPub[hk.i]), TRUE)
    /\ hk' = [hk EXCEPT !.i = @ + 1]
    /\ UNCHANGED <<now, slots>>

(* The same when the send fails or no pending slot is left: rekeying is set *)
(* before the attempt and cleared after it.                                 *)
HkInitiateFails ==
    /\ hk.pc = "reconnect"
    /\ hk.i < CfgCount
    /\ hk.i \in CfgEndpoints /\ NeedsHandshake(hk.i) /\ ReadyToRetry(hk.i)
    /\ sess' = WithRekeying(SessionOf(CfgPub[hk.i]), FALSE)
    /\ lastAttempt' = [lastAttempt EXCEPT ![hk.i] = now]
    /\ hk' = [hk EXCEPT !.i = @ + 1]
    /\ UNCHANGED <<now, slots, pending>>

TimedOut(p) == pending[p].active /\ hk.now - pending[p].sentAt >= HandshakeTimeout

(* Mutant of HkExpirePending: the sessions' rekeying flags stay set. *)
MutHkExpirePending ==
    /\ hk.pc = "reconnect"
    /\ hk.i = CfgCount
    /\ pending' = [p \in Slot |->
                     IF TimedOut(p) THEN [pending[p] EXCEPT !.active = FALSE] ELSE pending[p]]
    /\ hk' = [hk EXCEPT !.pc = "expire"]
    /\ UNCHANGED <<now, sess, slots, lastAttempt>>

(* The second loop: unanswered handshakes are given up. *)
HkExpirePending ==
    /\ hk.pc = "reconnect"
    /\ hk.i = CfgCount
    /\ pending' = [p \in Slot |->
                     IF TimedOut(p) THEN [pending[p] EXCEPT !.active = FALSE] ELSE pending[p]]
    /\ LET cleared == {SessionOf(CfgPub[pending[p].cfg]) : p \in {q \in Slot : TimedOut(q)}}
       IN  sess' = [j \in Slot |->
                      IF j \in cleared THEN [sess[j] EXCEPT !.rekeying = FALSE] ELSE sess[j]]
    /\ hk' = [hk EXCEPT !.pc = "expire"]
    /\ UNCHANGED <<now, slots, lastAttempt>>

LastHeard(s) == IF s.lastSeen > 0 THEN s.lastSeen ELSE s.lastHandshake

(* The third loop: sessions that were silent for too long are closed. *)
HkExpireSessions ==
    /\ hk.pc = "expire"
    /\ sess' = [j \in Slot |->
                  IF j < slots /\ sess[j].active /\ hk.now - LastHeard(sess[j]) > SessionExpiry
                  THEN [sess[j] EXCEPT !.active = FALSE] ELSE sess[j]]
    /\ hk' = [hk EXCEPT !.pc = "keepalive"]
    /\ UNCHANGED <<now, slots, pending, lastAttempt>>

KeepaliveDue(j) ==
    j < slots /\ sess[j].active /\ hk.now - sess[j].lastSent >= KeepaliveInterval

(* The fourth loop: keepalives, each of which may fail to be sent; then the *)
(* lock is released.                                                        *)
HkKeepalive ==
    /\ hk.pc = "keepalive"
    /\ \E sent \in SUBSET {j \in Slot : KeepaliveDue(j)} :
          sess' = [j \in Slot |->
                     IF j \in sent THEN Forwarded(sess[j]) ELSE sess[j]]
    /\ hk' = [hk EXCEPT !.pc = "sleep"]
    /\ UNCHANGED <<now, slots, pending, lastAttempt>>

-----------------------------------------------------------------------------
(* The worker threads.                                                      *)

Unlocked == hk.pc \in {"sleep", "wait"}

(* The clock readings a worker may hold when it gets the lock. *)
WorkerClock == {t \in StartTime .. now : now - t <= MaxLag}

PendingAt(addr) == FirstOf({p \in Slot : pending[p].active /\ pending[p].addr = addr})

(* A handshake packet from an address a handshake is pending with completes *)
(* it; session_init reads the clock again.                                  *)
CompleteOutbound(src, k) ==
    /\ Unlocked
    /\ PendingAt(src) # NoSlot
    /\ LET p == PendingAt(src)
           pub == CfgPub[pending[p].cfg]
           j == AllocSlot(sess, slots, pub, src)
       IN  /\ pending' = [pending EXCEPT ![p].active = FALSE]
           /\ sess' = IF j = NoSlot THEN sess
                      ELSE [sess EXCEPT ![j] = SessionInit(@, src, pub, k, now)]
           /\ slots' = SlotsAfter(slots, j)
    /\ UNCHANGED <<now, lastAttempt, hk>>

(* Mutant of FailOutbound: the rekeying flag stays set. *)
MutFailOutbound(src) ==
    /\ Unlocked
    /\ PendingAt(src) # NoSlot
    /\ pending' = [pending EXCEPT ![PendingAt(src)].active = FALSE]
    /\ UNCHANGED <<now, sess, slots, lastAttempt, hk>>

(* The same when handshake_client_recv refuses the packet: the attempt is   *)
(* over all the same.                                                       *)
FailOutbound(src) ==
    /\ Unlocked
    /\ PendingAt(src) # NoSlot
    /\ LET p == PendingAt(src)
       IN  /\ pending' = [pending EXCEPT ![p].active = FALSE]
           /\ sess' = WithRekeying(SessionOf(CfgPub[pending[p].cfg]), FALSE)
    /\ UNCHANGED <<now, slots, lastAttempt, hk>>

(* find_peer_config: the allowlist of public keys. *)
FindConfig(pub) == \E c \in Cfg : CfgPub[c] = pub

CoolingDown(j, t) == j # NoSlot /\ t - sess[j].lastHandshake < HandshakeCooldown

(* Mutant of InboundHandshake: only the address is checked for the cooldown. *)
MutInboundHandshake(src, pub, k, t) ==
    /\ Unlocked
    /\ PendingAt(src) = NoSlot
    /\ ~CoolingDown(SessionAt(src), t)
    /\ FindConfig(pub)
    /\ LET j == AllocSlot(sess, slots, pub, src)
       IN  /\ j # NoSlot
           /\ sess' = [sess EXCEPT ![j] = SessionInit(@, src, pub, k, now)]
           /\ slots' = SlotsAfter(slots, j)
    /\ UNCHANGED <<now, pending, lastAttempt, hk>>

(* A handshake initiation from a peer, handled by a worker whose clock      *)
(* reading is t.  The early returns (cooldown, a packet the handshake       *)
(* refuses, an unknown key, a full table) leave the table as it is.         *)
InboundHandshake(src, pub, k, t) ==
    /\ Unlocked
    /\ PendingAt(src) = NoSlot
    /\ ~CoolingDown(SessionAt(src), t)
    /\ FindConfig(pub)
    /\ ~CoolingDown(SessionOf(pub), t)
    /\ LET j == AllocSlot(sess, slots, pub, src)
       IN  /\ j # NoSlot
           /\ sess' = [sess EXCEPT ![j] = SessionInit(@, src, pub, k, now)]
           /\ slots' = SlotsAfter(slots, j)
    /\ UNCHANGED <<now, pending, lastAttempt, hk>>

(* The session is heard of whatever the packet holds, and one that decrypts *)
(* under the current key retires the previous one.                          *)
Heard(s, current, t) ==
    [s EXCEPT !.lastSeen = t, !.prevActive = IF current THEN FALSE ELSE @]

(* The packet decrypts, under the current key or the one before it. *)
Opens(s, current, t) == current \/ (s.prevActive /\ t <= s.prevExpires)

(* A data packet from an address that has a session.  If it opens it may be *)
(* relayed to the session fwd that the routing chose; else, and for a       *)
(* packet that is dropped or written to the TUN device, fwd is NULL.        *)
DataPacket(src, current, t, fwd) ==
    /\ Unlocked
    /\ SessionAt(src) # NoSlot
    /\ LET j == SessionAt(src)
           heard == [sess EXCEPT ![j] = Heard(@, current, t)]
       IN  /\ fwd # NoSlot => fwd \in ActiveSlots \ {j} /\ Opens(sess[j], current, t)
           /\ sess' = IF fwd = NoSlot THEN heard ELSE [heard EXCEPT ![fwd] = Forwarded(@)]
    /\ UNCHANGED <<now, slots, pending, lastAttempt, hk>>

(* A packet from the TUN device goes to the session the routing chose.      *)
Forward(j) ==
    /\ Unlocked
    /\ j \in ActiveSlots
    /\ sess' = [sess EXCEPT ![j] = Forwarded(@)]
    /\ UNCHANGED <<now, slots, pending, lastAttempt, hk>>

-----------------------------------------------------------------------------
HkNext ==
    \/ HkWake \/ HkLock \/ HkSkip \/ HkInitiate \/ HkInitiateFails
    \/ HkExpirePending \/ HkExpireSessions \/ HkKeepalive

HandshakePacket(src) ==
    \/ \E k \in Keys : CompleteOutbound(src, k)
    \/ FailOutbound(src)
    \/ \E pub \in Pubs, k \in Keys, t \in WorkerClock : InboundHandshake(src, pub, k, t)

WorkerNext ==
    \/ \E src \in Addrs : HandshakePacket(src)
    \/ \E src \in Addrs, current \in BOOLEAN, t \in WorkerClock, fwd \in Slot \cup {NoSlot} :
          DataPacket(src, current, t, fwd)
    \/ \E j \in Slot : Forward(j)

Next == Tick \/ HkNext \/ WorkerNext

Spec == Init /\ [][Next]_vars

(* What the threads are guaranteed: the clock advances, and the housekeeping *)
(* thread, which sleeps one second at a time and waits for no one but the   *)
(* lock's holders, keeps making its steps.                                  *)
LiveSpec == Spec /\ WF_vars(Tick) /\ WF_vars(HkNext)

-----------------------------------------------------------------------------
(* The types of the table, the pending handshakes and the thread's state.   *)
TypeOK ==
    /\ now \in Nat
    /\ sess \in [Slot -> Session]
    /\ slots \in 0 .. MaxPeers
    /\ pending \in [Slot -> Pending]
    /\ lastAttempt \in [Cfg -> Nat]
    /\ hk \in [pc : {"sleep", "wait", "reconnect", "expire", "keepalive"},
               now : Nat, i : 0 .. CfgCount]

(* A peer has at most one session, whatever addresses its handshakes come   *)
(* from and whichever side started them, and only configured peers have one *)
(* (alloc_session, peer.c:395-405, and the allowlist check, peer.c:869).    *)
OneSessionPerPeer ==
    /\ \A j \in Slot : sess[j].active => j < slots
    /\ \A j \in ActiveSlots : \E c \in Cfg : CfgPub[c] = sess[j].pub
    /\ \A j, k \in ActiveSlots : sess[j].pub = sess[k].pub => j = k

(* The session table is never full for a configured peer: alloc_session     *)
(* never returns NULL to it, so "Session table full" (peer.c:884-888) is    *)
(* never logged, and a completed outbound handshake always gets a slot.     *)
AllocNeverFails ==
    \A c \in Cfg, a \in Addrs : AllocSlot(sess, slots, CfgPub[c], a) # NoSlot

(* A session marked as rekeying has a handshake pending with its peer:      *)
(* otherwise nothing would ever clear the mark, and the session would never *)
(* be rekeyed again (peer.c:636, 659, 819).                                 *)
RekeyingHasPending ==
    \A j \in ActiveSlots : sess[j].rekeying =>
        \E p \in Slot : pending[p].active /\ CfgPub[pending[p].cfg] = sess[j].pub

(* Outside the housekeeping pass a configured peer has at most one pending  *)
(* handshake, although the pass starts new attempts before it removes the   *)
(* timed-out ones (peer.c:632-660).  It needs a reconnect interval that is  *)
(* longer than the handshake timeout by what sending an initiation takes,   *)
(* one second at a second's boundary (peer.c:560, 583): main does not       *)
(* enforce it.                                                              *)
OnePendingPerPeer ==
    Unlocked => \A p, q \in Slot :
        pending[p].active /\ pending[q].active /\ pending[p].cfg = pending[q].cfg => p = q

(* What makes it so: an entry is no newer than the last attempt for its     *)
(* peer and the time its sending took, and of two entries for one peer,     *)
(* which there are only until the pass has swept, one is timed out.         *)
PendingInv ==
    /\ \A c \in Cfg : lastAttempt[c] <= now
    /\ \A p \in Slot :
          pending[p].active => pending[p].sentAt <= lastAttempt[pending[p].cfg] + SendLag
    /\ \A p, q \in Slot :
          pending[p].active /\ pending[q].active /\ pending[p].cfg = pending[q].cfg /\ p # q
            => hk.pc = "reconnect" /\ (TimedOut(p) \/ TimedOut(q))

(* A handshake that a peer starts replaces the keys of no session younger   *)
(* than the cooldown, neither its own nor the one whose slot it takes over  *)
(* because of its address (peer.c:853, 878).  Keys that are replaced in the *)
(* second they were agreed in leave last_handshake as it is and go unseen.  *)
CooldownRespected ==
    [][\A j \in ActiveSlots :
          sess'[j].lastHandshake # sess[j].lastHandshake /\ pending' = pending
            => now - sess[j].lastHandshake >= HandshakeCooldown]_vars

(* A session that is rekeying stops being so: the answer, a refused answer, *)
(* the timeout or the session's end clears the mark (peer.c:466, 659, 819). *)
(* The time left before the clock's bound must allow for a timeout.         *)
RekeyingEnds ==
    \A j \in Slot :
        (sess[j].active /\ sess[j].rekeying /\ now + HandshakeTimeout + CheckInterval <= Horizon)
            ~> ~(sess[j].active /\ sess[j].rekeying)

(* A configured peer with an endpoint and no session is contacted again, as *)
(* often as the reconnect interval allows (peer.c:636-644).                 *)
KeepsTrying ==
    \A c \in CfgEndpoints : \A t \in StartTime .. Horizon :
        (SessionOf(CfgPub[c]) = NoSlot /\ now = t /\ now + ReconnectInterval + CheckInterval <= Horizon)
            ~> (SessionOf(CfgPub[c]) # NoSlot \/ lastAttempt[c] >= t)
=============================================================================
