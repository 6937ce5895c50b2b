------------------------ MODULE SessionTable_proofs ------------------------
(***************************************************************************)
(* Proofs about the session table and the pending handshakes of one peer,   *)
(* for every table size, every configuration that load_config and main      *)
(* accept, and every timing.                                                *)
(***************************************************************************)
EXTENDS SessionTable, FiniteSetTheorems, TLAPS

(***************************************************************************)
(* The searches over the table.                                             *)
(***************************************************************************)

(* The first match of a search is a match, if there is one.                 *)
LEMMA FirstOfMember ==
    ASSUME NEW S \in SUBSET Nat
    PROVE  /\ S = {} => FirstOf(S) = NoSlot
           /\ S # {} => FirstOf(S) \in S /\ FirstOf(S) # NoSlot
<1>1. CASE S = {}
  BY <1>1, Zenon DEF FirstOf
<1>2. CASE S # {}
  <2> DEFINE R == OpToRel(<, Nat)
  <2>1. IsWellFoundedOn(R, Nat)
    BY NatLessThanWellFounded, Zenon
  <2>2. R = {ss \in Nat \X Nat : ss[1] < ss[2]}
    BY Zenon DEF OpToRel
  <2> HIDE DEF R
  <2>3. PICK x \in S : \A y \in S : ~(<<y, x>> \in R)
    BY <2>1, <1>2, WFMin, Zenon
  <2>4. ASSUME NEW y \in S PROVE x <= y
    <3>1. <<y, x>> \in Nat \X Nat /\ <<y, x>>[1] = y /\ <<y, x>>[2] = x
      BY Zenon
    <3>2. y < x => <<y, x>> \in R
      BY <2>2, <3>1, Zenon
    <3> QED BY <2>3, <3>2
  <2>5. Min(S) \in S
    BY <2>4, Zenon DEF Min
  <2> QED BY <2>5, <1>2 DEF FirstOf, NoSlot
<1> QED BY <1>1, <1>2, Zenon

(* The slots handed out so far are slots of the table, and NULL is none.    *)
LEMMA SlotFacts ==
    ASSUME TypeOK
    PROVE  /\ MaxPeers \in Nat /\ slots \in Nat /\ slots <= MaxPeers
           /\ \A j \in Nat : j < slots => j \in Slot
           /\ 0 .. slots - 1 \subseteq Slot /\ Slot \subseteq Nat
           /\ \A j \in Slot : j # NoSlot
           /\ \A j : j \in 0 .. slots - 1 <=> j \in Slot /\ j < slots
BY MaxPeersAssumption DEF TypeOK, Slot, NoSlot

(* find_session_by_pub (peer.c:386-391) returns an active session of that   *)
(* peer, and NULL only when there is none.                                  *)
LEMMA SessionOfSpec ==
    ASSUME TypeOK, NEW pub
    PROVE  /\ SessionOf(pub) = NoSlot => \A j \in ActiveSlots : sess[j].pub # pub
           /\ SessionOf(pub) # NoSlot =>
                 SessionOf(pub) \in ActiveSlots /\ sess[SessionOf(pub)].pub = pub
<1> DEFINE S == {j \in 0 .. slots - 1 : sess[j].active /\ sess[j].pub = pub}
<1>1. S \in SUBSET Nat
  BY SlotFacts, Zenon
<1>2. SessionOf(pub) = FirstOf(S)
  BY Zenon DEF SessionOf, FindByPub
<1>3. \A j : j \in S <=> j \in ActiveSlots /\ sess[j].pub = pub
  BY SlotFacts, Zenon DEF ActiveSlots
<1> HIDE DEF S
<1> QED BY <1>1, <1>2, <1>3, FirstOfMember, Zenon

(* The same of find_session_by_addr (peer.c:377-384).                       *)
LEMMA SessionAtSpec ==
    ASSUME TypeOK, NEW addr
    PROVE  /\ SessionAt(addr) = NoSlot => \A j \in ActiveSlots : sess[j].addr # addr
           /\ SessionAt(addr) # NoSlot =>
                 SessionAt(addr) \in ActiveSlots /\ sess[SessionAt(addr)].addr = addr
<1> DEFINE S == {j \in 0 .. slots - 1 : sess[j].active /\ sess[j].addr = addr}
<1>1. S \in SUBSET Nat
  BY SlotFacts, Zenon
<1>2. SessionAt(addr) = FirstOf(S)
  BY Zenon DEF SessionAt, FindByAddr
<1>3. \A j : j \in S <=> j \in ActiveSlots /\ sess[j].addr = addr
  BY SlotFacts, Zenon DEF ActiveSlots
<1> HIDE DEF S
<1> QED BY <1>1, <1>2, <1>3, FirstOfMember, Zenon

(* A pending handshake found by its address is active.                      *)
LEMMA PendingAtSpec ==
    ASSUME TypeOK, NEW addr, PendingAt(addr) # NoSlot
    PROVE  PendingAt(addr) \in Slot /\ pending[PendingAt(addr)].active
<1> DEFINE S == {p \in Slot : pending[p].active /\ pending[p].addr = addr}
<1>1. S \in SUBSET Nat
  BY SlotFacts, Zenon
<1>2. PendingAt(addr) = FirstOf(S)
  BY Zenon DEF PendingAt
<1> QED BY <1>1, <1>2, FirstOfMember, Zenon

(* The entry initiate_outbound_handshake takes is not in use                *)
(* (peer.c:563-565).                                                        *)
LEMMA FreePendingSpec ==
    ASSUME TypeOK, FreePending # NoSlot
    PROVE  FreePending \in Slot /\ ~pending[FreePending].active
<1> DEFINE S == {p \in Slot : ~pending[p].active}
<1>1. S \in SUBSET Nat
  BY SlotFacts, Zenon
<1>2. FreePending = FirstOf(S)
  BY Zenon DEF FreePending
<1> QED BY <1>1, <1>2, FirstOfMember, Zenon

(* alloc_session (peer.c:395-405) returns the peer's own slot if it has one *)
(* and otherwise a slot of the table; it returns NULL only when every slot  *)
(* of the table is active and none belongs to the peer.                     *)
LEMMA AllocSlotSpec ==
    ASSUME TypeOK, NEW pub, NEW addr
    PROVE  LET j == AllocSlot(sess, slots, pub, addr)
           IN  /\ j = NoSlot => /\ slots = MaxPeers
                                /\ \A k \in Slot : k \in ActiveSlots /\ sess[k].pub # pub
               /\ j # NoSlot => /\ j \in Slot
                                /\ j <= slots
                                /\ (j \in ActiveSlots /\ sess[j].pub = pub)
                                     \/ (\A k \in ActiveSlots : sess[k].pub # pub)
<1> DEFINE byPub == SessionOf(pub)
           byAddr == SessionAt(addr)
           F == {k \in 0 .. slots - 1 : ~sess[k].active}
           j == AllocSlot(sess, slots, pub, addr)
<1>1. /\ byPub = NoSlot => \A k \in ActiveSlots : sess[k].pub # pub
      /\ byPub # NoSlot => byPub \in ActiveSlots /\ sess[byPub].pub = pub
  BY SessionOfSpec, Zenon
<1>2. byAddr # NoSlot => byAddr \in ActiveSlots
  BY SessionAtSpec, Zenon
<1>3. F \in SUBSET Nat
  BY SlotFacts, Zenon
<1>4. F = {} => FirstOf(F) = NoSlot
  BY <1>3, FirstOfMember, Zenon
<1>5. F # {} => FirstOf(F) \in F /\ FirstOf(F) # NoSlot
  BY <1>3, FirstOfMember, Zenon
<1>6. j = IF byPub # NoSlot THEN byPub
          ELSE IF byAddr # NoSlot THEN byAddr
          ELSE IF FirstOf(F) # NoSlot THEN FirstOf(F)
          ELSE IF slots < MaxPeers THEN slots ELSE NoSlot
  BY Zenon DEF AllocSlot, FreeSlot, SessionOf, SessionAt
<1>7. \A k \in F : k \in Slot /\ k < slots
  BY SlotFacts, Zenon
<1>8. \A k \in Slot : k < slots /\ k \notin F => k \in ActiveSlots
  BY SlotFacts, Zenon DEF ActiveSlots
<1>9. \A k \in ActiveSlots : k \in Slot /\ k < slots
  BY Zenon DEF ActiveSlots
<1>10. /\ slots < MaxPeers => slots \in Slot /\ slots # NoSlot
       /\ slots \in Nat /\ slots <= MaxPeers /\ MaxPeers \in Nat
       /\ \A k \in Slot : k \in Nat /\ k < MaxPeers
  BY SlotFacts, MaxPeersAssumption DEF Slot, NoSlot
<1> HIDE DEF F, byPub, byAddr, j
<1>11. CASE byPub # NoSlot
  BY <1>11, <1>1, <1>6, <1>9, <1>10 DEF j
<1>12. CASE byPub = NoSlot /\ byAddr # NoSlot
  BY <1>12, <1>1, <1>2, <1>6, <1>9, <1>10 DEF j
<1>13. CASE byPub = NoSlot /\ byAddr = NoSlot /\ F # {}
  BY <1>13, <1>1, <1>5, <1>6, <1>7, <1>10 DEF j
<1>14. CASE byPub = NoSlot /\ byAddr = NoSlot /\ F = {} /\ slots < MaxPeers
  BY <1>14, <1>1, <1>4, <1>6, <1>10 DEF j
<1>15. CASE byPub = NoSlot /\ byAddr = NoSlot /\ F = {} /\ slots = MaxPeers
  BY <1>15, <1>1, <1>4, <1>6, <1>8, <1>10, Zenon DEF j
<1> QED BY <1>10, <1>11, <1>12, <1>13, <1>14, <1>15

(***************************************************************************)
(* Type correctness.                                                        *)
(***************************************************************************)

(* Each update of one field of a session yields a session.                  *)
LEMMA SessionUpdates ==
    ASSUME NEW s \in Session, NEW b \in BOOLEAN, NEW t \in Nat
    PROVE  /\ [s EXCEPT !.rekeying = b] \in Session
           /\ [s EXCEPT !.active = b] \in Session
           /\ now \in Nat => Forwarded(s) \in Session
           /\ Heard(s, b, t) \in Session
BY Zenon DEF Session, Heard, Forwarded

(* session_init (peer.c:434-491) yields a session.                          *)
LEMMA SessionInitType ==
    ASSUME NEW old \in Session, NEW addr \in Addrs, NEW pub \in Pubs, NEW k \in Keys,
           NEW t \in Nat
    PROVE  SessionInit(old, addr, pub, k, t) \in Session
BY PrevKeyGraceAssumption DEF Session, SessionInit

(* Setting or clearing a rekeying flag yields a table.                      *)
LEMMA WithRekeyingType ==
    ASSUME TypeOK, NEW pub, NEW b \in BOOLEAN
    PROVE  WithRekeying(SessionOf(pub), b) \in [Slot -> Session]
<1>1. sess \in [Slot -> Session]
  BY Zenon DEF TypeOK
<1>2. SessionOf(pub) # NoSlot => SessionOf(pub) \in Slot
  BY SessionOfSpec, Zenon DEF ActiveSlots
<1>3. ASSUME NEW j \in Slot PROVE [sess EXCEPT ![j].rekeying = b] \in [Slot -> Session]
  BY <1>1, SessionUpdates, Zenon
<1> QED BY <1>1, <1>2, <1>3, Zenon DEF WithRekeying

(* The statically initialised table is well formed.                         *)
LEMMA InitTypeOK == Init => TypeOK
<1> SUFFICES ASSUME Init PROVE TypeOK
  BY Zenon
<1>1. BlankSession \in Session
  BY Zenon DEF BlankSession, Session
<1>2. 0 \in Cfg /\ 0 \in 0 .. CfgCount /\ 0 \in 0 .. MaxPeers /\ StartTime \in Nat
  BY CfgCountAssumption, MaxPeersAssumption, StartTimeAssumption DEF Cfg
<1>3. [active |-> FALSE, cfg |-> 0, sentAt |-> 0, addr |-> None] \in Pending
  BY <1>2, Zenon DEF Pending
<1> QED BY <1>1, <1>2, <1>3, Zenon DEF Init, TypeOK, EmptyTable

(* Every step of either kind of thread keeps the state well formed.         *)
LEMMA NextTypeOK == TypeOK /\ [Next]_vars => TypeOK'
<1> SUFFICES ASSUME TypeOK, [Next]_vars PROVE TypeOK'
  BY Zenon
<1>0. /\ CfgCount \in Nat /\ MaxPeers \in Nat /\ now \in Nat
      /\ \A c \in 0 .. CfgCount : c < CfgCount => c \in Cfg /\ c + 1 \in 0 .. CfgCount
      /\ \A j \in Slot : sess[j] \in Session
      /\ \A p \in Slot : pending[p] \in Pending
  BY CfgCountAssumption, MaxPeersAssumption DEF TypeOK, Cfg
<1>1. CASE Tick
  BY <1>1 DEF Tick, TypeOK
<1>2. CASE HkWake
  BY <1>2, <1>0 DEF HkWake, TypeOK
<1>3. CASE HkLock
  BY <1>3, Zenon DEF HkLock, TypeOK
<1>4. CASE HkSkip
  BY <1>4, <1>0, Zenon DEF HkSkip, TypeOK
<1>5. CASE HkInitiate
  <2>1. hk.i \in Cfg /\ hk.i + 1 \in 0 .. CfgCount
    BY <1>5, <1>0, Zenon DEF HkInitiate, TypeOK
  <2>2. sess' \in [Slot -> Session]
    BY <1>5, WithRekeyingType, Zenon DEF HkInitiate
  <2>3. pending' \in [Slot -> Pending]
    BY <1>5, <1>0, <2>1, FreePendingSpec DEF HkInitiate, InitiateOutbound, ResolveEndpoint, TypeOK, Pending
  <2>4. hk' \in [pc : {"sleep", "wait", "reconnect", "expire", "keepalive"},
                 now : Nat, i : 0 .. CfgCount]
    BY <1>5, <2>1, Zenon DEF HkInitiate, TypeOK
  <2>5. PICK t \in AttemptClock : lastAttempt' = [lastAttempt EXCEPT ![hk.i] = t]
    BY <1>5, Zenon DEF HkInitiate, InitiateOutbound
  <2>6. t \in Nat
    BY <2>5 DEF AttemptClock, TypeOK
  <2>7. lastAttempt' \in [Cfg -> Nat] /\ UNCHANGED <<now, slots>>
    BY <1>5, <2>1, <2>5, <2>6, Zenon DEF HkInitiate, TypeOK
  <2> QED BY <1>0, <2>1, <2>2, <2>3, <2>4, <2>7, Zenon DEF TypeOK
<1>6. CASE HkInitiateFails
  <2>1. hk.i \in Cfg /\ hk.i + 1 \in 0 .. CfgCount
    BY <1>6, <1>0, Zenon DEF HkInitiateFails, TypeOK
  <2>2. sess' \in [Slot -> Session]
    BY <1>6, WithRekeyingType, Zenon DEF HkInitiateFails
  <2>3. hk' \in [pc : {"sleep", "wait", "reconnect", "expire", "keepalive"},
                 now : Nat, i : 0 .. CfgCount]
    BY <1>6, <2>1, Zenon DEF HkInitiateFails, TypeOK
  <2> QED BY <1>6, <1>0, <2>1, <2>2, <2>3, Zenon DEF HkInitiateFails, TypeOK
<1>7. CASE HkExpirePending
  <2>1. sess' \in [Slot -> Session]
    BY <1>7, <1>0, SessionUpdates, Zenon DEF HkExpirePending
  <2>2. pending' \in [Slot -> Pending]
    BY <1>7, <1>0, Zenon DEF HkExpirePending, Pending
  <2> QED BY <1>7, <2>1, <2>2, Zenon DEF HkExpirePending, TypeOK
<1>8. CASE HkExpireSessions
  <2>1. sess' \in [Slot -> Session]
    BY <1>8, <1>0, SessionUpdates, Zenon DEF HkExpireSessions
  <2> QED BY <1>8, <2>1, Zenon DEF HkExpireSessions, TypeOK
<1>9. CASE HkKeepalive
  <2>1. PICK sent \in SUBSET Slot :
          sess' = [j \in Slot |->
                     IF j \in sent THEN Forwarded(sess[j]) ELSE sess[j]]
    BY <1>9, Zenon DEF HkKeepalive
  <2>2. sess' \in [Slot -> Session]
    BY <2>1, <1>0, SessionUpdates, Zenon
  <2> QED BY <1>9, <2>2, Zenon DEF HkKeepalive, TypeOK
<1>10. ASSUME NEW src \in Addrs, NEW k \in Keys, CompleteOutbound(src, k) PROVE TypeOK'
  <2> DEFINE p == PendingAt(src)
             pub == CfgPub[pending[p].cfg]
             j == AllocSlot(sess, slots, pub, src)
  <2>1. p \in Slot
    BY <1>10, PendingAtSpec, Zenon DEF CompleteOutbound
  <2>2. pub \in Pubs
    BY <2>1, <1>0, CfgPubAssumption, Zenon DEF Pending
  <2>3. j # NoSlot => j \in Slot /\ j <= slots
    BY AllocSlotSpec, Zenon
  <2>4. /\ pending' = [pending EXCEPT ![p].active = FALSE]
        /\ sess' = IF j = NoSlot THEN sess
                   ELSE [sess EXCEPT ![j] = SessionInit(@, src, pub, k, now)]
        /\ slots' = SlotsAfter(slots, j)
        /\ UNCHANGED <<now, lastAttempt, hk>>
    BY <1>10, Zenon DEF CompleteOutbound
  <2> HIDE DEF p, pub, j
  <2>5. sess' \in [Slot -> Session]
    BY <2>2, <2>3, <2>4, <1>0, SessionInitType, Zenon DEF TypeOK
  <2>6. pending' \in [Slot -> Pending]
    BY <2>1, <2>4, <1>0, Zenon DEF TypeOK, Pending
  <2>7. slots' \in 0 .. MaxPeers
    BY <2>3, <2>4, <1>0 DEF SlotsAfter, Slot, NoSlot, TypeOK
  <2> QED BY <2>4, <2>5, <2>6, <2>7, Zenon DEF TypeOK
<1>11. ASSUME NEW src \in Addrs, FailOutbound(src) PROVE TypeOK'
  <2>1. sess' \in [Slot -> Session]
    BY <1>11, WithRekeyingType, Zenon DEF FailOutbound
  <2>2. pending' \in [Slot -> Pending]
    BY <1>11, <1>0, PendingAtSpec, Zenon DEF FailOutbound, TypeOK, Pending
  <2> QED BY <1>11, <2>1, <2>2, Zenon DEF FailOutbound, TypeOK
<1>12. ASSUME NEW src \in Addrs, NEW pub \in Pubs, NEW k \in Keys, NEW t \in WorkerClock,
              InboundHandshake(src, pub, k, t)
       PROVE  TypeOK'
  <2> DEFINE j == AllocSlot(sess, slots, pub, src)
  <2>1. /\ j # NoSlot
        /\ sess' = [sess EXCEPT ![j] = SessionInit(@, src, pub, k, now)]
        /\ slots' = SlotsAfter(slots, j)
        /\ UNCHANGED <<now, pending, lastAttempt, hk>>
    BY <1>12, Zenon DEF InboundHandshake
  <2>2. j \in Slot /\ j <= slots
    BY <2>1, AllocSlotSpec, Zenon
  <2> HIDE DEF j
  <2>3. sess' \in [Slot -> Session]
    BY <2>1, <2>2, <1>0, SessionInitType, Zenon DEF TypeOK
  <2>4. slots' \in 0 .. MaxPeers
    BY <2>1, <2>2, <1>0 DEF SlotsAfter, Slot, TypeOK
  <2> QED BY <2>1, <2>3, <2>4, Zenon DEF TypeOK
<1>13. ASSUME NEW src \in Addrs, NEW current \in BOOLEAN, NEW t \in WorkerClock,
              NEW fwd \in Slot \cup {NoSlot}, DataPacket(src, current, t, fwd)
       PROVE  TypeOK'
  <2>1. t \in Nat
    BY StartTimeAssumption, <1>0 DEF WorkerClock
  <2>2. SessionAt(src) \in Slot
    BY <1>13, SessionAtSpec, Zenon DEF DataPacket, ActiveSlots
  <2> DEFINE heard == [sess EXCEPT ![SessionAt(src)] = Heard(@, current, t)]
  <2>3. heard \in [Slot -> Session]
    BY <2>1, <2>2, <1>0, SessionUpdates, Zenon DEF TypeOK
  <2>4. sess' = IF fwd = NoSlot THEN heard ELSE [heard EXCEPT ![fwd] = Forwarded(@)]
    BY <1>13, Zenon DEF DataPacket
  <2> HIDE DEF heard
  <2>5. sess' \in [Slot -> Session]
    BY <2>3, <2>4, <1>0, SessionUpdates, Zenon
  <2> QED BY <1>13, <2>5, Zenon DEF DataPacket, TypeOK
<1>14. ASSUME NEW j \in Slot, Forward(j) PROVE TypeOK'
  <2>1. sess' \in [Slot -> Session]
    BY <1>14, <1>0, SessionUpdates, Zenon DEF Forward, TypeOK
  <2> QED BY <1>14, <2>1, Zenon DEF Forward, TypeOK
<1>15. CASE UNCHANGED vars
  BY <1>15, Zenon DEF vars, TypeOK
<1> QED BY <1>1, <1>2, <1>3, <1>4, <1>5, <1>6, <1>7, <1>8, <1>9, <1>10, <1>11, <1>12, <1>13,
           <1>14, <1>15, Zenon DEF Next, HkNext, WorkerNext, HandshakePacket

(* Every reachable state of the table, of the pending handshakes and of the *)
(* housekeeping thread is well formed.                                      *)
THEOREM TypeCorrect == Spec => []TypeOK
BY InitTypeOK, NextTypeOK, PTL DEF Spec

(***************************************************************************)
(* One session per peer.                                                    *)
(***************************************************************************)

(* A step that neither activates a slot nor changes a slot's peer preserves *)
(* OneSessionPerPeer.                                                       *)
LEMMA KeepSlots ==
    ASSUME OneSessionPerPeer, slots' = slots,
           \A j \in Slot : /\ sess'[j].pub = sess[j].pub
                           /\ sess'[j].active => sess[j].active
    PROVE  OneSessionPerPeer'
<1>1. \A j \in ActiveSlots' : j \in ActiveSlots /\ sess'[j].pub = sess[j].pub
  BY Zenon DEF ActiveSlots
<1> QED BY <1>1 DEF OneSessionPerPeer

(* session_init on the slot that alloc_session chose for a configured peer  *)
(* preserves it: either the slot was the peer's, or the peer had none.      *)
LEMMA InitSlot ==
    ASSUME TypeOK, OneSessionPerPeer, NEW c \in Cfg, NEW src, NEW k, NEW j,
           j = AllocSlot(sess, slots, CfgPub[c], src), j # NoSlot,
           sess' = [sess EXCEPT ![j] = SessionInit(@, src, CfgPub[c], k, now)],
           slots' = SlotsAfter(slots, j)
    PROVE  OneSessionPerPeer'
<1> DEFINE pub == CfgPub[c]
<1>1. /\ j \in Slot /\ j <= slots
      /\ (j \in ActiveSlots /\ sess[j].pub = pub) \/ (\A m \in ActiveSlots : sess[m].pub # pub)
  BY AllocSlotSpec, Zenon
<1>2. sess'[j].pub = pub /\ sess'[j].active
  BY <1>1, Zenon DEF SessionInit, TypeOK
<1>3. \A m \in Slot : m # j => sess'[m] = sess[m]
  BY Zenon DEF TypeOK
<1>4. slots \in Nat /\ Slot \subseteq Nat /\ slots' \in Nat /\ j < slots' /\ slots <= slots'
      /\ (slots' = slots \/ (slots' = slots + 1 /\ j = slots))
  BY <1>1, SlotFacts DEF SlotsAfter
<1>5. \A m \in ActiveSlots' : m = j \/ (m \in ActiveSlots /\ sess'[m] = sess[m])
  <2> SUFFICES ASSUME NEW m \in ActiveSlots', m # j
               PROVE  m \in ActiveSlots /\ sess'[m] = sess[m]
    BY Zenon
  <2>1. m \in Slot /\ m < slots' /\ sess'[m].active
    BY Zenon DEF ActiveSlots
  <2>2. sess'[m] = sess[m] /\ m < slots
    BY <2>1, <1>3, <1>4
  <2> QED BY <2>1, <2>2, Zenon DEF ActiveSlots
<1>6. (\A m \in Slot : sess[m].active => m < slots)'
  <2> SUFFICES ASSUME NEW m \in Slot, sess'[m].active PROVE m < slots'
    BY Zenon
  <2>1. CASE m = j
    BY <2>1, <1>4, Zenon
  <2>2. CASE m # j
    <3>1. m < slots
      BY <2>2, <1>3, Zenon DEF OneSessionPerPeer
    <3> QED BY <3>1, <1>4
  <2> QED BY <2>1, <2>2, Zenon
<1>7. (\A m \in ActiveSlots : \E d \in Cfg : CfgPub[d] = sess[m].pub)'
  BY <1>2, <1>5 DEF OneSessionPerPeer
<1>8. \A m \in ActiveSlots' : sess'[m].pub = pub => m = j
  <2> SUFFICES ASSUME NEW m \in ActiveSlots', m # j PROVE sess'[m].pub # pub
    BY Zenon
  <2>1. m \in ActiveSlots /\ sess'[m] = sess[m]
    BY <1>5, Zenon
  <2> QED BY <2>1, <1>1, Zenon DEF OneSessionPerPeer
<1>9. (\A m, n \in ActiveSlots : sess[m].pub = sess[n].pub => m = n)'
  BY <1>2, <1>5, <1>8 DEF OneSessionPerPeer
<1> QED BY <1>6, <1>7, <1>9, Zenon DEF OneSessionPerPeer

(* WithRekeying changes nothing but a rekeying flag.                        *)
LEMMA WithRekeyingFields ==
    ASSUME TypeOK, NEW pub, NEW b \in BOOLEAN, NEW j \in Slot
    PROVE  LET new == WithRekeying(SessionOf(pub), b)
           IN  /\ new[j].pub = sess[j].pub
               /\ new[j].active = sess[j].active
               /\ new[j].lastHandshake = sess[j].lastHandshake
               /\ new[j].rekeying = IF j = SessionOf(pub) THEN b ELSE sess[j].rekeying
<1>1. SessionOf(pub) # NoSlot => SessionOf(pub) \in Slot
  BY SessionOfSpec, Zenon DEF ActiveSlots
<1>2. j # NoSlot
  BY SlotFacts, Zenon
<1> QED BY <1>1, <1>2, Zenon DEF WithRekeying, TypeOK, Session

(* A data packet touches only the times of sessions and their previous key. *)
LEMMA OnlyTimes ==
    ASSUME TypeOK, NEW src, NEW current \in BOOLEAN, NEW t,
           NEW fwd \in Slot \cup {NoSlot}, DataPacket(src, current, t, fwd), NEW j \in Slot
    PROVE  /\ sess'[j].pub = sess[j].pub
           /\ sess'[j].active = sess[j].active
           /\ sess'[j].lastHandshake = sess[j].lastHandshake
           /\ sess'[j].rekeying = sess[j].rekeying
<1> DEFINE heard == [sess EXCEPT ![SessionAt(src)] = Heard(@, current, t)]
<1>1. sess \in [Slot -> Session]
  BY Zenon DEF TypeOK
<1>2. SessionAt(src) \in Slot
  BY SessionAtSpec, Zenon DEF DataPacket, ActiveSlots
<1>3. sess' = IF fwd = NoSlot THEN heard ELSE [heard EXCEPT ![fwd] = Forwarded(@)]
  BY Zenon DEF DataPacket
<1>4. ASSUME NEW m \in Slot
      PROVE  /\ heard[m].pub = sess[m].pub
             /\ heard[m].active = sess[m].active
             /\ heard[m].lastHandshake = sess[m].lastHandshake
             /\ heard[m].rekeying = sess[m].rekeying
  BY <1>1, <1>2 DEF Heard, Session
<1>5. heard = [m \in Slot |-> heard[m]]
  BY <1>1, Zenon
<1> HIDE DEF heard
<1>6. sess'[j] = heard[j] \/ sess'[j] = Forwarded(heard[j])
  BY <1>3, <1>5, Zenon
<1>7. DOMAIN heard[j] = DOMAIN [active |-> 0, addr |-> 0, pub |-> 0, key |-> 0, prevKey |-> 0,
        prevActive |-> 0, prevExpires |-> 0, lastSeen |-> 0, lastSent |-> 0,
        lastHandshake |-> 0, rekeying |-> 0]
  BY <1>1, <1>2, Zenon DEF heard, Heard, Session
<1> QED BY <1>4, <1>6, <1>7, Zenon DEF Forwarded

(* The steps other than a completed handshake.                              *)
Quiet ==
    \/ Tick
    \/ HkNext
    \/ \E src \in Addrs : FailOutbound(src)
    \/ \E src \in Addrs, current \in BOOLEAN, t \in WorkerClock, fwd \in Slot \cup {NoSlot} :
          DataPacket(src, current, t, fwd)
    \/ \E j \in Slot : Forward(j)
    \/ UNCHANGED vars

(* They leave every slot's peer and handshake time alone, and activate no   *)
(* slot.                                                                    *)
LEMMA NoNewSession ==
    ASSUME TypeOK, Quiet
    PROVE  /\ slots' = slots
           /\ \A j \in Slot : /\ sess'[j].pub = sess[j].pub
                              /\ sess'[j].active => sess[j].active
                              /\ sess'[j].lastHandshake = sess[j].lastHandshake
<1> DEFINE Same == /\ slots' = slots
                   /\ \A j \in Slot : /\ sess'[j].pub = sess[j].pub
                                      /\ sess'[j].active => sess[j].active
                                      /\ sess'[j].lastHandshake = sess[j].lastHandshake
<1>0. sess \in [Slot -> Session]
  BY Zenon DEF TypeOK
<1>1. CASE Tick \/ HkWake \/ HkLock \/ HkSkip \/ UNCHANGED vars
  BY <1>1, Zenon DEF Tick, HkWake, HkLock, HkSkip, vars
<1>2. CASE HkInitiate
  <2>1. sess' = WithRekeying(SessionOf(CfgPub[hk.i]), TRUE) /\ slots' = slots
    BY <1>2, Zenon DEF HkInitiate
  <2> QED BY <2>1, WithRekeyingFields, ZenonT(30)
<1>3. CASE HkInitiateFails
  BY <1>3, WithRekeyingFields, ZenonT(30) DEF HkInitiateFails
<1>4. CASE HkExpirePending
  BY <1>4, <1>0, Zenon DEF HkExpirePending, Session
<1>5. CASE HkExpireSessions
  BY <1>5, <1>0, Zenon DEF HkExpireSessions, Session
<1>6. CASE HkKeepalive
  <2>1. PICK sent \in SUBSET Slot :
          sess' = [j \in Slot |->
                     IF j \in sent THEN Forwarded(sess[j]) ELSE sess[j]]
    BY <1>6, Zenon DEF HkKeepalive
  <2> QED BY <1>6, <2>1, <1>0 DEF HkKeepalive, Forwarded, Session
<1>7. ASSUME NEW src \in Addrs, FailOutbound(src) PROVE Same
  BY <1>7, WithRekeyingFields, ZenonT(30) DEF FailOutbound
<1>8. ASSUME NEW src \in Addrs, NEW current \in BOOLEAN, NEW t \in WorkerClock,
             NEW fwd \in Slot \cup {NoSlot}, DataPacket(src, current, t, fwd)
      PROVE  Same
  BY <1>8, OnlyTimes, Zenon DEF DataPacket
<1>9. ASSUME NEW m \in Slot, Forward(m) PROVE Same
  BY <1>9, <1>0, Zenon DEF Forward, Forwarded, Session
<1> QED BY <1>1, <1>2, <1>3, <1>4, <1>5, <1>6, <1>7, <1>8, <1>9, Zenon DEF Quiet, HkNext

(* No step gives a peer a second session or an unknown peer a first one.    *)
LEMMA NextOneSession ==
    TypeOK /\ OneSessionPerPeer /\ [Next]_vars => OneSessionPerPeer'
<1> SUFFICES ASSUME TypeOK, OneSessionPerPeer, [Next]_vars PROVE OneSessionPerPeer'
  BY Zenon
<1>1. ASSUME NEW src \in Addrs, NEW k \in Keys, CompleteOutbound(src, k)
      PROVE  OneSessionPerPeer'
  <2> DEFINE p == PendingAt(src)
             c == pending[p].cfg
             j == AllocSlot(sess, slots, CfgPub[c], src)
  <2>1. p \in Slot
    BY <1>1, PendingAtSpec, Zenon DEF CompleteOutbound
  <2>2. c \in Cfg
    BY <2>1, Zenon DEF TypeOK, Pending
  <2>3. /\ sess' = IF j = NoSlot THEN sess
                   ELSE [sess EXCEPT ![j] = SessionInit(@, src, CfgPub[c], k, now)]
        /\ slots' = SlotsAfter(slots, j)
    BY <1>1, Zenon DEF CompleteOutbound
  <2>4. CASE j = NoSlot
    <3>1. sess' = sess /\ slots' = slots
      BY <2>3, <2>4, SlotFacts DEF SlotsAfter, NoSlot
    <3> QED BY <3>1, KeepSlots, Zenon
  <2>5. CASE j # NoSlot
    BY <2>2, <2>3, <2>5, InitSlot, Zenon
  <2> QED BY <2>4, <2>5, Zenon
<1>2. ASSUME NEW src \in Addrs, NEW pub \in Pubs, NEW k \in Keys, NEW t \in WorkerClock,
             InboundHandshake(src, pub, k, t)
      PROVE  OneSessionPerPeer'
  <2>1. PICK c \in Cfg : CfgPub[c] = pub
    BY <1>2, Zenon DEF InboundHandshake, FindConfig
  <2> QED BY <1>2, <2>1, InitSlot, Zenon DEF InboundHandshake
<1>3. CASE Quiet
  BY <1>3, NoNewSession, KeepSlots, Zenon
<1> QED BY <1>1, <1>2, <1>3, Zenon DEF Quiet, Next, WorkerNext, HandshakePacket

(* A peer has at most one session, and only configured peers have one.      *)
THEOREM SessionsUnique == Spec => []OneSessionPerPeer
<1>1. Init => OneSessionPerPeer
  BY DEF Init, OneSessionPerPeer, ActiveSlots, EmptyTable, BlankSession
<1> QED BY <1>1, TypeCorrect, NextOneSession, PTL DEF Spec

(***************************************************************************)
(* The table is never full for a configured peer.  If alloc_session failed  *)
(* for peer c, all MaxPeers slots would be active and belong to different   *)
(* configured peers other than c, of which there are at most MaxPeers - 1.  *)
(***************************************************************************)

(* A table with one session per configured peer has a slot for each of them.*)
LEMMA NeverFull == TypeOK /\ OneSessionPerPeer => AllocNeverFails
<1> SUFFICES ASSUME TypeOK, OneSessionPerPeer, NEW c \in Cfg, NEW a \in Addrs,
                    AllocSlot(sess, slots, CfgPub[c], a) = NoSlot
             PROVE  FALSE
  BY Zenon DEF AllocNeverFails
<1>1. \A k \in Slot : k \in ActiveSlots /\ sess[k].pub # CfgPub[c]
  BY AllocSlotSpec, Zenon
<1> DEFINE Others == Cfg \ {c}
           owner == [k \in Slot |-> CHOOSE d \in Cfg : CfgPub[d] = sess[k].pub]
<1>2. \A k \in Slot : owner[k] \in Cfg /\ CfgPub[owner[k]] = sess[k].pub
  BY <1>1, Zenon DEF OneSessionPerPeer
<1>3. owner \in [Slot -> Others]
  BY <1>1, <1>2, Zenon
<1>4. \A k, m \in Slot : owner[k] = owner[m] => k = m
  BY <1>1, <1>2 DEF OneSessionPerPeer
<1>5. IsFiniteSet(Slot) /\ Cardinality(Slot) = MaxPeers
  BY FS_Interval, MaxPeersAssumption DEF Slot
<1>6. IsFiniteSet(Cfg) /\ Cardinality(Cfg) = CfgCount
  <2>1. CfgCount - 1 \in Int /\ CfgCount \in Nat /\ CfgCount > 0
    BY CfgCountAssumption
  <2>2. /\ IsFiniteSet(0 .. CfgCount - 1)
        /\ Cardinality(0 .. CfgCount - 1) = IF 0 > CfgCount - 1 THEN 0 ELSE CfgCount - 1 - 0 + 1
    BY <2>1, FS_Interval
  <2> QED BY <2>1, <2>2 DEF Cfg
<1>7. IsFiniteSet(Others) /\ Cardinality(Others) = CfgCount - 1
  BY <1>6, FS_RemoveElement, Zenon
<1> HIDE DEF owner, Others
<1>8. Cardinality(Others) < Cardinality(Slot)
  BY <1>5, <1>7, CfgCountAssumption, MaxPeersAssumption
<1>9. \E k, m \in Slot : k # m /\ owner[k] = owner[m]
  BY <1>3, <1>5, <1>7, <1>8, FS_PigeonHole, Zenon
<1> QED BY <1>4, <1>9, Zenon

(* alloc_session never returns NULL to a configured peer, for any number of *)
(* slots: "Session table full" (peer.c:884) is unreachable.                 *)
THEOREM TableNeverFull == Spec => []AllocNeverFails
BY TypeCorrect, SessionsUnique, NeverFull, PTL

(***************************************************************************)
(* A session that is rekeying has a handshake pending.  The invariant needs *)
(* OneSessionPerPeer: what ends a handshake clears the flag of the one      *)
(* session it finds by the peer's key, and there must be no other.          *)
(***************************************************************************)

HasPending(j) ==
    \E p \in Slot : pending[p].active /\ CfgPub[pending[p].cfg] = sess[j].pub

(* The step leaves slot j as it is in all that RekeyingHasPending reads.    *)
LEMMA KeepHasPending ==
    ASSUME NEW j \in ActiveSlots, HasPending(j), sess'[j].pub = sess[j].pub,
           \A p \in Slot : pending[p].active /\ CfgPub[pending[p].cfg] = sess[j].pub =>
                              pending'[p].active /\ pending'[p].cfg = pending[p].cfg
    PROVE  HasPending(j)'
BY Zenon DEF HasPending

(* The slot of a peer is the one that alloc_session and find_session_by_pub *)
(* return.                                                                  *)
LEMMA OwnSlot ==
    ASSUME TypeOK, OneSessionPerPeer, NEW j \in ActiveSlots, NEW addr
    PROVE  /\ SessionOf(sess[j].pub) = j
           /\ AllocSlot(sess, slots, sess[j].pub, addr) = j
<1>1. SessionOf(sess[j].pub) = j
  BY SessionOfSpec, Zenon DEF OneSessionPerPeer
<1>2. j # NoSlot
  BY SlotFacts, Zenon DEF ActiveSlots
<1> QED BY <1>1, <1>2, Zenon DEF AllocSlot, SessionOf

(* No step leaves a session rekeying without a pending handshake.           *)
LEMMA NextRekeying ==
    TypeOK /\ OneSessionPerPeer /\ RekeyingHasPending /\ [Next]_vars => RekeyingHasPending'
<1> SUFFICES ASSUME TypeOK, OneSessionPerPeer, RekeyingHasPending, [Next]_vars,
                    NEW j \in ActiveSlots', sess'[j].rekeying
             PROVE  HasPending(j)'
  BY Zenon DEF RekeyingHasPending, HasPending
<1> USE DEF HasPending
<1>0. /\ j \in Slot /\ sess'[j].active
      /\ sess \in [Slot -> Session] /\ pending \in [Slot -> Pending]
  BY Zenon DEF ActiveSlots, TypeOK
<1>a. ASSUME j \in ActiveSlots, sess[j].rekeying
      PROVE  HasPending(j)
  BY <1>a, Zenon DEF RekeyingHasPending
<1>b. ASSUME Quiet
      PROVE  j \in ActiveSlots /\ sess'[j].pub = sess[j].pub
  BY <1>0, <1>b, NoNewSession, Zenon DEF ActiveSlots
<1>1. CASE Tick \/ HkWake \/ HkLock \/ HkSkip \/ UNCHANGED vars
  <2>1. j \in ActiveSlots /\ sess[j].rekeying /\ sess' = sess /\ pending' = pending
    BY <1>1, <1>b, Zenon DEF Quiet, HkNext, Tick, HkWake, HkLock, HkSkip, vars
  <2> QED BY <2>1, <1>a, KeepHasPending, Zenon
<1>2. CASE HkInitiate
  <2> DEFINE f == FreePending
  <2>1. j \in ActiveSlots /\ sess'[j].pub = sess[j].pub
    BY <1>2, <1>b, Zenon DEF Quiet, HkNext
  <2>2. PICK a \in Addrs :
          pending' = [pending EXCEPT ![f] =
                        [active |-> TRUE, cfg |-> hk.i, sentAt |-> now, addr |-> a]]
    BY <1>2, Zenon DEF HkInitiate, InitiateOutbound, ResolveEndpoint
  <2>3. f \in Slot /\ ~pending[f].active
    BY <1>2, FreePendingSpec, Zenon DEF HkInitiate, InitiateOutbound
  <2> HIDE DEF f
  <2>4. sess' = WithRekeying(SessionOf(CfgPub[hk.i]), TRUE)
    BY <1>2, Zenon DEF HkInitiate
  <2>5. CASE j = SessionOf(CfgPub[hk.i])
    <3>1. sess[j].pub = CfgPub[hk.i]
      BY <2>5, <1>0, SessionOfSpec, SlotFacts, Zenon
    <3>2. pending'[f].active /\ pending'[f].cfg = hk.i
      BY <2>2, <2>3, <1>0, Zenon
    <3> QED BY <3>1, <3>2, <2>1, <2>3, Zenon
  <2>6. CASE j # SessionOf(CfgPub[hk.i])
    <3>1. sess[j].rekeying
      BY <2>4, <2>6, <1>0, WithRekeyingFields, Zenon
    <3>2. \A p \in Slot : pending[p].active => pending'[p] = pending[p]
      BY <2>2, <2>3, <1>0, Zenon
    <3> QED BY <3>1, <3>2, <2>1, <1>a, KeepHasPending, Zenon
  <2> QED BY <2>5, <2>6, Zenon
<1>3. CASE HkInitiateFails
  <2>1. j \in ActiveSlots /\ sess'[j].pub = sess[j].pub
    BY <1>3, <1>b, Zenon DEF Quiet, HkNext
  <2>2. sess' = WithRekeying(SessionOf(CfgPub[hk.i]), FALSE) /\ pending' = pending
    BY <1>3, Zenon DEF HkInitiateFails
  <2>3. sess[j].rekeying
    BY <2>2, <1>0, WithRekeyingFields, Zenon
  <2> QED BY <2>1, <2>2, <2>3, <1>a, KeepHasPending, Zenon
<1>4. CASE HkExpirePending
  <2>1. j \in ActiveSlots /\ sess'[j].pub = sess[j].pub
    BY <1>4, <1>b, Zenon DEF Quiet, HkNext
  <2> DEFINE cleared == {SessionOf(CfgPub[pending[p].cfg]) : p \in {q \in Slot : TimedOut(q)}}
  <2>2. sess'[j] = IF j \in cleared THEN [sess[j] EXCEPT !.rekeying = FALSE] ELSE sess[j]
    BY <1>4, <1>0, Zenon DEF HkExpirePending
  <2>3. j \notin cleared /\ sess[j].rekeying
    BY <2>2, <1>0, Zenon DEF Session
  <2>4. ASSUME NEW p \in Slot, CfgPub[pending[p].cfg] = sess[j].pub PROVE ~TimedOut(p)
    BY <2>1, <2>3, <2>4, OwnSlot, Zenon
  <2>5. \A p \in Slot : ~TimedOut(p) => pending'[p] = pending[p]
    BY <1>4, Zenon DEF HkExpirePending
  <2> QED BY <2>1, <2>3, <2>4, <2>5, <1>a, KeepHasPending, Zenon
<1>5. CASE HkExpireSessions
  <2>1. j \in ActiveSlots /\ sess'[j].pub = sess[j].pub
    BY <1>5, <1>b, Zenon DEF Quiet, HkNext
  <2>2. sess[j].rekeying /\ pending' = pending
    BY <1>5, <1>0, Zenon DEF HkExpireSessions, Session
  <2> QED BY <2>1, <2>2, <1>a, KeepHasPending, Zenon
<1>6. CASE HkKeepalive
  <2>1. j \in ActiveSlots /\ sess'[j].pub = sess[j].pub
    BY <1>6, <1>b, Zenon DEF Quiet, HkNext
  <2>2. PICK sent \in SUBSET Slot :
          sess' = [m \in Slot |->
                     IF m \in sent THEN Forwarded(sess[m]) ELSE sess[m]]
    BY <1>6, Zenon DEF HkKeepalive
  <2>3. sess[j].rekeying /\ pending' = pending
    BY <1>6, <2>2, <1>0 DEF HkKeepalive, Forwarded, Session
  <2> QED BY <2>1, <2>3, <1>a, KeepHasPending, Zenon
<1>7. ASSUME NEW src \in Addrs, NEW k \in Keys, CompleteOutbound(src, k) PROVE HasPending(j)'
  <2> DEFINE p == PendingAt(src)
             c == pending[p].cfg
             n == AllocSlot(sess, slots, CfgPub[c], src)
  <2>1. p \in Slot /\ c \in Cfg
    BY <1>7, <1>0, PendingAtSpec, Zenon DEF CompleteOutbound, Pending
  <2>2. n # NoSlot
    BY <2>1, NeverFull, Zenon DEF AllocNeverFails
  <2>3. /\ sess' = [sess EXCEPT ![n] = SessionInit(@, src, CfgPub[c], k, now)]
        /\ pending' = [pending EXCEPT ![p].active = FALSE]
    BY <1>7, <2>2, Zenon DEF CompleteOutbound
  <2>4. j # n /\ sess'[j] = sess[j]
    BY <2>3, <1>0, Zenon DEF SessionInit
  <2>5. j \in ActiveSlots /\ sess[j].rekeying
    BY <2>4, <1>0, Zenon DEF ActiveSlots, OneSessionPerPeer
  <2>6. CfgPub[c] # sess[j].pub
    BY <2>4, <2>5, OwnSlot, Zenon
  <2>7. \A q \in Slot : q # p => pending'[q] = pending[q]
    BY <2>3, <1>0, Zenon
  <2> QED BY <2>4, <2>5, <2>6, <2>7, <1>a, KeepHasPending, Zenon
<1>8. ASSUME NEW src \in Addrs, FailOutbound(src) PROVE HasPending(j)'
  <2> DEFINE p == PendingAt(src)
             pub == CfgPub[pending[p].cfg]
  <2>1. j \in ActiveSlots /\ sess'[j].pub = sess[j].pub
    BY <1>8, <1>b, Zenon DEF Quiet
  <2>2. /\ sess' = WithRekeying(SessionOf(pub), FALSE)
        /\ pending' = [pending EXCEPT ![p].active = FALSE]
    BY <1>8, Zenon DEF FailOutbound
  <2>3. sess[j].rekeying /\ j # SessionOf(pub)
    BY <2>2, <1>0, WithRekeyingFields, Zenon
  <2>4. pub # sess[j].pub
    BY <2>1, <2>3, OwnSlot, Zenon
  <2>5. \A q \in Slot : q # p => pending'[q] = pending[q]
    BY <2>2, <1>0, Zenon
  <2> QED BY <2>1, <2>3, <2>4, <2>5, <1>a, KeepHasPending, Zenon
<1>9. ASSUME NEW src \in Addrs, NEW pub \in Pubs, NEW k \in Keys, NEW t \in WorkerClock,
             InboundHandshake(src, pub, k, t)
      PROVE  HasPending(j)'
  <2> DEFINE n == AllocSlot(sess, slots, pub, src)
  <2>1. /\ sess' = [sess EXCEPT ![n] = SessionInit(@, src, pub, k, now)]
        /\ pending' = pending
    BY <1>9, Zenon DEF InboundHandshake
  <2>2. j # n /\ sess'[j] = sess[j]
    BY <2>1, <1>0, Zenon DEF SessionInit
  <2>3. j \in ActiveSlots /\ sess[j].rekeying
    BY <2>2, <1>0, Zenon DEF ActiveSlots, OneSessionPerPeer
  <2> QED BY <2>1, <2>2, <2>3, <1>a, KeepHasPending, Zenon
<1>10. ASSUME NEW src \in Addrs, NEW current \in BOOLEAN, NEW t \in WorkerClock,
              NEW fwd \in Slot \cup {NoSlot}, DataPacket(src, current, t, fwd)
       PROVE  HasPending(j)'
  <2>1. j \in ActiveSlots /\ sess'[j].pub = sess[j].pub
    BY <1>10, <1>b, Zenon DEF Quiet
  <2>2. sess[j].rekeying /\ pending' = pending
    BY <1>10, <1>0, OnlyTimes, Zenon DEF DataPacket
  <2> QED BY <2>1, <2>2, <1>a, KeepHasPending, Zenon
<1>11. ASSUME NEW m \in Slot, Forward(m) PROVE HasPending(j)'
  <2>1. j \in ActiveSlots /\ sess'[j].pub = sess[j].pub
    BY <1>11, <1>b, Zenon DEF Quiet
  <2>2. sess[j].rekeying /\ pending' = pending
    BY <1>11, <1>0, Zenon DEF Forward, Forwarded, Session
  <2> QED BY <2>1, <2>2, <1>a, KeepHasPending, Zenon
<1> QED BY <1>1, <1>2, <1>3, <1>4, <1>5, <1>6, <1>7, <1>8, <1>9, <1>10, <1>11, Zenon
        DEF Next, HkNext, WorkerNext, HandshakePacket

(* A session marked as rekeying has a handshake pending with its peer.      *)
THEOREM RekeyingPending == Spec => []RekeyingHasPending
<1>1. Init => RekeyingHasPending
  BY DEF Init, RekeyingHasPending, ActiveSlots, EmptyTable, BlankSession
<1> QED BY <1>1, TypeCorrect, SessionsUnique, NextRekeying, PTL DEF Spec

(***************************************************************************)
(* The cooldown.                                                            *)
(***************************************************************************)

(* An active slot that alloc_session returns was found by the peer's key or *)
(* by the address.                                                          *)
LEMMA AllocActive ==
    ASSUME TypeOK, OneSessionPerPeer, NEW pub, NEW addr,
           AllocSlot(sess, slots, pub, addr) \in ActiveSlots
    PROVE  \/ AllocSlot(sess, slots, pub, addr) = SessionOf(pub)
           \/ AllocSlot(sess, slots, pub, addr) = SessionAt(addr)
<1> DEFINE F == {k \in 0 .. slots - 1 : ~sess[k].active}
<1>1. F \in SUBSET Nat
  BY SlotFacts, Zenon
<1>2. FirstOf(F) = NoSlot \/ FirstOf(F) \in F
  BY <1>1, FirstOfMember, Zenon
<1>3. slots \notin ActiveSlots /\ NoSlot \notin ActiveSlots
  BY SlotFacts DEF ActiveSlots
<1>4. \A k \in F : k \notin ActiveSlots
  BY Zenon DEF ActiveSlots
<1> QED BY <1>2, <1>3, <1>4, Zenon DEF AllocSlot, FreeSlot, SessionOf, SessionAt

(* A step that renews a session, other than the answer to a handshake of its*)
(* own side, finds the session past its cooldown (peer.c:853, 878).         *)
LEMMA StepCooldown ==
    ASSUME TypeOK, OneSessionPerPeer, [Next]_vars, NEW j \in ActiveSlots,
           sess'[j].lastHandshake # sess[j].lastHandshake, pending' = pending
    PROVE  now - sess[j].lastHandshake >= HandshakeCooldown
<1>0. j \in Slot /\ sess \in [Slot -> Session] /\ pending \in [Slot -> Pending]
  BY Zenon DEF ActiveSlots, TypeOK
<1>1. CASE Quiet
  BY <1>0, <1>1, NoNewSession, Zenon
<1>2. ASSUME NEW src \in Addrs, NEW k \in Keys, CompleteOutbound(src, k) PROVE FALSE
  <2> DEFINE p == PendingAt(src)
  <2>1. p \in Slot /\ pending[p].active
    BY <1>2, PendingAtSpec, Zenon DEF CompleteOutbound
  <2>2. pending' = [pending EXCEPT ![p].active = FALSE]
    BY <1>2, Zenon DEF CompleteOutbound
  <2> HIDE DEF p
  <2> QED BY <2>1, <2>2, <1>0, Zenon DEF Pending
<1>3. ASSUME NEW src \in Addrs, NEW pub \in Pubs, NEW k \in Keys, NEW t \in WorkerClock,
             InboundHandshake(src, pub, k, t)
      PROVE  now - sess[j].lastHandshake >= HandshakeCooldown
  <2> DEFINE n == AllocSlot(sess, slots, pub, src)
  <2>1. sess' = [sess EXCEPT ![n] = SessionInit(@, src, pub, k, now)]
    BY <1>3, Zenon DEF InboundHandshake
  <2>2. j = n
    BY <2>1, <1>0, Zenon
  <2>3. j = SessionOf(pub) \/ j = SessionAt(src)
    BY <2>2, AllocActive, Zenon
  <2>4. j # NoSlot
    BY <1>0, SlotFacts, Zenon
  <2>5. ~(t - sess[j].lastHandshake < HandshakeCooldown)
    BY <1>3, <2>3, <2>4, Zenon DEF InboundHandshake, CoolingDown
  <2>6. t \in Nat /\ now \in Nat /\ t <= now /\ sess[j].lastHandshake \in Nat
        /\ HandshakeCooldown \in Nat
    BY <1>0, StartTimeAssumption, TimingAssumption DEF WorkerClock, TypeOK, Session
  <2> QED BY <2>5, <2>6
<1> QED BY <1>1, <1>2, <1>3, Zenon DEF Quiet, Next, WorkerNext, HandshakePacket

(* A handshake that a peer starts replaces the keys of no session younger   *)
(* than the cooldown.                                                       *)
THEOREM CooldownHolds == Spec => CooldownRespected
<1>1. TypeOK /\ OneSessionPerPeer /\ [Next]_vars =>
        [\A j \in ActiveSlots :
            sess'[j].lastHandshake # sess[j].lastHandshake /\ pending' = pending
              => now - sess[j].lastHandshake >= HandshakeCooldown]_vars
  BY StepCooldown, Zenon
<1> QED BY <1>1, TypeCorrect, SessionsUnique, PTL DEF Spec, CooldownRespected

(***************************************************************************)
(* One pending handshake per peer.                                          *)
(***************************************************************************)

(* A step that registers no handshake, and does not end the first loop of   *)
(* the pass or change the time it works with, preserves PendingInv.         *)
LEMMA KeepPending ==
    ASSUME TypeOK, TypeOK', PendingInv, now <= now',
           \A c \in Cfg : lastAttempt'[c] \in {lastAttempt[c], now},
           \A p \in Slot : /\ pending'[p].active => pending[p].active
                           /\ pending'[p].cfg = pending[p].cfg
                           /\ pending'[p].sentAt = pending[p].sentAt,
           hk.pc = "reconnect" => hk'.pc = "reconnect" /\ hk'.now = hk.now
    PROVE  PendingInv'
<1>0. /\ \A p \in Slot : pending[p] \in Pending /\ pending'[p] \in Pending
      /\ \A c \in Cfg : lastAttempt[c] \in Nat /\ lastAttempt'[c] \in Nat
      /\ now \in Nat /\ now' \in Nat /\ SendLag \in Nat
  BY TimingAssumption, Zenon DEF TypeOK
<1>1. \A c \in Cfg : lastAttempt'[c] <= now' /\ lastAttempt[c] <= lastAttempt'[c]
  BY <1>0 DEF PendingInv
<1>2. \A p \in Slot :
         pending'[p].active => pending'[p].sentAt <= lastAttempt'[pending'[p].cfg] + SendLag
  BY <1>0, <1>1 DEF PendingInv, Pending
<1>3. ASSUME NEW p \in Slot, NEW q \in Slot, p # q, pending'[p].active, pending'[q].active,
             pending'[p].cfg = pending'[q].cfg
      PROVE  hk'.pc = "reconnect" /\ (TimedOut(p)' \/ TimedOut(q)')
  <2>1. hk.pc = "reconnect" /\ (TimedOut(p) \/ TimedOut(q))
    BY <1>3, Zenon DEF PendingInv
  <2> QED BY <1>3, <2>1, Zenon DEF TimedOut
<1> QED BY <1>1, <1>2, <1>3, Zenon DEF PendingInv

(* The second attempt at a peer finds the first one timed out, if the       *)
(* reconnect interval is long enough (peer.c:637, 649).                     *)
LEMMA InitiatePending ==
    ASSUME TypeOK, TypeOK', PendingInv, HkInitiate,
           ReconnectInterval >= HandshakeTimeout + SendLag
    PROVE  PendingInv'
<1> DEFINE c == hk.i
           f == FreePending
<1>0. /\ \A p \in Slot : pending[p] \in Pending
      /\ \A d \in Cfg : lastAttempt[d] \in Nat
      /\ now \in Nat /\ hk.now \in Nat /\ SendLag \in Nat
      /\ ReconnectInterval \in Nat /\ HandshakeTimeout \in Nat
  BY TimingAssumption, Zenon DEF TypeOK
<1>1. c \in Cfg /\ f \in Slot /\ ~pending[f].active /\ hk.now - lastAttempt[c] >= ReconnectInterval
  BY FreePendingSpec, CfgCountAssumption
     DEF HkInitiate, InitiateOutbound, ReadyToRetry, TypeOK, Cfg
<1>t. PICK t \in AttemptClock : lastAttempt' = [lastAttempt EXCEPT ![c] = t]
  BY Zenon DEF HkInitiate, InitiateOutbound
<1>a. t \in Nat /\ hk.now <= t /\ t <= now /\ now <= t + SendLag
  BY <1>0 DEF AttemptClock
<1>2. /\ lastAttempt'[c] = t /\ \A d \in Cfg \ {c} : lastAttempt'[d] = lastAttempt[d]
      /\ now' = now /\ hk'.pc = "reconnect" /\ hk'.now = hk.now
  BY <1>1, <1>t, Zenon DEF HkInitiate, TypeOK
<1>3. /\ pending'[f].active /\ pending'[f].cfg = c /\ pending'[f].sentAt = now
      /\ \A p \in Slot \ {f} : pending'[p] = pending[p]
  BY <1>1 DEF HkInitiate, InitiateOutbound, TypeOK
<1> HIDE DEF c, f
<1>4. \A d \in Cfg : lastAttempt'[d] <= now' /\ lastAttempt[d] <= lastAttempt'[d]
  BY <1>0, <1>1, <1>2, <1>a DEF PendingInv
<1>5. ASSUME NEW p \in Slot, pending'[p].active
      PROVE  pending'[p].sentAt <= lastAttempt'[pending'[p].cfg] + SendLag
  <2>1. CASE p = f
    BY <1>2, <1>3, <1>a, <2>1
  <2>2. CASE p # f
    <3>1. pending'[p] = pending[p] /\ pending[p].cfg \in Cfg /\ pending[p].sentAt \in Nat
      BY <1>0, <1>3, <2>2, Zenon DEF Pending
    <3>2. lastAttempt'[pending[p].cfg] \in Nat
      BY <3>1, Zenon DEF TypeOK
    <3> QED BY <1>0, <1>4, <1>5, <3>1, <3>2 DEF PendingInv
  <2> QED BY <2>1, <2>2, Zenon
<1>6. ASSUME NEW p \in Slot \ {f}, pending[p].active
      PROVE  /\ TimedOut(p)' <=> TimedOut(p)
             /\ pending[p].cfg = c => TimedOut(p)
  <2>1. pending[p].sentAt \in Nat /\ pending[p].sentAt <= lastAttempt[pending[p].cfg] + SendLag
    BY <1>0, <1>6, Zenon DEF Pending, PendingInv
  <2>2. pending[p].cfg = c => hk.now - pending[p].sentAt >= HandshakeTimeout
    BY <1>0, <1>1, <2>1
  <2> QED BY <1>2, <1>3, <1>6, <2>2, Zenon DEF TimedOut
<1>7. ASSUME NEW p \in Slot, NEW q \in Slot, p # q, pending'[p].active, pending'[q].active,
             pending'[p].cfg = pending'[q].cfg
      PROVE  TimedOut(p)' \/ TimedOut(q)'
  <2>1. CASE p = f
    BY <1>3, <1>6, <1>7, <2>1, Zenon
  <2>2. CASE q = f
    BY <1>3, <1>6, <1>7, <2>2, Zenon
  <2>3. CASE p # f /\ q # f
    BY <1>3, <1>6, <1>7, <2>3, Zenon DEF PendingInv
  <2> QED BY <2>1, <2>2, <2>3, Zenon
<1> QED BY <1>2, <1>4, <1>5, <1>7, Zenon DEF PendingInv

(* The sweep leaves no two entries for one peer (peer.c:647-660).           *)
LEMMA SweepPending ==
    ASSUME TypeOK, TypeOK', PendingInv, HkExpirePending
    PROVE  PendingInv'
<1>1. /\ \A p \in Slot : /\ pending'[p].cfg = pending[p].cfg
                         /\ pending'[p].sentAt = pending[p].sentAt
                         /\ pending'[p].active => pending[p].active /\ ~TimedOut(p)
      /\ now' = now /\ lastAttempt' = lastAttempt
  BY Zenon DEF HkExpirePending, TypeOK, Pending
<1>2. ASSUME NEW p \in Slot, NEW q \in Slot, p # q, pending'[p].active, pending'[q].active,
             pending'[p].cfg = pending'[q].cfg
      PROVE  FALSE
  BY <1>1, <1>2 DEF PendingInv
<1>3. \A p \in Slot :
         pending'[p].active => pending'[p].sentAt <= lastAttempt'[pending'[p].cfg] + SendLag
  BY <1>1, Zenon DEF PendingInv
<1>4. \A c \in Cfg : lastAttempt'[c] <= now'
  BY <1>1, Zenon DEF PendingInv
<1> QED BY <1>2, <1>3, <1>4, Zenon DEF PendingInv

(* Every step keeps PendingInv.                                             *)
LEMMA NextPending ==
    ASSUME ReconnectInterval >= HandshakeTimeout + SendLag
    PROVE  TypeOK /\ TypeOK' /\ PendingInv /\ [Next]_vars => PendingInv'
<1> SUFFICES ASSUME TypeOK, TypeOK', PendingInv, [Next]_vars PROVE PendingInv'
  BY Zenon
<1>0. now \in Nat /\ pending \in [Slot -> Pending] /\ lastAttempt \in [Cfg -> Nat]
  BY Zenon DEF TypeOK
<1>1. CASE UNCHANGED <<pending, lastAttempt>> /\ now <= now'
           /\ (hk.pc = "reconnect" => hk'.pc = "reconnect" /\ hk'.now = hk.now)
  BY <1>1, KeepPending, Zenon
<1>2. CASE Tick \/ UNCHANGED vars
  BY <1>0, <1>1, <1>2 DEF Tick, vars
<1>3. CASE HkWake \/ HkLock \/ HkSkip \/ HkExpireSessions \/ HkKeepalive
  BY <1>0, <1>1, <1>3 DEF HkWake, HkLock, HkSkip, HkExpireSessions, HkKeepalive, TypeOK
<1>4. CASE HkInitiate
  BY <1>4, InitiatePending, Zenon
<1>5. CASE HkInitiateFails
  <2>1. /\ \A c \in Cfg : lastAttempt'[c] \in {lastAttempt[c], now}
        /\ UNCHANGED <<now, pending>> /\ hk'.pc = hk.pc /\ hk'.now = hk.now
    BY <1>0, <1>5, Zenon DEF HkInitiateFails, TypeOK
  <2> QED BY <1>0, <2>1, KeepPending
<1>6. CASE HkExpirePending
  BY <1>6, SweepPending, Zenon
<1>7. ASSUME NEW src \in Addrs, HandshakePacket(src) PROVE PendingInv'
  <2>0. UNCHANGED <<now, lastAttempt, hk>>
    BY <1>7, Zenon DEF HandshakePacket, CompleteOutbound, FailOutbound, InboundHandshake
  <2>1. CASE UNCHANGED pending
    BY <1>0, <1>1, <2>0, <2>1
  <2>2. CASE PendingAt(src) # NoSlot /\ pending' = [pending EXCEPT ![PendingAt(src)].active = FALSE]
    <3>1. \A p \in Slot : /\ pending'[p].active => pending[p].active
                          /\ pending'[p].cfg = pending[p].cfg
                          /\ pending'[p].sentAt = pending[p].sentAt
      BY <1>0, <2>2, PendingAtSpec, Zenon DEF Pending
    <3> QED BY <1>0, <2>0, <3>1, KeepPending
  <2> QED BY <1>7, <2>1, <2>2, Zenon DEF HandshakePacket, CompleteOutbound, FailOutbound, InboundHandshake
<1>8. ASSUME NEW src \in Addrs, NEW current \in BOOLEAN, NEW t \in WorkerClock,
             NEW fwd \in Slot \cup {NoSlot}, DataPacket(src, current, t, fwd)
      PROVE  PendingInv'
  BY <1>0, <1>1, <1>8 DEF DataPacket
<1>9. ASSUME NEW j \in Slot, Forward(j) PROVE PendingInv'
  BY <1>0, <1>1, <1>9 DEF Forward
<1> QED BY <1>2, <1>3, <1>4, <1>5, <1>6, <1>7, <1>8, <1>9, Zenon DEF Next, HkNext, WorkerNext

(* Outside the housekeeping pass a configured peer has at most one pending  *)
(* handshake, provided that the reconnect interval is not shorter than the  *)
(* handshake timeout and the sending of an initiation together: the         *)
(* defaults leave seconds for it (peer.c:98-104).                           *)
THEOREM OnePending ==
    ASSUME ReconnectInterval >= HandshakeTimeout + SendLag
    PROVE  Spec => []OnePendingPerPeer
<1>1. Init => PendingInv
  BY StartTimeAssumption DEF Init, PendingInv
<1>2. PendingInv => OnePendingPerPeer
  BY Zenon DEF PendingInv, OnePendingPerPeer, Unlocked
<1>3. TypeOK /\ TypeOK' /\ PendingInv /\ [Next]_vars => PendingInv'
  BY NextPending, Zenon
<1> QED BY <1>1, <1>2, <1>3, TypeCorrect, PTL DEF Spec
=============================================================================
