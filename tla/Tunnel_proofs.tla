---------------------------- MODULE Tunnel_proofs ----------------------------
(***************************************************************************)
(* The proofs about Tunnel: for any number of initiations, pairs, packets   *)
(* and faults, Inv is inductive, and what the runs check follows from it.   *)
(***************************************************************************)
EXTENDS Tunnel, TLAPS

USE BoundsAssumption

-----------------------------------------------------------------------------
(* The two nodes and their datagrams.                                       *)

(* There are two nodes, each the other's peer. *)
LEMMA PeerSpec ==
    ASSUME NEW n \in Nodes
    PROVE  /\ Peer(n) \in Nodes /\ Peer(n) # n /\ Peer(Peer(n)) = n
           /\ \A m \in Nodes : m = n \/ m = Peer(n)
<1>1. PICK m : Nodes = {n, m} /\ m # n
  BY NodesAssumption
<1> QED BY <1>1, Zenon DEF Peer

(* NoKey is no key. *)
LEMMA NoKeySpec == NoKey \notin Key
BY DEF NoKey, Key

(* The fields of a datagram. *)
LEMMA PacketSpec ==
    ASSUME TypeOK, NEW p \in net
    PROVE  /\ p.src \in Address /\ p.dst \in Address
           /\ p.type \in {"init", "resp", "data"}
           /\ p.type = "init" => p.ce \in 0 .. MaxInits - 1
           /\ p.type = "resp" => p.key \in Key
           /\ p.type = "data" => p.key \in Key /\ p.seq \in 0 .. MaxSeq - 1
BY Zenon DEF TypeOK, InitPacket, RespPacket, DataPacket

(* The fields of what a node keeps. *)
LEMMA NodeSpec ==
    ASSUME TypeOK, NEW n \in Nodes
    PROVE  /\ addr[n] \in Address
           /\ sess[n] \in NodeSession /\ (sess[n].active <=> sess[n].key # NoKey)
           /\ pend[n] \in [active : BOOLEAN, ce : 0 .. MaxInits - 1, addr : Address]
           /\ inits[n] \in 0 .. MaxInits /\ precomp[n] \in 0 .. MaxPairs - 1
           /\ installed[n] \subseteq Key
           /\ delivered[n] \subseteq Key \X (0 .. MaxSeq - 1)
BY Zenon DEF TypeOK

(* What a slot and a pending handshake are when there is none. *)
LEMMA FreeSpec ==
    ASSUME NEW n \in Nodes
    PROVE  /\ FreeSlot(n) \in NodeSession
           /\ NoPending(n) \in [active : BOOLEAN, ce : 0 .. MaxInits - 1, addr : Address]
BY PeerSpec DEF FreeSlot, NoPending, NodeSession, Address

-----------------------------------------------------------------------------
(* Steps of the handshake.                                                  *)

(* SwitchInv is about the answers to pending handshakes and the keys of     *)
(* sessions: it stays when there are no more of them than before.           *)
LEMMA SwitchQuiet ==
    ASSUME TypeOK, SwitchInv, UNCHANGED installed,
           \A m \in Nodes : /\ sess'[m].key \in {sess[m].key, NoKey}
                            /\ sess'[m].prev \in {sess[m].prev, NoKey},
           \A m \in Nodes, k \in Key : Answered(m, k)' => Answered(m, k)
    PROVE  SwitchInv'
<1>1. \A n \in Nodes : Peer(n) \in Nodes /\ NoKey \notin installed[n]
  BY PeerSpec, NoKeySpec, Zenon DEF TypeOK
<1>2. \A n \in Nodes, k, l \in Key : ~(Answered(n, k)' /\ Answered(Peer(n), l)')
  BY <1>1, Zenon DEF SwitchInv
<1>3. ASSUME NEW n \in Nodes, NEW k \in Key, Answered(n, k)'
      PROVE  /\ sess'[n].key # NoKey => sess'[Peer(n)].key # sess'[n].key
             /\ sess'[Peer(n)].prev = k => sess'[Peer(n)].key \notin installed'[n]
  <2>1. /\ sess[n].key # NoKey => sess[Peer(n)].key # sess[n].key
        /\ sess[Peer(n)].prev = k => sess[Peer(n)].key \notin installed[n]
    BY <1>3, Zenon DEF SwitchInv
  <2> QED BY <1>1, <2>1, NoKeySpec
<1>4. \A n \in Nodes :
        sess'[n].prev # NoKey /\ sess'[n].key \in installed'[Peer(n)]
          => sess'[Peer(n)].key # sess'[n].prev
  BY <1>1, Zenon DEF SwitchInv
<1> QED BY <1>2, <1>3, <1>4, Zenon DEF SwitchInv

(* A key that is used stays used. *)
LEMMA UsedStays ==
    ASSUME TypeOK, TypeOK', NEW k \in Key, Used(k),
           \A m \in Nodes : inits[m] <= inits'[m] /\ precomp[m] <= precomp'[m]
    PROVE  Used(k)'
<1>1. k.client \in Nodes /\ Peer(k.client) \in Nodes /\ k.ce \in Nat /\ k.se \in Nat
  BY PeerSpec DEF Key
<1>2. \A m \in Nodes : /\ inits[m] \in Nat /\ inits'[m] \in Nat
                       /\ precomp[m] \in Nat /\ precomp'[m] \in Nat
  BY DEF TypeOK
<1> QED BY <1>1, <1>2 DEF Used

(* A datagram that reaches n comes from its peer. *)
LEMMA FromPeer ==
    ASSUME TypeOK, AddressInv, NEW n \in Nodes, NEW p \in net, p.dst = addr[n]
    PROVE  /\ p.src \in Address /\ p.src[1] = Peer(n)
           /\ AddressesFixed => p.src = <<Peer(n), 0>>
<1>1. p.src \in Address /\ p.src[1] \in Nodes /\ Peer(p.src[1]) = n
  BY PacketSpec DEF AddressInv, Address
<1>2. p.src[1] = Peer(n)
  BY <1>1, PeerSpec, Zenon
<1>3. p.src = <<p.src[1], p.src[2]>>
  BY <1>1 DEF Address
<1>4. AddressesFixed => p.src[2] = 0
  BY Zenon DEF AddressInv
<1> QED BY <1>1, <1>2, <1>3, <1>4, Zenon

(* A handshake that starts has no answer yet. *)
LEMMA InitiateStep ==
    ASSUME Inv, TypeOK', FaultsInv', NEW n \in Nodes, Initiate(n)
    PROVE  Inv'
<1> DEFINE pkt == [type |-> "init", src |-> addr[n], dst |-> addr[Peer(n)], ce |-> inits[n]]
           new == [active |-> TRUE, ce |-> inits[n], addr |-> addr[Peer(n)]]
<1>1. /\ net' = net \cup {pkt}
      /\ pend'[n] = new /\ \A m \in Nodes \ {n} : pend'[m] = pend[m]
      /\ inits'[n] = inits[n] + 1 /\ \A m \in Nodes \ {n} : inits'[m] = inits[m]
      /\ UNCHANGED <<addr, sess, precomp, faults, stale, histVars>>
  BY DEF Initiate, HandshakeClientSend, Inv, TypeOK
<1>2. /\ pkt.type = "init" /\ pkt.src = addr[n] /\ pkt.dst = addr[Peer(n)] /\ pkt.ce = inits[n]
      /\ new.active /\ new.ce = inits[n] /\ new.addr = addr[Peer(n)]
  BY Zenon
<1> HIDE DEF pkt, new
<1>3. /\ Peer(n) \in Nodes /\ addr[n][1] = n /\ addr[Peer(n)][1] = Peer(n)
      /\ \A m \in Nodes : inits[m] \in Nat /\ precomp[m] \in Nat
  BY PeerSpec DEF Inv, AddressInv, TypeOK
<1>4. \A k \in Key : Used(k) => Used(k)'
  BY <1>1, <1>3, UsedStays DEF Inv
<1>5. AddressInv'
  <2>1. AddressesFixed => addr[n][2] = 0 /\ addr[Peer(n)][2] = 0
    BY <1>3 DEF AddressesFixed
  <2> QED BY <1>1, <1>2, <1>3, <2>1 DEF Inv, AddressInv, AddressesFixed
<1>6. AnswerMeansSession'
  BY <1>1, <1>2, Zenon DEF Inv, AnswerMeansSession, AddressesFixed, histVars
<1>7. ASSUME stale = 0 PROVE KeysUsed' /\ NumbersUsed'
  <2>1. KeysUsed /\ NumbersUsed
    BY <1>7, Zenon DEF Inv
  <2>2. \A m \in Nodes : installed'[m] = installed[m] /\ installed[m] \subseteq Key
    BY <1>1, Zenon DEF Inv, TypeOK, histVars
  <2>3. \A m \in Nodes : \A k \in installed'[m] : Used(k)'
    BY <1>4, <2>1, <2>2, Zenon DEF KeysUsed
  <2>4. ASSUME NEW m \in Nodes, pend'[m].active
        PROVE  /\ pend'[m].ce < inits'[m]
               /\ \A k \in installed'[m] : ~(k.client = m /\ k.ce = pend'[m].ce)
    <3>1. CASE m = n
      <4>1. \A k \in installed[n] : k.client = n => k.ce < inits[n] /\ k.ce \in Nat
        BY <2>1, <2>2 DEF KeysUsed, Used, Key
      <4> QED BY <1>1, <1>2, <1>3, <2>2, <3>1, <4>1
    <3>2. CASE m # n
      BY <1>1, <2>1, <2>2, <2>4, <3>2 DEF KeysUsed
    <3> QED BY <3>1, <3>2, Zenon
  <2>5. ASSUME NEW p \in net'
        PROVE  /\ p.type = "init" => p.ce < inits'[p.src[1]]
               /\ p.type = "resp" => Used(p.key)' /\ p.key.client = Peer(p.src[1])
               /\ p.type = "data" => p.key \in installed'[p.src[1]]
    <3>1. CASE p \in net
      <4>1. p.src[1] \in Nodes /\ (p.type = "init" => p.ce \in Nat)
            /\ (p.type = "resp" => p.key \in Key)
        BY <3>1, PacketSpec DEF Inv, Address
      <4> QED BY <1>1, <1>3, <1>4, <2>1, <2>2, <3>1, <4>1 DEF KeysUsed
    <3>2. CASE p = pkt
      BY <1>1, <1>2, <1>3, <3>2
    <3> QED BY <1>1, <2>5, <3>1, <3>2, Zenon
  <2>6. KeysUsed'
    BY <1>1, <2>1, <2>2, <2>3, <2>4, <2>5 DEF KeysUsed
  <2>7. NumbersUsed'
    BY <1>1, <1>2, <2>1, Zenon DEF NumbersUsed, histVars
  <2> QED BY <2>6, <2>7, Zenon
<1>8. ASSUME stale = 0, AddressesFixed' PROVE SwitchInv'
  <2>1. SwitchInv /\ KeysUsed
    BY <1>1, <1>8, Zenon DEF Inv, AddressesFixed
  <2>2. ASSUME NEW m \in Nodes, NEW k \in Key, Answered(m, k)' PROVE Answered(m, k)
    <3>1. PICK p \in net : p.type = "resp" /\ p.key = k
      BY <1>1, <1>2, <2>2, Zenon DEF Answered
    <3>2. k.ce < inits[k.client] /\ k.ce \in Nat
      BY <2>1, <3>1 DEF KeysUsed, Used, Key
    <3>3. m # n
      BY <1>1, <1>2, <1>3, <2>2, <3>2 DEF Answered
    <3> QED BY <1>1, <2>2, <3>1, <3>3, Zenon DEF Answered
  <2> QED BY <1>1, <2>1, <2>2, SwitchQuiet, Zenon DEF Inv, histVars
<1> QED BY <1>1, <1>5, <1>6, <1>7, <1>8, Zenon DEF Inv

(* What session_init leaves in the table. *)
LEMMA SessionInitSpec ==
    ASSUME TypeOK, NEW n \in Nodes, NEW key, NEW src, SessionInit(n, key, src)
    PROVE  /\ \A m \in Nodes \ {n} : sess'[m] = sess[m] /\ installed'[m] = installed[m]
           /\ sess'[n].key = key /\ sess'[n].prev = sess[n].key /\ sess'[n].addr = src
           /\ sess'[n].sendSeq = 0 /\ sess'[n].seen = {}
           /\ installed'[n] = installed[n] \cup {key}
BY Zenon DEF SessionInit, TypeOK

(* A node that installs a key it never had starts with no packet sent or    *)
(* delivered under it.                                                      *)
LEMMA NumbersFresh ==
    ASSUME TypeOK, AddressInv, KeysUsed, NumbersUsed, NEW n \in Nodes, NEW key, NEW src,
           SessionInit(n, key, src), key \notin installed[n],
           UNCHANGED <<delivered, repeated>>,
           \A p \in net' : p \in net \/ p.type # "data"
    PROVE  NumbersUsed'
<1>1. \A m \in Nodes : \A d \in delivered'[m] :
        d[1] \in installed'[m] /\ (d[1] = sess'[m].key => d[2] \in sess'[m].seen)
  BY SessionInitSpec DEF NumbersUsed
<1>2. ASSUME NEW p \in net', p.type = "data", p.key = sess'[p.src[1]].key
      PROVE  p.seq < sess'[p.src[1]].sendSeq
  <2>1. p \in net /\ p.src[1] \in Nodes /\ p.key \in installed[p.src[1]]
    BY <1>2, PacketSpec, Zenon DEF KeysUsed, Address
  <2> QED BY <1>2, <2>1, SessionInitSpec DEF NumbersUsed
<1> QED BY <1>1, <1>2, Zenon DEF NumbersUsed

(* The answer to the pending handshake. *)
LEMMA AnswerStep ==
    ASSUME Inv, TypeOK', FaultsInv', NEW n \in Nodes, NEW p \in net, RecvAnswer(n, p)
    PROVE  Inv'
<1>1. /\ p.type = "resp" /\ p.key \in Key /\ p.key.client = n /\ p.key.ce = pend[n].ce
      /\ pend[n].active
  BY PacketSpec, Zenon DEF Inv, RecvAnswer, Arrives, AnswersPending, MatchesPending
<1>2. /\ SessionInit(n, p.key, p.src)
      /\ pend'[n] = NoPending(n) /\ \A m \in Nodes \ {n} : pend'[m] = pend[m]
      /\ UNCHANGED <<addr, inits, precomp, net, faults, stale, delivered, repeated>>
  BY Zenon DEF RecvAnswer, Inv, TypeOK
<1>3. /\ \A m \in Nodes \ {n} : sess'[m] = sess[m] /\ installed'[m] = installed[m]
      /\ sess'[n].key = p.key /\ sess'[n].prev = sess[n].key /\ sess'[n].addr = p.src
      /\ installed'[n] = installed[n] \cup {p.key}
  BY <1>2, SessionInitSpec DEF Inv
<1>4. p.src \in Address /\ p.src[1] = Peer(n)
  BY FromPeer, Zenon DEF Inv, RecvAnswer, Arrives
<1>5. AddressInv'
  BY <1>2, <1>3, <1>4, PeerSpec DEF Inv, AddressInv, AddressesFixed, NoPending
<1>6. AnswerMeansSession'
  <2>1. \A q \in net : q.src[1] \in Nodes
    BY PacketSpec, Zenon DEF Inv, Address
  <2> QED BY <1>2, <1>3, <2>1, Zenon DEF Inv, AnswerMeansSession, AddressesFixed
<1>7. stale = 0 => p.key \notin installed[n]
  BY <1>1, Zenon DEF Inv, KeysUsed
<1>8. ASSUME stale = 0 PROVE KeysUsed' /\ NumbersUsed'
  <2>1. KeysUsed /\ NumbersUsed
    BY <1>8, Zenon DEF Inv
  <2>2. \A k : Used(k)' <=> Used(k)
    BY <1>2, Zenon DEF Used
  <2>3. \A m \in Nodes : \A k \in installed'[m] : Used(k)'
    BY <1>1, <1>3, <2>1, <2>2 DEF KeysUsed
  <2>4. \A m \in Nodes : /\ {sess'[m].key, sess'[m].prev} \subseteq installed'[m] \cup {NoKey}
                         /\ sess'[m].prev # NoKey => sess'[m].key \notin {NoKey, sess'[m].prev}
    BY <1>1, <1>3, <1>7, <1>8, <2>1, NoKeySpec DEF KeysUsed
  <2>5. \A m \in Nodes : pend'[m].active =>
          /\ pend'[m].ce < inits'[m]
          /\ \A k \in installed'[m] : ~(k.client = m /\ k.ce = pend'[m].ce)
    BY <1>2, <1>3, <2>1 DEF KeysUsed, NoPending
  <2>6. \A q \in net' : /\ q.type = "init" => q.ce < inits'[q.src[1]]
                        /\ q.type = "resp" => Used(q.key)' /\ q.key.client = Peer(q.src[1])
                        /\ q.type = "data" => q.key \in installed'[q.src[1]]
    <3>1. \A q \in net : q.src[1] \in Nodes
      BY PacketSpec, Zenon DEF Inv, Address
    <3> QED BY <1>2, <1>3, <2>1, <2>2, <3>1, Zenon DEF KeysUsed
  <2>7. KeysUsed'
    BY <2>3, <2>4, <2>5, <2>6, Zenon DEF KeysUsed
  <2>8. NumbersUsed'
    BY <1>2, <1>7, <1>8, <2>1, NumbersFresh, Zenon DEF Inv
  <2> QED BY <2>7, <2>8, Zenon
<1>9. ASSUME stale = 0, AddressesFixed' PROVE SwitchInv'
  <2>1. SwitchInv /\ KeysUsed
    BY <1>2, <1>9, Zenon DEF Inv, AddressesFixed
  <2>2. /\ Peer(n) \in Nodes /\ Peer(n) # n /\ Peer(Peer(n)) = n
        /\ \A m \in Nodes : m = n \/ m = Peer(n)
    BY PeerSpec, Zenon
  <2>3. Answered(n, p.key)
    BY <1>1, Zenon DEF Answered
  <2>4. \A m \in Nodes, k \in Key : ~Answered(m, k)'
    <3>1. \A k \in Key : ~Answered(n, k)'
      BY <1>2 DEF Answered, NoPending
    <3>2. \A k \in Key : ~Answered(Peer(n), k)
      BY <1>1, <2>1, <2>2, <2>3, Zenon DEF SwitchInv
    <3>3. \A k \in Key : ~Answered(Peer(n), k)'
      BY <1>2, <2>2, <3>2, Zenon DEF Answered
    <3> QED BY <2>2, <3>1, <3>3, Zenon
  <2>5. ASSUME sess'[n].prev # NoKey, sess'[n].key \in installed'[Peer(n)]
        PROVE  sess'[Peer(n)].key # sess'[n].prev
    BY <1>1, <1>3, <2>1, <2>2, <2>3, <2>5 DEF SwitchInv
  <2>6. ASSUME sess'[Peer(n)].prev # NoKey, sess'[Peer(n)].key \in installed'[n]
        PROVE  sess'[n].key # sess'[Peer(n)].prev
    <3>1. sess[Peer(n)].prev = p.key => sess[Peer(n)].key \notin installed[n]
      BY <1>1, <2>1, <2>2, <2>3, Zenon DEF SwitchInv
    <3>2. sess[Peer(n)].prev # NoKey => sess[Peer(n)].key # sess[Peer(n)].prev
      BY <2>1, <2>2, Zenon DEF KeysUsed
    <3> QED BY <1>3, <2>2, <2>6, <3>1, <3>2, Zenon
  <2> QED BY <2>2, <2>4, <2>5, <2>6, Zenon DEF SwitchInv
<1> QED BY <1>2, <1>5, <1>6, <1>8, <1>9, Zenon DEF Inv

(* An initiation of the peer, which is answered with a pair never used      *)
(* before.  As long as no address changes it finds no handshake pending and *)
(* leads to a session.                                                      *)
LEMMA RespondStep ==
    ASSUME Inv, TypeOK', FaultsInv', NEW n \in Nodes, NEW p \in net, RecvInitiation(n, p)
    PROVE  Inv'
<1>3. /\ Peer(n) \in Nodes /\ Peer(n) # n /\ Peer(Peer(n)) = n
      /\ \A m \in Nodes : m = n \/ m = Peer(n)
  BY PeerSpec, Zenon
<1>4. p.type = "init" /\ p.ce \in 0 .. MaxInits - 1 /\ precomp[n] \in 0 .. MaxPairs - 1
  BY PacketSpec, Zenon DEF RecvInitiation, Arrives, Inv, TypeOK
<1>5. PICK key \in Key : key = [client |-> Peer(n), ce |-> p.ce, se |-> precomp[n]]
  BY <1>3, <1>4, Zenon DEF Key
<1> DEFINE pkt == [type |-> "resp", src |-> addr[n], dst |-> p.src, key |-> key]
<1>1. /\ net' = net \cup {pkt}
      /\ UNCHANGED <<addr, pend, inits, delivered, repeated>>
      /\ IF KeyCooling(n) THEN UNCHANGED <<sess, installed>> ELSE SessionInit(n, key, p.src)
      /\ RefreshPrecomp(n)
  BY <1>5, Zenon DEF RecvInitiation, HandshakeServerRespond
<1>2. /\ pkt.type = "resp" /\ pkt.src = addr[n] /\ pkt.dst = p.src /\ pkt.key = key
      /\ key.client = Peer(n) /\ key.ce = p.ce /\ key.se = precomp[n]
  BY <1>5, Zenon
<1> HIDE DEF pkt
<1>6. /\ p.src \in Address /\ p.src[1] = Peer(n) /\ addr[n][1] = n
      /\ AddressesFixed => p.src = <<Peer(n), 0>> /\ addr[n][2] = 0
  BY FromPeer, Zenon DEF Inv, AddressInv, RecvInitiation, Arrives, AddressesFixed
<1>7. AddressesFixed =>
        ~pend[n].active /\ ~KeyCooling(n) /\ SessionInit(n, key, p.src)
  <2>1. \A a \in Address : a = <<a[1], a[2]>>
    BY DEF Address
  <2>2. AddressesFixed => pend[n].addr = <<Peer(n), 0>> /\ sess[n].addr = <<Peer(n), 0>>
    BY <2>1 DEF Inv, AddressInv, TypeOK, NodeSession
  <2> QED BY <1>1, <1>6, <2>2, Zenon
          DEF RecvInitiation, MatchesPending, AddressCooling, KeyCooling
<1>8. /\ \A m \in Nodes \ {n} : sess'[m] = sess[m] /\ installed'[m] = installed[m]
      /\ installed[n] \subseteq installed'[n] /\ installed'[n] \subseteq installed[n] \cup {key}
      /\ \/ sess'[n] = sess[n]
         \/ /\ sess'[n].key = key /\ sess'[n].prev = sess[n].key /\ sess'[n].addr = p.src
            /\ key \in installed'[n]
  BY <1>1, SessionInitSpec DEF Inv
<1>9. AddressInv'
  BY <1>1, <1>2, <1>3, <1>6, <1>8 DEF Inv, AddressInv, AddressesFixed
<1>10. AnswerMeansSession'
  <2>1. \A q \in net : q.src[1] \in Nodes
    BY PacketSpec, Zenon DEF Inv, Address
  <2>2. AddressesFixed => key \in installed'[n]
    BY <1>7, SessionInitSpec DEF Inv
  <2> QED BY <1>1, <1>2, <1>6, <1>8, <2>1, <2>2, Zenon DEF Inv, AnswerMeansSession, AddressesFixed
<1>11. stale' = 0 => /\ stale = 0 /\ precomp'[n] = precomp[n] + 1
                     /\ \A m \in Nodes \ {n} : precomp'[m] = precomp[m]
  <2>1. stale \in Nat
    BY DEF Inv, TypeOK
  <2> QED BY <1>1, <2>1 DEF RefreshPrecomp, Inv, TypeOK
<1>12. ~Used(key)
  BY <1>2, <1>3, <1>4 DEF Used
<1>13. ASSUME stale' = 0 PROVE KeysUsed' /\ NumbersUsed'
  <2>1. KeysUsed /\ NumbersUsed
    BY <1>11, <1>13, Zenon DEF Inv
  <2>2. \A k \in Key : Used(k) => Used(k)'
    <3>1. \A m \in Nodes : precomp[m] \in Nat /\ inits[m] \in Nat
      BY DEF Inv, TypeOK
    <3> QED BY <1>1, <1>11, <1>13, <3>1, UsedStays DEF Inv
  <2>3. Used(key)'
    <3>1. p.ce < inits[Peer(n)]
      BY <1>4, <1>6, <2>1, Zenon DEF KeysUsed
    <3> QED BY <1>1, <1>2, <1>3, <1>4, <1>11, <1>13, <3>1 DEF Used
  <2>4. \A m \in Nodes : key \notin installed[m] /\ installed[m] \subseteq Key
    BY <1>12, <2>1, Zenon DEF KeysUsed, Inv, TypeOK
  <2>5. \A m \in Nodes : \A k \in installed'[m] : Used(k)'
    BY <1>8, <2>1, <2>2, <2>3, <2>4 DEF KeysUsed
  <2>6. \A m \in Nodes : /\ {sess'[m].key, sess'[m].prev} \subseteq installed'[m] \cup {NoKey}
                         /\ sess'[m].prev # NoKey => sess'[m].key \notin {NoKey, sess'[m].prev}
    BY <1>5, <1>8, <2>1, <2>4, NoKeySpec DEF KeysUsed
  <2>7. \A m \in Nodes : pend'[m].active =>
          /\ pend'[m].ce < inits'[m]
          /\ \A k \in installed'[m] : ~(k.client = m /\ k.ce = pend'[m].ce)
    BY <1>1, <1>2, <1>3, <1>8, <2>1 DEF KeysUsed
  <2>8. ASSUME NEW q \in net'
        PROVE  /\ q.type = "init" => q.ce < inits'[q.src[1]]
               /\ q.type = "resp" => Used(q.key)' /\ q.key.client = Peer(q.src[1])
               /\ q.type = "data" => q.key \in installed'[q.src[1]]
    <3>1. CASE q \in net
      <4>1. q.src[1] \in Nodes /\ (q.type = "resp" => q.key \in Key)
        BY <3>1, PacketSpec, Zenon DEF Inv, Address
      <4> QED BY <1>1, <1>8, <2>1, <2>2, <3>1, <4>1, Zenon DEF KeysUsed
    <3>2. CASE q = pkt
      BY <1>2, <1>6, <2>3, <3>2, Zenon
    <3> QED BY <1>1, <2>8, <3>1, <3>2, Zenon
  <2>9. KeysUsed'
    BY <2>5, <2>6, <2>7, <2>8, Zenon DEF KeysUsed
  <2>10. NumbersUsed'
    <3>1. \A q \in net' : q \in net \/ q.type # "data"
      BY <1>1, <1>2, Zenon
    <3>2. CASE SessionInit(n, key, p.src)
      BY <1>1, <2>1, <2>4, <3>1, <3>2, NumbersFresh, Zenon DEF Inv
    <3>3. CASE UNCHANGED <<sess, installed>>
      BY <1>1, <2>1, <3>1, <3>3, Zenon DEF NumbersUsed
    <3> QED BY <1>1, <3>2, <3>3, Zenon
  <2> QED BY <2>9, <2>10, Zenon
<1>14. ASSUME stale' = 0, AddressesFixed' PROVE SwitchInv'
  <2>1. SwitchInv /\ KeysUsed /\ ~pend[n].active /\ SessionInit(n, key, p.src)
    BY <1>1, <1>7, <1>11, <1>14, Zenon DEF Inv, AddressesFixed
  <2>2. sess'[n].key = key /\ sess'[n].prev = sess[n].key
    BY <2>1, SessionInitSpec, Zenon DEF Inv
  <2>3. key \notin installed[Peer(n)] /\ key # NoKey
    BY <1>3, <1>5, <1>12, <2>1, NoKeySpec, Zenon DEF KeysUsed
  <2>4. \A k \in Key : ~Answered(n, k)'
    BY <1>1, <2>1, Zenon DEF Answered
  <2>5. \A m \in Nodes, k, l \in Key : ~(Answered(m, k)' /\ Answered(Peer(m), l)')
    BY <1>3, <2>4, Zenon
  <2>6. {sess[Peer(n)].key, sess[Peer(n)].prev} \subseteq installed[Peer(n)] \cup {NoKey}
    BY <1>3, <2>1, Zenon DEF KeysUsed
  <2>7. \A m \in Nodes, k \in Key : Answered(m, k)' =>
          /\ sess'[m].key # NoKey => sess'[Peer(m)].key # sess'[m].key
          /\ sess'[Peer(m)].prev = k => sess'[Peer(m)].key \notin installed'[m]
    BY <1>3, <1>8, <2>2, <2>3, <2>4, <2>6, Zenon
  <2>8. \A m \in Nodes :
          sess'[m].prev # NoKey /\ sess'[m].key \in installed'[Peer(m)]
            => sess'[Peer(m)].key # sess'[m].prev
    BY <1>3, <1>8, <2>2, <2>3, <2>6, Zenon
  <2> QED BY <2>5, <2>7, <2>8, Zenon DEF SwitchInv
<1> QED BY <1>9, <1>10, <1>13, <1>14, Zenon DEF Inv

-----------------------------------------------------------------------------
(* Steps that send nothing and install no key.                              *)

(* A node keeps its key, its previous key and its addresses, or loses them. *)
LEMMA QuietStep ==
    ASSUME Inv, TypeOK', FaultsInv',
           UNCHANGED <<inits, net, stale, installed>>,
           \A m \in Nodes :
              /\ precomp[m] <= precomp'[m] /\ addr'[m][1] = m
              /\ sess'[m].key \in {sess[m].key, NoKey}
              /\ sess'[m].prev \in {sess[m].prev, NoKey}
              /\ sess'[m].key = sess[m].key \/ sess'[m].prev = NoKey
              /\ sess'[m].addr \in {sess[m].addr, <<Peer(m), 0>>}
              /\ pend'[m] \in {pend[m], NoPending(m)},
           AddressesFixed' => AddressesFixed,
           stale = 0 => NumbersUsed'
    PROVE  Inv'
<1>1. AddressInv'
  BY PeerSpec DEF Inv, AddressInv, NoPending
<1>2. AnswerMeansSession'
  BY Zenon DEF Inv, AnswerMeansSession
<1>3. ASSUME stale = 0 PROVE KeysUsed'
  <2>1. \A k \in Key : Used(k) => Used(k)'
    BY PeerSpec DEF Used, Key, Inv, TypeOK
  <2>2. \A n \in Nodes : installed[n] \subseteq Key
    BY Zenon DEF Inv, TypeOK
  <2>3. \A n \in Nodes : \A k \in installed'[n] : Used(k)'
    BY <1>3, <2>1, <2>2, Zenon DEF Inv, KeysUsed
  <2>4. \A n \in Nodes : /\ {sess'[n].key, sess'[n].prev} \subseteq installed'[n] \cup {NoKey}
                         /\ sess'[n].prev # NoKey => sess'[n].key \notin {NoKey, sess'[n].prev}
    BY <1>3 DEF Inv, KeysUsed
  <2>5. \A n \in Nodes : pend'[n].active =>
          /\ pend'[n].ce < inits'[n]
          /\ \A k \in installed'[n] : ~(k.client = n /\ k.ce = pend'[n].ce)
    BY <1>3 DEF Inv, KeysUsed, NoPending
  <2>6. ASSUME NEW p \in net'
        PROVE  /\ p.type = "init" => p.ce < inits'[p.src[1]]
               /\ p.type = "resp" => Used(p.key)' /\ p.key.client = Peer(p.src[1])
               /\ p.type = "data" => p.key \in installed'[p.src[1]]
    BY <1>3, <2>1, <2>6, PacketSpec, Zenon DEF Inv, KeysUsed
  <2> QED BY <2>3, <2>4, <2>5, <2>6, Zenon DEF KeysUsed
<1>4. ASSUME stale = 0, AddressesFixed' PROVE SwitchInv'
  <2>1. \A n \in Nodes, k \in Key : Answered(n, k)' => Answered(n, k)
    BY DEF Answered, NoPending
  <2> QED BY <1>4, <2>1, SwitchQuiet, Zenon DEF Inv
<1> QED BY <1>1, <1>2, <1>3, <1>4, Zenon DEF Inv

(* Handshakes that end without a session, deadlines, restarts, and changes  *)
(* of address.                                                              *)
LEMMA QuietActions ==
    ASSUME Inv, TypeOK', FaultsInv', NEW n \in Nodes,
           \/ GiveUp(n) \/ CooldownEnds(n) \/ GraceEnds(n) \/ Expire(n)
           \/ Restart(n) \/ Rebind(n)
    PROVE  Inv'
<1>1. \A m \in Nodes : /\ sess[m] \in NodeSession /\ addr[m] \in Address
                       /\ precomp[m] \in Nat
                       /\ FreeSlot(m).key = NoKey /\ FreeSlot(m).prev = NoKey
                       /\ FreeSlot(m).addr = <<Peer(m), 0>>
  BY DEF Inv, TypeOK, FreeSlot
<1>2. UNCHANGED <<inits, net, stale, installed, delivered, repeated>>
  BY Zenon DEF GiveUp, CooldownEnds, GraceEnds, Expire, Restart, Rebind, histVars
<1>3. \A m \in Nodes :
         /\ precomp[m] <= precomp'[m]
         /\ pend'[m] \in {pend[m], NoPending(m)}
  BY <1>1 DEF GiveUp, CooldownEnds, GraceEnds, Expire, Restart, Rebind, Inv, TypeOK
<1>4. \A m \in Nodes : \/ sess'[m] = FreeSlot(m)
                       \/ /\ sess'[m].key = sess[m].key
                          /\ sess'[m].prev \in {sess[m].prev, NoKey}
                          /\ sess'[m].addr = sess[m].addr
                          /\ sess'[m].seen = sess[m].seen
                          /\ sess'[m].sendSeq = sess[m].sendSeq
  <2>1. CASE GiveUp(n) \/ Rebind(n)
    BY <2>1, Zenon DEF GiveUp, Rebind
  <2>2. CASE CooldownEnds(n)
    BY <1>1, <2>2 DEF CooldownEnds, Inv, TypeOK, NodeSession
  <2>3. CASE GraceEnds(n)
    BY <1>1, <2>3 DEF GraceEnds, Inv, TypeOK, NodeSession
  <2>4. CASE Expire(n) \/ Restart(n)
    <3>1. DOMAIN sess = Nodes
      BY DEF Inv, TypeOK
    <3>2. sess' = [sess EXCEPT ![n] = FreeSlot(n)]
      BY <2>4, Zenon DEF Expire, Restart
    <3> QED BY <3>1, <3>2
  <2> QED BY <2>1, <2>2, <2>3, <2>4, Zenon
<1>5. /\ \A m \in Nodes : addr'[m][1] = m
      /\ AddressesFixed' => AddressesFixed
  <2>1. CASE Rebind(n)
    <3>1. addr'[n] = [addr[n] EXCEPT ![2] = addr[n][2] + 1]
          /\ \A m \in Nodes \ {n} : addr'[m] = addr[m]
      BY <2>1, Zenon DEF Rebind, Inv, TypeOK
    <3>2. addr[n] = <<n, addr[n][2]>> /\ addr[n][2] \in Nat
      BY <1>1 DEF Address, Inv, AddressInv
    <3>3. addr'[n] = <<n, addr[n][2] + 1>>
      BY <3>1, <3>2
    <3>4. ~AddressesFixed'
      BY <3>2, <3>3 DEF AddressesFixed
    <3> QED BY <3>1, <3>3, <3>4 DEF Inv, AddressInv
  <2>2. CASE UNCHANGED addr
    BY <2>2, Zenon DEF AddressesFixed, Inv, AddressInv
  <2> QED BY <2>1, <2>2, Zenon DEF GiveUp, CooldownEnds, GraceEnds, Expire, Restart
<1>6. ASSUME stale = 0 PROVE NumbersUsed'
  <2>1. NumbersUsed /\ KeysUsed
    BY <1>6, Zenon DEF Inv
  <2>2. \A m \in Nodes : NoKey \notin installed[m]
    BY NoKeySpec, Zenon DEF Inv, TypeOK
  <2>3. ASSUME NEW m \in Nodes, NEW d \in delivered'[m]
        PROVE  d[1] \in installed'[m] /\ (d[1] = sess'[m].key => d[2] \in sess'[m].seen)
    BY <1>1, <1>2, <1>4, <2>1, <2>2 DEF NumbersUsed
  <2>4. ASSUME NEW p \in net', p.type = "data", p.key = sess'[p.src[1]].key
        PROVE  p.seq < sess'[p.src[1]].sendSeq
    <3>1. p.src[1] \in Nodes /\ p.key \in installed[p.src[1]]
      BY <1>2, <2>1, <2>4, PacketSpec, Zenon DEF Inv, KeysUsed, Address
    <3> QED BY <1>1, <1>2, <1>4, <2>1, <2>2, <2>4, <3>1 DEF NumbersUsed
  <2> QED BY <1>2, <2>1, <2>3, <2>4, Zenon DEF NumbersUsed
<1>7. \A m \in Nodes :
         /\ sess'[m].key \in {sess[m].key, NoKey}
         /\ sess'[m].prev \in {sess[m].prev, NoKey}
         /\ sess'[m].key = sess[m].key \/ sess'[m].prev = NoKey
         /\ sess'[m].addr \in {sess[m].addr, <<Peer(m), 0>>}
  BY <1>1, <1>4, Zenon
<1> QED BY <1>2, <1>3, <1>5, <1>6, <1>7, QuietStep, Zenon

(* A packet under the current key: it is in the window from now on. *)
LEMMA CurrentStep ==
    ASSUME Inv, TypeOK', FaultsInv', NEW n \in Nodes, NEW p \in net, RecvCurrent(n, p)
    PROVE  Inv'
<1>1. /\ p.type = "data" /\ p.key \in Key /\ p.seq \in 0 .. MaxSeq - 1
      /\ p.key = sess[n].key
  BY PacketSpec, Zenon DEF Inv, RecvCurrent, ForSession, Arrives
<1>2. UNCHANGED <<addr, pend, inits, precomp, net, faults, stale, installed>>
  BY Zenon DEF RecvCurrent
<1>3. /\ \A m \in Nodes \ {n} : sess'[m] = sess[m]
      /\ sess'[n].key = sess[n].key /\ sess'[n].prev = NoKey
      /\ sess'[n].addr = sess[n].addr /\ sess'[n].sendSeq = sess[n].sendSeq
      /\ sess'[n].seen = sess[n].seen \cup {p.seq}
  <2>1. sess[n] \in NodeSession
    BY Zenon DEF Inv, TypeOK
  <2> QED BY <2>1 DEF RecvCurrent, Inv, TypeOK, NodeSession
<1>4. ASSUME stale = 0 PROVE NumbersUsed'
  <2>1. NumbersUsed /\ KeysUsed
    BY <1>4, Zenon DEF Inv
  <2>2. p.seq \notin sess[n].seen => <<p.key, p.seq>> \notin delivered[n]
    BY <1>1, <2>1, Zenon DEF NumbersUsed
  <2>6. ~repeated'
    BY <2>1, <2>2, Zenon DEF RecvCurrent, NumbersUsed
  <2>7. \A m \in Nodes : \A d \in delivered'[m] :
          d \in delivered[m] \/ (m = n /\ d = <<p.key, p.seq>>)
    <3>1. delivered \in [Nodes -> SUBSET (Key \X (0 .. MaxSeq - 1))]
      BY Zenon DEF Inv, TypeOK
    <3>2. delivered' \in {delivered, [delivered EXCEPT ![n] = @ \cup {<<p.key, p.seq>>}]}
      BY Zenon DEF RecvCurrent
    <3>3. \A m \in Nodes : \/ delivered'[m] = delivered[m]
                           \/ m = n /\ delivered'[m] = delivered[m] \cup {<<p.key, p.seq>>}
      BY <3>1, <3>2, Zenon
    <3> QED BY <3>3
  <2>3. p.key \in installed[n]
    BY <1>1, <2>1, NoKeySpec, Zenon DEF KeysUsed
  <2>4. ASSUME NEW m \in Nodes, NEW d \in delivered'[m]
        PROVE  d[1] \in installed'[m] /\ (d[1] = sess'[m].key => d[2] \in sess'[m].seen)
    <3>1. CASE d \in delivered[m]
      BY <1>2, <1>3, <2>1, <3>1 DEF NumbersUsed
    <3>2. CASE m = n /\ d = <<p.key, p.seq>>
      BY <1>1, <1>2, <1>3, <2>3, <3>2, Zenon
    <3> QED BY <2>4, <2>7, <3>1, <3>2, Zenon
  <2>5. \A q \in net' : q.type = "data" /\ q.key = sess'[q.src[1]].key =>
          q.seq < sess'[q.src[1]].sendSeq
    <3>1. \A q \in net : q.src[1] \in Nodes
      BY PacketSpec, Zenon DEF Inv, Address
    <3> QED BY <1>2, <1>3, <2>1, <3>1 DEF NumbersUsed
  <2> QED BY <2>4, <2>5, <2>6, Zenon DEF NumbersUsed
<1>5. /\ AddressesFixed' => AddressesFixed
      /\ \A m \in Nodes : precomp[m] <= precomp'[m] /\ addr'[m][1] = m /\ pend'[m] = pend[m]
  BY <1>2 DEF AddressesFixed, Inv, AddressInv, TypeOK
<1> QED BY <1>2, <1>3, <1>4, <1>5, QuietStep, Zenon

(* forward_to_peer: one more packet under the key of the session. *)
LEMMA SendStep ==
    ASSUME Inv, TypeOK', FaultsInv', NEW n \in Nodes, Send(n)
    PROVE  Inv'
<1> DEFINE pkt == [type |-> "data", src |-> addr[n], dst |-> sess[n].addr,
                   key |-> sess[n].key, seq |-> sess[n].sendSeq]
<1>1. /\ net' = net \cup {pkt}
      /\ UNCHANGED <<addr, pend, inits, precomp, faults, stale, histVars>>
  BY Zenon DEF Send
<1>2. /\ \A m \in Nodes \ {n} : sess'[m] = sess[m]
      /\ sess'[n].key = sess[n].key /\ sess'[n].prev = sess[n].prev
      /\ sess'[n].addr = sess[n].addr /\ sess'[n].seen = sess[n].seen
      /\ sess'[n].sendSeq = sess[n].sendSeq + 1 /\ sess[n].sendSeq \in Nat
  <2>1. sess[n] \in NodeSession
    BY Zenon DEF Inv, TypeOK
  <2> QED BY <2>1 DEF Send, Inv, TypeOK, NodeSession
<1>3. pkt.type = "data" /\ pkt.src = addr[n] /\ pkt.dst = sess[n].addr
      /\ pkt.key = sess[n].key /\ pkt.seq = sess[n].sendSeq
  BY Zenon
<1> HIDE DEF pkt
<1>4. addr[n][1] = n /\ Peer(n) \in Nodes /\ sess[n].key # NoKey
  BY PeerSpec, Zenon DEF Inv, AddressInv, Send, TypeOK
<1>5. AddressInv'
  BY <1>1, <1>2, <1>3, <1>4 DEF Inv, AddressInv, AddressesFixed
<1>6. AnswerMeansSession'
  BY <1>1, <1>3, Zenon DEF Inv, AnswerMeansSession, AddressesFixed, histVars
<1>7. ASSUME stale = 0 PROVE KeysUsed' /\ NumbersUsed'
  <2>1. KeysUsed /\ NumbersUsed
    BY <1>7, Zenon DEF Inv
  <2>2. \A k : Used(k)' <=> Used(k)
    BY <1>1, Zenon DEF Used
  <2>3. pkt.key \in installed[n]
    BY <1>3, <1>4, <2>1, ZenonT(60) DEF KeysUsed
  <2>4. KeysUsed'
    <3>1. \A m \in Nodes : /\ sess'[m].key = sess[m].key /\ sess'[m].prev = sess[m].prev
                          /\ installed'[m] = installed[m] /\ pend'[m] = pend[m]
                          /\ inits'[m] = inits[m]
      BY <1>1, <1>2, Zenon DEF histVars
    <3>2. \A p \in net' :
            p \in net \/ (p.type = "data" /\ p.src[1] \in Nodes /\ p.key \in installed[p.src[1]])
      BY <1>1, <1>3, <1>4, <2>3, Zenon
    <3>3. \A p \in net : p.src[1] \in Nodes
      BY PacketSpec DEF Inv, Address
    <3> QED BY <2>1, <2>2, <3>1, <3>2, <3>3 DEF KeysUsed
  <2>5. \A p \in net : p.src[1] \in Nodes /\ (p.type = "data" => p.seq \in Nat)
    BY PacketSpec DEF Inv, Address
  <2>6. ASSUME NEW p \in net', p.type = "data", p.key = sess'[p.src[1]].key
        PROVE  p.seq < sess'[p.src[1]].sendSeq
    <3>1. CASE p \in net
      BY <1>2, <2>1, <2>5, <2>6, <3>1 DEF NumbersUsed
    <3>2. CASE p = pkt
      BY <1>2, <1>3, <1>4, <3>2
    <3> QED BY <1>1, <2>6, <3>1, <3>2, Zenon
  <2>7. NumbersUsed'
    BY <1>1, <1>2, <2>1, <2>6, ZenonT(60) DEF NumbersUsed, histVars
  <2> QED BY <2>4, <2>7, Zenon
<1>8. ASSUME stale = 0, AddressesFixed' PROVE SwitchInv'
  <2>1. SwitchInv
    BY <1>1, <1>8, Zenon DEF Inv, AddressesFixed
  <2>2. \A m \in Nodes, k \in Key : Answered(m, k)' => Answered(m, k)
    BY <1>1, <1>3, Zenon DEF Answered
  <2> QED BY <1>1, <1>2, <2>1, <2>2, SwitchQuiet, Zenon DEF Inv, histVars
<1> QED BY <1>1, <1>5, <1>6, <1>7, <1>8, Zenon DEF Inv

-----------------------------------------------------------------------------
(* Types.                                                                   *)

LEMMA InitTyped == Init => TypeOK /\ FaultsInv
<1> SUFFICES ASSUME Init PROVE TypeOK /\ FaultsInv
  BY Zenon
<1>1. addr \in [Nodes -> Address]
  BY DEF Init, Address
<1>2. /\ sess \in [Nodes -> NodeSession] /\ \A n \in Nodes : sess[n].active <=> sess[n].key # NoKey
      /\ pend \in [Nodes -> [active : BOOLEAN, ce : 0 .. MaxInits - 1, addr : Address]]
  BY FreeSpec, Zenon DEF Init, FreeSlot
<1>3. inits \in [Nodes -> 0 .. MaxInits] /\ precomp \in [Nodes -> 0 .. MaxPairs - 1]
  BY DEF Init
<1>4. /\ net \subseteq InitPacket \cup RespPacket \cup DataPacket
      /\ faults \in 0 .. MaxFaults /\ stale \in 0 .. MaxFaults
      /\ installed \in [Nodes -> SUBSET Key]
  BY DEF Init
<1>5. repeated \in BOOLEAN /\ delivered \in [Nodes -> SUBSET (Key \X (0 .. MaxSeq - 1))]
  BY Zenon DEF Init
<1>6. FaultsInv
  BY DEF Init, FaultsInv
<1> QED BY <1>1, <1>2, <1>3, <1>4, <1>5, <1>6, Zenon DEF TypeOK

(* session_init keeps the types of the table. *)
LEMMA SessionInitTyped ==
    ASSUME TypeOK, NEW n \in Nodes, NEW key \in Key, NEW src \in Address, SessionInit(n, key, src)
    PROVE  /\ sess' \in [Nodes -> NodeSession]
           /\ \A m \in Nodes : sess'[m].active <=> sess'[m].key # NoKey
           /\ installed' \in [Nodes -> SUBSET Key]
<1> DEFINE new == [active |-> TRUE, addr |-> src, key |-> key, prev |-> sess[n].key,
                   cooling |-> TRUE, sendSeq |-> 0, seen |-> {}]
<1>1. new \in NodeSession /\ new.active /\ new.key # NoKey
  BY NoKeySpec, NodeSpec DEF NodeSession
<1>2. sess' = [sess EXCEPT ![n] = new]
  BY Zenon DEF SessionInit
<1> HIDE DEF new
<1>3. sess' \in [Nodes -> NodeSession]
  BY <1>1, <1>2, Zenon DEF TypeOK
<1>4. \A m \in Nodes : sess'[m].active <=> sess'[m].key # NoKey
  BY <1>1, <1>2, Zenon DEF TypeOK
<1>5. installed' \in [Nodes -> SUBSET Key]
  BY Zenon DEF SessionInit, TypeOK
<1> QED BY <1>3, <1>4, <1>5, Zenon

(* Every step keeps the types. *)
LEMMA TypeStep ==
    ASSUME TypeOK, FaultsInv, NEW n \in Nodes
    PROVE  /\ Initiate(n) => TypeOK' /\ FaultsInv'
           /\ GiveUp(n) => TypeOK' /\ FaultsInv'
           /\ Send(n) => TypeOK' /\ FaultsInv'
           /\ CooldownEnds(n) \/ GraceEnds(n) \/ Expire(n) => TypeOK' /\ FaultsInv'
           /\ Restart(n) => TypeOK' /\ FaultsInv'
           /\ Rebind(n) => TypeOK' /\ FaultsInv'
           /\ \A p \in net : RecvAnswer(n, p) => TypeOK' /\ FaultsInv'
           /\ \A p \in net : RecvInitiation(n, p) => TypeOK' /\ FaultsInv'
           /\ \A p \in net : RecvCurrent(n, p) => TypeOK' /\ FaultsInv'
<1>0. /\ faults \in 0 .. MaxFaults /\ stale \in 0 .. MaxFaults
      /\ \A m \in Nodes : addr[m] \in Address /\ addr[m][2] <= faults
  BY Zenon DEF TypeOK, FaultsInv
<1>1. ASSUME Initiate(n) PROVE TypeOK' /\ FaultsInv'
  <2> DEFINE pkt == [type |-> "init", src |-> addr[n], dst |-> addr[Peer(n)], ce |-> inits[n]]
             new == [active |-> TRUE, ce |-> inits[n], addr |-> addr[Peer(n)]]
  <2>1. inits[n] \in 0 .. MaxInits - 1 /\ inits[n] + 1 \in 0 .. MaxInits
    BY <1>1, PeerSpec, NodeSpec DEF Initiate
  <2>2. pkt \in InitPacket /\ new \in [active : BOOLEAN, ce : 0 .. MaxInits - 1, addr : Address]
    BY <2>1, PeerSpec, NodeSpec, Zenon DEF InitPacket
  <2>3. net' = net \cup {pkt} /\ pend' = [pend EXCEPT ![n] = new]
        /\ inits' = [inits EXCEPT ![n] = inits[n] + 1]
        /\ UNCHANGED <<addr, sess, precomp, faults, stale, histVars>>
    BY <1>1, Zenon DEF Initiate, HandshakeClientSend, TypeOK
  <2> HIDE DEF pkt, new
  <2> QED BY <2>1, <2>2, <2>3, Zenon DEF TypeOK, FaultsInv, histVars
<1>2. ASSUME GiveUp(n) PROVE TypeOK' /\ FaultsInv'
  BY <1>2, FreeSpec, Zenon DEF GiveUp, TypeOK, FaultsInv, histVars
<1>3. ASSUME Send(n) PROVE TypeOK' /\ FaultsInv'
  <2> DEFINE pkt == [type |-> "data", src |-> addr[n], dst |-> sess[n].addr,
                     key |-> sess[n].key, seq |-> sess[n].sendSeq]
             new == [sess[n] EXCEPT !.sendSeq = sess[n].sendSeq + 1]
  <2>1. sess[n].key \in Key /\ sess[n].addr \in Address /\ sess[n].sendSeq \in 0 .. MaxSeq - 1
    BY <1>3, NodeSpec DEF Send, NodeSession
  <2>2. pkt \in DataPacket
    BY <2>1, NodeSpec, Zenon DEF DataPacket
  <2>3. new \in NodeSession /\ new.active = sess[n].active /\ new.key = sess[n].key
    BY <2>1, NodeSpec DEF NodeSession
  <2>4. net' = net \cup {pkt} /\ sess' = [sess EXCEPT ![n] = new]
        /\ UNCHANGED <<addr, pend, inits, precomp, faults, stale, histVars>>
    BY <1>3, Zenon DEF Send, TypeOK
  <2> HIDE DEF pkt, new
  <2> QED BY <2>2, <2>3, <2>4, Zenon DEF TypeOK, FaultsInv, histVars
<1>4. ASSUME CooldownEnds(n) \/ GraceEnds(n) \/ Expire(n) PROVE TypeOK' /\ FaultsInv'
  <2>1. PICK new \in NodeSession : sess' = [sess EXCEPT ![n] = new]
                                   /\ (new.active <=> new.key # NoKey)
    <3>1. CASE CooldownEnds(n)
      <4>1. [sess[n] EXCEPT !.cooling = FALSE] \in NodeSession
        BY NodeSpec, Zenon DEF NodeSession
      <4> QED BY <3>1, <4>1, NodeSpec, Zenon DEF CooldownEnds, TypeOK, NodeSession
    <3>2. CASE GraceEnds(n)
      <4>1. [sess[n] EXCEPT !.prev = NoKey] \in NodeSession
        BY NodeSpec, Zenon DEF NodeSession
      <4> QED BY <3>2, <4>1, NodeSpec, Zenon DEF GraceEnds, TypeOK, NodeSession
    <3>3. CASE Expire(n)
      BY <3>3, FreeSpec, ZenonT(60) DEF Expire, FreeSlot
    <3> QED BY <1>4, <3>1, <3>2, <3>3, Zenon
  <2>2. UNCHANGED <<addr, pend, inits, precomp, net, faults, stale, histVars>>
    BY <1>4, Zenon DEF CooldownEnds, GraceEnds, Expire
  <2> QED BY <2>1, <2>2, Zenon DEF TypeOK, FaultsInv, histVars
<1>5. ASSUME Restart(n) PROVE TypeOK' /\ FaultsInv'
  <2>1. precomp[n] + 1 \in 0 .. MaxPairs - 1 /\ faults + 1 \in 0 .. MaxFaults
    BY <1>0, <1>5, NodeSpec DEF Restart
  <2>2. /\ sess' \in [Nodes -> NodeSession]
        /\ \A m \in Nodes : sess'[m].active <=> sess'[m].key # NoKey
    BY <1>5, FreeSpec, Zenon DEF Restart, TypeOK, FreeSlot
  <2>3. pend' \in [Nodes -> [active : BOOLEAN, ce : 0 .. MaxInits - 1, addr : Address]]
    BY <1>5, FreeSpec, Zenon DEF Restart, TypeOK
  <2>4. precomp' \in [Nodes -> 0 .. MaxPairs - 1]
    BY <1>5, <2>1, Zenon DEF Restart, TypeOK
  <2>5. FaultsInv'
    BY <1>0, <1>5 DEF Restart, FaultsInv, Address
  <2> QED BY <1>5, <2>1, <2>2, <2>3, <2>4, <2>5, Zenon DEF Restart, TypeOK, histVars
<1>6. ASSUME Rebind(n) PROVE TypeOK' /\ FaultsInv'
  <2>1. addr' = [addr EXCEPT ![n] = <<addr[n][1], addr[n][2] + 1>>]
    <3>1. addr[n] = <<addr[n][1], addr[n][2]>>
      BY NodeSpec DEF Address
    <3>2. [addr[n] EXCEPT ![2] = addr[n][2] + 1] = <<addr[n][1], addr[n][2] + 1>>
      BY <3>1
    <3>3. addr' = [addr EXCEPT ![n] = [addr[n] EXCEPT ![2] = addr[n][2] + 1]]
      BY <1>6, Zenon DEF Rebind
    <3> QED BY <3>2, <3>3, Zenon
  <2>2. <<addr[n][1], addr[n][2] + 1>> \in Address /\ faults + 1 \in 0 .. MaxFaults
    BY <1>0, <1>6, NodeSpec DEF Rebind, Address
  <2>3. addr' \in [Nodes -> Address]
    BY <2>1, <2>2, Zenon DEF TypeOK
  <2>4. FaultsInv'
    BY <1>0, <1>6, <2>1 DEF Rebind, FaultsInv, TypeOK, Address
  <2> QED BY <1>6, <2>2, <2>3, <2>4, Zenon DEF Rebind, TypeOK, histVars
<1>7. ASSUME NEW p \in net, RecvAnswer(n, p) PROVE TypeOK' /\ FaultsInv'
  <2>1. p.key \in Key /\ p.src \in Address
    BY <1>7, PacketSpec, Zenon DEF RecvAnswer, Arrives
  <2>2. SessionInit(n, p.key, p.src) /\ pend' = [pend EXCEPT ![n] = NoPending(n)]
        /\ UNCHANGED <<addr, inits, precomp, net, faults, stale, delivered, repeated>>
    BY <1>7, Zenon DEF RecvAnswer
  <2>3. pend' \in [Nodes -> [active : BOOLEAN, ce : 0 .. MaxInits - 1, addr : Address]]
    BY <2>2, FreeSpec, Zenon DEF TypeOK
  <2> QED BY <2>1, <2>2, <2>3, SessionInitTyped, Zenon DEF TypeOK, FaultsInv
<1>8. ASSUME NEW p \in net, RecvInitiation(n, p) PROVE TypeOK' /\ FaultsInv'
  <2> DEFINE key == [client |-> Peer(n), ce |-> p.ce, se |-> precomp[n]]
             pkt == [type |-> "resp", src |-> addr[n], dst |-> p.src, key |-> key]
  <2>1. key \in Key /\ p.src \in Address
    BY <1>8, PacketSpec, PeerSpec, NodeSpec, ZenonT(60) DEF RecvInitiation, Arrives, Key
  <2>2. pkt \in RespPacket
    BY <2>1, NodeSpec, Zenon DEF RespPacket
  <2>3. /\ net' = net \cup {pkt} /\ RefreshPrecomp(n)
        /\ (UNCHANGED <<sess, installed>> \/ SessionInit(n, key, p.src))
        /\ UNCHANGED <<addr, pend, inits, delivered, repeated>>
    BY <1>8, Zenon DEF RecvInitiation, HandshakeServerRespond
  <2> HIDE DEF key, pkt
  <2>4. /\ sess' \in [Nodes -> NodeSession]
        /\ \A m \in Nodes : sess'[m].active <=> sess'[m].key # NoKey
        /\ installed' \in [Nodes -> SUBSET Key]
    BY <2>1, <2>3, SessionInitTyped, Zenon DEF TypeOK
  <2>5. /\ precomp' \in [Nodes -> 0 .. MaxPairs - 1]
        /\ faults' \in 0 .. MaxFaults /\ stale' \in 0 .. MaxFaults /\ FaultsInv'
    <3>1. CASE precomp' = [precomp EXCEPT ![n] = @ + 1] /\ UNCHANGED <<faults, stale>>
      <4>1. precomp[n] + 1 \in 0 .. MaxPairs - 1
        BY <1>0, <2>3, NodeSpec DEF RefreshPrecomp
      <4> QED BY <2>3, <3>1, <4>1, Zenon DEF TypeOK, FaultsInv
    <3>2. CASE faults < MaxFaults /\ faults' = faults + 1 /\ stale' = stale + 1
               /\ UNCHANGED precomp
      <4>1. FaultsInv'
        BY <1>0, <2>3, <3>2 DEF FaultsInv, Address
      <4> QED BY <1>0, <3>2, <4>1 DEF TypeOK, FaultsInv
    <3> QED BY <2>3, <3>1, <3>2, Zenon DEF RefreshPrecomp
  <2>6. net' \subseteq InitPacket \cup RespPacket \cup DataPacket
    BY <2>2, <2>3, Zenon DEF TypeOK
  <2> QED BY <2>3, <2>4, <2>5, <2>6, Zenon DEF TypeOK
<1>9. ASSUME NEW p \in net, RecvCurrent(n, p) PROVE TypeOK' /\ FaultsInv'
  <2> DEFINE new == [sess[n] EXCEPT !.prev = NoKey, !.seen = sess[n].seen \cup {p.seq}]
  <2>1. p.key \in Key /\ p.seq \in 0 .. MaxSeq - 1
    BY <1>9, PacketSpec, Zenon DEF RecvCurrent, ForSession, Arrives
  <2>2. new \in NodeSession /\ new.active = sess[n].active /\ new.key = sess[n].key
    BY <2>1, NodeSpec, Zenon DEF NodeSession
  <2>3. sess' = [sess EXCEPT ![n] = new]
        /\ UNCHANGED <<addr, pend, inits, precomp, net, faults, stale, installed>>
    BY <1>9, Zenon DEF RecvCurrent, TypeOK
  <2>4. /\ delivered' \in [Nodes -> SUBSET (Key \X (0 .. MaxSeq - 1))]
        /\ repeated' \in BOOLEAN
    <3>1. delivered' \in {delivered, [delivered EXCEPT ![n] = @ \cup {<<p.key, p.seq>>}]}
      BY <1>9, Zenon DEF RecvCurrent
    <3>2. delivered' \in [Nodes -> SUBSET (Key \X (0 .. MaxSeq - 1))]
      BY <2>1, <3>1 DEF TypeOK
    <3>3. repeated' \in BOOLEAN
      BY <1>9, Zenon DEF RecvCurrent, TypeOK
    <3> QED BY <3>2, <3>3, Zenon
  <2> HIDE DEF new
  <2> QED BY <2>2, <2>3, <2>4, Zenon DEF TypeOK, FaultsInv
<1> QED BY <1>1, <1>2, <1>3, <1>4, <1>5, <1>6, <1>7, <1>8, <1>9, Zenon

-----------------------------------------------------------------------------
(* The theorems.                                                            *)

LEMMA InitInv == Init => Inv
<1> SUFFICES ASSUME Init PROVE Inv
  BY Zenon
<1>1. TypeOK /\ FaultsInv
  BY InitTyped, Zenon
<1>2. /\ \A n \in Nodes : /\ addr[n] = <<n, 0>> /\ sess[n] = FreeSlot(n)
                          /\ pend[n] = NoPending(n)
                          /\ installed[n] = {} /\ delivered[n] = {}
      /\ net = {} /\ ~repeated
  BY Zenon DEF Init
<1>3. AddressInv
  <2>1. \A n \in Nodes : FreeSlot(n).addr = <<Peer(n), 0>> /\ NoPending(n).addr = <<Peer(n), 0>>
    BY Zenon DEF FreeSlot, NoPending
  <2> QED BY <1>2, <2>1 DEF AddressInv
<1>4. KeysUsed
  <2>1. \A n \in Nodes : /\ FreeSlot(n).key = NoKey /\ FreeSlot(n).prev = NoKey
                         /\ ~NoPending(n).active
    BY Zenon DEF FreeSlot, NoPending
  <2> QED BY <1>2, <2>1 DEF KeysUsed
<1>6. NumbersUsed /\ AnswerMeansSession
  BY <1>2, Zenon DEF NumbersUsed, AnswerMeansSession
<1>5. SwitchInv
  BY <1>2, PeerSpec, Zenon DEF SwitchInv, Answered, FreeSlot
<1> QED BY <1>1, <1>3, <1>4, <1>5, <1>6, Zenon DEF Inv

(* Every step keeps the invariant. *)
LEMMA NextInv == Inv /\ [Next]_vars => Inv'
<1> SUFFICES ASSUME Inv, [Next]_vars PROVE Inv'
  BY Zenon
<1>1. CASE UNCHANGED vars
  <2>1. UNCHANGED <<addr, sess, pend, inits, precomp, net, faults, stale>>
    BY <1>1, Zenon DEF vars
  <2>2. installed' = installed /\ delivered' = delivered
    BY <1>1, Zenon DEF vars
  <2>3. repeated' = repeated
    BY <1>1, Zenon DEF vars
  <2>4. TypeOK' /\ FaultsInv'
    BY <2>1, <2>2, <2>3, Zenon DEF Inv, TypeOK, FaultsInv
  <2>5. AddressInv' /\ AnswerMeansSession' /\ (AddressesFixed' <=> AddressesFixed)
    BY <2>1, <2>2, Zenon DEF Inv, AddressInv, AddressesFixed, AnswerMeansSession
  <2>6. KeysUsed => KeysUsed'
    BY <2>1, <2>2, Zenon DEF KeysUsed, Used
  <2>7. NumbersUsed => NumbersUsed'
    BY <2>1, <2>2, <2>3, Zenon DEF NumbersUsed
  <2>8. SwitchInv => SwitchInv'
    BY <2>1, <2>2, Zenon DEF SwitchInv, Answered
  <2> QED BY <2>1, <2>4, <2>5, <2>6, <2>7, <2>8, Zenon DEF Inv
<1>2. ASSUME NEW n \in Nodes, GiveUp(n) PROVE Inv'
  BY <1>2, TypeStep, QuietActions, Zenon DEF Inv
<1>3. ASSUME NEW n \in Nodes,
             \/ Initiate(n) \/ HandshakeTimeout(n) \/ Send(n)
             \/ CooldownEnds(n) \/ GraceEnds(n) \/ Expire(n) \/ Restart(n) \/ Rebind(n)
      PROVE  Inv'
  BY <1>2, <1>3, TypeStep, QuietActions, InitiateStep, SendStep, Zenon DEF Inv, HandshakeTimeout
<1>4. ASSUME NEW n \in Nodes, NEW p \in net, Receive(n, p) PROVE Inv'
  <2>1. CASE RecvAnswer(n, p)
    BY <2>1, TypeStep, AnswerStep, Zenon DEF Inv
  <2>2. CASE RecvBadAnswer(n, p) \/ RecvCrossing(n, p)
    BY <1>2, <2>2, Zenon DEF RecvBadAnswer, RecvCrossing
  <2>3. CASE RecvInitiation(n, p)
    BY <2>3, TypeStep, RespondStep, Zenon DEF Inv
  <2>4. CASE RecvCurrent(n, p)
    BY <2>4, TypeStep, CurrentStep, Zenon DEF Inv
  <2>5. CASE RecvPrevious(n, p)
    BY <1>1, <2>5, Zenon DEF RecvPrevious
  <2> QED BY <1>4, <2>1, <2>2, <2>3, <2>4, <2>5, Zenon DEF Receive
<1> QED BY <1>1, <1>3, <1>4, Zenon DEF Next

LEMMA Invariance == Spec => []Inv
BY InitInv, NextInv, PTL DEF Spec

(* The state of both nodes and the datagrams always have their types, with  *)
(* any bounds; a session has a key exactly while it is active.              *)
THEOREM TunnelTyped == Spec => []TypeOK
<1>1. Inv => TypeOK
  BY Zenon DEF Inv
<1> QED BY <1>1, Invariance, PTL

(* Whatever the network repeats, delays or reorders, and however nodes      *)
(* restart and handshakes cross, a node accepts no packet twice under its   *)
(* current key, as long as every pair could be renewed (peer.c:868).        *)
THEOREM NoneTwice == Spec => []DeliveredOnce
<1>1. Inv => DeliveredOnce
  BY Zenon DEF Inv, NumbersUsed, DeliveredOnce
<1> QED BY <1>1, Invariance, PTL

(* As long as no address changes, a node has installed the key of every     *)
(* answer it has sent (peer.c:853-889).                                     *)
THEOREM AnswersInstalled == Spec => []AnswerMeansSession
<1>1. Inv => AnswerMeansSession
  BY Zenon DEF Inv
<1> QED BY <1>1, Invariance, PTL

(* No sequence number is used again under one key, although every handshake *)
(* starts from 0 (peer.c:459, 528).                                         *)
THEOREM NumbersUnique == Spec => SequenceUnique
<1> DEFINE Fresh == \A n \in Nodes : stale = 0 /\ sess'[n].sendSeq > sess[n].sendSeq =>
          ~\E p \in net : /\ p.type = "data" /\ p.src[1] = n
                          /\ p.key = sess[n].key /\ p.seq = sess[n].sendSeq
<1>1. Inv => Fresh
  <2> SUFFICES ASSUME Inv, NEW n \in Nodes, stale = 0, NEW p \in net, p.type = "data",
                      p.src[1] = n, p.key = sess[n].key, p.seq = sess[n].sendSeq
               PROVE  FALSE
    BY Zenon
  <2>1. p.seq < sess[n].sendSeq /\ p.seq \in Nat
    BY PacketSpec DEF Inv, NumbersUsed
  <2> QED BY <2>1
<1>2. Inv /\ [Next]_vars => [Fresh]_vars
  BY <1>1, Zenon
<1> QED BY <1>2, Invariance, PTL DEF Spec, SequenceUnique

(* As long as no address changes, a packet makes a node drop its previous   *)
(* key only when the peer no longer sends under it (peer.c:918).            *)
THEOREM SwitchoverHolds == Spec => SwitchoverSafe
<1> DEFINE Safe == \A n \in Nodes :
          /\ AddressesFixed /\ stale = 0
          /\ sess[n].prev # NoKey /\ sess'[n].prev = NoKey
          /\ \E p \in net : Receive(n, p)
          => sess[Peer(n)].key # sess[n].prev
<1>1. Inv => Safe
  <2> SUFFICES ASSUME Inv, NEW n \in Nodes, AddressesFixed, stale = 0, sess[n].prev # NoKey,
                      sess'[n].prev = NoKey, NEW p \in net, Receive(n, p)
               PROVE  sess[Peer(n)].key # sess[n].prev
    BY Zenon
  <2>1. RecvCurrent(n, p)
    <3>1. sess[n].key # NoKey
      BY Zenon DEF Inv, KeysUsed
    <3>2. ASSUME NEW key, NEW src, SessionInit(n, key, src) PROVE FALSE
      BY <3>1, <3>2, SessionInitSpec, Zenon DEF Inv
    <3>3. sess' # sess
      BY Zenon
    <3> QED BY <3>2, <3>3, ZenonT(60)
            DEF Receive, RecvAnswer, RecvBadAnswer, RecvCrossing, RecvInitiation,
                              RecvPrevious, GiveUp, vars
  <2>2. p.type = "data" /\ p.key = sess[n].key /\ p.src[1] = Peer(n)
    BY <2>1, FromPeer, Zenon DEF Inv, RecvCurrent, ForSession, Arrives
  <2>3. sess[n].key \in installed[Peer(n)]
    BY <2>2, Zenon DEF Inv, KeysUsed
  <2> QED BY <2>3, Zenon DEF Inv, SwitchInv
<1>2. Inv /\ [Next]_vars => [Safe]_vars
  BY <1>1, Zenon
<1> QED BY <1>2, Invariance, PTL DEF Spec, SwitchoverSafe

=============================================================================
