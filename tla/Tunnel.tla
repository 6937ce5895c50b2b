------------------------------- MODULE Tunnel -------------------------------
(***************************************************************************)
(* Two tunnel endpoints that are configured as each other's peers, and the  *)
(* network between them: the handshake (src/src/common.c), the session each *)
(* side keeps of the other, and the data packets (src/src/peer.c).          *)
(*                                                                          *)
(* The network may lose, delay, reorder and duplicate: net is the set of    *)
(* all datagrams ever sent, and receiving one leaves it there.  Nodes       *)
(* restart with empty tables, and their public addresses may change (NAT).  *)
(*                                                                          *)
(* An ephemeral key pair is a number: a node numbers the pairs it draws for *)
(* its initiations, and those it pre-generates for its answers.  A session  *)
(* key is determined by the initiator and the two pairs.                    *)
(*                                                                          *)
(* Module SessionTable has the clock; here a deadline passes at any moment, *)
(* by an action of its own that records what is then different.  Each       *)
(* node has one configured peer, so one slot, and at most one pending       *)
(* handshake: SessionTable shows this for a reconnect interval that is      *)
(* longer than a pending handshake lasts.  A session is rekeying only while *)
(* one is pending, so that it stands for the mark as well.                  *)
(***************************************************************************)
EXTENDS Integers

CONSTANTS Nodes,               \* the two nodes
          HigherPub,           \* the node with the higher public key
          MaxInits,            \* bound on the initiations, of both nodes
          MaxPairs,            \* bound on the pairs a node pre-generates
          MaxSeq,              \* bound on the packets sent under one key
          MaxFaults            \* bound on the restarts, the changes of address
                               \* and the failures of refresh_precomp_eph

ASSUME NodesAssumption == \E m, n \in Nodes : m # n /\ Nodes = {m, n}
ASSUME HigherPubAssumption == HigherPub \in Nodes
ASSUME BoundsAssumption ==
    {MaxInits, MaxPairs} \subseteq Nat \ {0} /\ {MaxSeq, MaxFaults} \subseteq Nat

VARIABLES addr,       \* the public address of each node
          sess,       \* the session slot of each node
          pend,       \* the pending handshake of each node
          inits,      \* the number of initiations of each node
          precomp,    \* precomp_eph_key of each node
          net,        \* every datagram sent so far
          faults,     \* the number of faults so far
          stale,      \* history: the number of refreshes that failed
          installed,  \* history: the keys each node ever installed
          delivered,  \* history: the current-key packets each node accepted
          repeated    \* history: some node accepted one of them again

vars == <<addr, sess, pend, inits, precomp, net, faults, stale,
          installed, delivered, repeated>>

histVars == <<installed, delivered, repeated>>

Peer(n) == CHOOSE m \in Nodes : m # n

Key == [client : Nodes, ce : 0 .. MaxInits - 1, se : 0 .. MaxPairs - 1]
NoKey == [client |-> "none", ce |-> -1, se |-> -1]
Address == Nodes \X (0 .. MaxFaults)

InitPacket == [type : {"init"}, src : Address, dst : Address, ce : 0 .. MaxInits - 1]
RespPacket == [type : {"resp"}, src : Address, dst : Address, key : Key]
DataPacket == [type : {"data"}, src : Address, dst : Address, key : Key, seq : 0 .. MaxSeq - 1]

NodeSession ==
    [active : BOOLEAN, addr : Address,
     key : Key \cup {NoKey},
     prev : Key \cup {NoKey},           \* NoKey: not prev_key_active, or expired
     cooling : BOOLEAN,                 \* now - last_handshake < cfg_handshake_cooldown
     sendSeq : 0 .. MaxSeq,
     seen : SUBSET (0 .. MaxSeq - 1)]   \* the replay window

(* A slot that is not active: none of its other fields is read before       *)
(* session_init has written it.                                             *)
FreeSlot(n) ==
    [active |-> FALSE, addr |-> <<Peer(n), 0>>, key |-> NoKey, prev |-> NoKey,
     cooling |-> FALSE, sendSeq |-> 0, seen |-> {}]

NoPending(n) == [active |-> FALSE, ce |-> 0, addr |-> <<Peer(n), 0>>]

(* start_peer has pre-generated one pair. *)
Init ==
    /\ addr = [n \in Nodes |-> <<n, 0>>]
    /\ sess = [n \in Nodes |-> FreeSlot(n)]
    /\ pend = [n \in Nodes |-> NoPending(n)]
    /\ inits = [n \in Nodes |-> 0]
    /\ precomp = [n \in Nodes |-> 0]
    /\ net = {}
    /\ faults = 0
    /\ stale = 0
    /\ installed = [n \in Nodes |-> {}]
    /\ delivered = [n \in Nodes |-> {}]
    /\ repeated = FALSE

-----------------------------------------------------------------------------
(* The handshake.                                                           *)

(* Mutant of SessionInit: the new key is not stored. *)
MutSessionInit(n, key, src) ==
    /\ sess' = [sess EXCEPT ![n] =
                  [active |-> TRUE, addr |-> src, key |-> @.key, prev |-> @.key,
                   cooling |-> TRUE, sendSeq |-> 0, seen |-> {}]]
    /\ installed' = [installed EXCEPT ![n] = @ \cup {key}]

(* session_init: the key of an active slot (NoKey, if it is not) becomes    *)
(* the previous one; both sequence-number spaces start again.               *)
SessionInit(n, key, src) ==
    /\ sess' = [sess EXCEPT ![n] =
                  [active |-> TRUE, addr |-> src, key |-> key, prev |-> @.key,
                   cooling |-> TRUE, sendSeq |-> 0, seen |-> {}]]
    /\ installed' = [installed EXCEPT ![n] = @ \cup {key}]

HandshakeClientSend(n, to) ==
    net' = net \cup {[type |-> "init", src |-> addr[n], dst |-> to, ce |-> inits[n]]}

(* The housekeeping pass starts a handshake with the peer, at the address   *)
(* that resolve_endpoint finds: the present one.                            *)
Initiate(n) ==
    /\ ~pend[n].active
    /\ inits[n] + inits[Peer(n)] < MaxInits
    /\ LET to == addr[Peer(n)]
       IN  /\ HandshakeClientSend(n, to)
           /\ pend' = [pend EXCEPT ![n] = [active |-> TRUE, ce |-> inits[n], addr |-> to]]
    /\ inits' = [inits EXCEPT ![n] = @ + 1]
    /\ UNCHANGED <<addr, sess, precomp, faults, stale, histVars>>

(* The pending handshake ends without a session. *)
GiveUp(n) ==
    /\ pend' = [pend EXCEPT ![n] = NoPending(n)]
    /\ UNCHANGED <<addr, sess, inits, precomp, net, faults, stale, histVars>>

HandshakeTimeout(n) == pend[n].active /\ GiveUp(n)

Arrives(n, p, type) == p.type = type /\ p.dst = addr[n]

(* The packet comes from the address a handshake is pending with. *)
MatchesPending(n, p) == pend[n].active /\ pend[n].addr = p.src

(* handshake_client_recv: the server's identity opens under the secret of   *)
(* the two ephemeral pairs.  That of an answer to an earlier initiation     *)
(* does not, nor does the client's identity in an initiation.               *)
AnswersPending(n, p) == p.key.client = n /\ p.key.ce = pend[n].ce

RecvAnswer(n, p) ==
    /\ Arrives(n, p, "resp")
    /\ MatchesPending(n, p)
    /\ AnswersPending(n, p)
    /\ pend' = [pend EXCEPT ![n] = NoPending(n)]
    /\ SessionInit(n, p.key, p.src)
    /\ UNCHANGED <<addr, inits, precomp, net, faults, stale, delivered, repeated>>

(* An answer that does not verify ends the pending handshake all the same. *)
RecvBadAnswer(n, p) ==
    /\ Arrives(n, p, "resp")
    /\ MatchesPending(n, p)
    /\ ~AnswersPending(n, p)
    /\ GiveUp(n)

(* So does an initiation of the peer, which is taken for an answer: both    *)
(* sides have started a handshake.                                          *)
RecvCrossing(n, p) ==
    /\ Arrives(n, p, "init")
    /\ MatchesPending(n, p)
    /\ GiveUp(n)

(* Mutant of RefreshPrecomp: the pair is kept for the next handshake. *)
MutRefreshPrecomp(n) == UNCHANGED <<precomp, faults, stale>>

(* refresh_precomp_eph: a new pair, or the old one again if none can be     *)
(* generated.                                                               *)
RefreshPrecomp(n) ==
    /\ precomp[n] + stale < MaxPairs - 1
    /\ \/ /\ precomp' = [precomp EXCEPT ![n] = @ + 1]
          /\ UNCHANGED <<faults, stale>>
       \/ /\ faults < MaxFaults
          /\ faults' = faults + 1
          /\ stale' = stale + 1
          /\ UNCHANGED precomp

(* Mutant of AddressCooling: only the cooldown of the key is left. *)
MutAddressCooling(n, src) == FALSE

(* find_session_by_addr has a session, and it is younger than the cooldown. *)
AddressCooling(n, src) == sess[n].active /\ sess[n].addr = src /\ sess[n].cooling

(* The same of find_session_by_pub. *)
KeyCooling(n) == sess[n].active /\ sess[n].cooling

HandshakeServerRespond(n, p, key) ==
    net' = net \cup {[type |-> "resp", src |-> addr[n], dst |-> p.src, key |-> key]}

(* An initiation of the peer.  The answer goes out first, and then the      *)
(* key's cooldown decides whether there is a session.  (An answer that      *)
(* matches no pending handshake takes this way too, fails in                *)
(* handshake_server_respond, and changes nothing.)                          *)
RecvInitiation(n, p) ==
    /\ Arrives(n, p, "init")
    /\ ~MatchesPending(n, p)
    /\ ~AddressCooling(n, p.src)
    /\ LET key == [client |-> Peer(n), ce |-> p.ce, se |-> precomp[n]]
       IN  /\ HandshakeServerRespond(n, p, key)
           /\ RefreshPrecomp(n)
           /\ IF KeyCooling(n) THEN UNCHANGED <<sess, installed>>
              ELSE SessionInit(n, key, p.src)
    /\ UNCHANGED <<addr, pend, inits, delivered, repeated>>

-----------------------------------------------------------------------------
(* Data packets.                                                            *)

(* forward_to_peer.  The datagram is in net, whether or not it arrives. *)
Send(n) ==
    /\ sess[n].active
    /\ sess[n].sendSeq < MaxSeq
    /\ net' = net \cup {[type |-> "data", src |-> addr[n], dst |-> sess[n].addr,
                         key |-> sess[n].key, seq |-> sess[n].sendSeq]}
    /\ sess' = [sess EXCEPT ![n].sendSeq = @ + 1]
    /\ UNCHANGED <<addr, pend, inits, precomp, faults, stale, histVars>>

(* A data packet from the address of the session. *)
ForSession(n, p) ==
    Arrives(n, p, "data") /\ sess[n].active /\ sess[n].addr = p.src

(* A packet under the current key retires the previous one; it is accepted  *)
(* if its number is new (module AntiReplay; the window is wider than        *)
(* MaxSeq).                                                                 *)
RecvCurrent(n, p) ==
    /\ ForSession(n, p)
    /\ p.key = sess[n].key
    /\ sess' = [sess EXCEPT ![n].prev = NoKey, ![n].seen = @ \cup {p.seq}]
    /\ IF p.seq \in sess[n].seen THEN UNCHANGED <<delivered, repeated>>
       ELSE /\ delivered' = [delivered EXCEPT ![n] = @ \cup {<<p.key, p.seq>>}]
            /\ repeated' = (repeated \/ <<p.key, p.seq>> \in delivered[n])
    /\ UNCHANGED <<addr, pend, inits, precomp, net, faults, stale, installed>>

(* The packet opens under the previous key, in its grace period. *)
OpensPrevious(n, p) == p.key # sess[n].key /\ p.key = sess[n].prev

(* Mutant of RecvPrevious: any packet that opens retires the previous key. *)
MutRecvPrevious(n, p) ==
    /\ ForSession(n, p)
    /\ OpensPrevious(n, p)
    /\ sess' = [sess EXCEPT ![n].prev = NoKey]
    /\ UNCHANGED <<addr, pend, inits, precomp, net, faults, stale, histVars>>

(* A packet under the previous key goes to the TUN device without a replay  *)
(* check; the session stays as it is.                                       *)
RecvPrevious(n, p) ==
    /\ ForSession(n, p)
    /\ OpensPrevious(n, p)
    /\ UNCHANGED vars

-----------------------------------------------------------------------------
(* Time, restarts and address changes.                                      *)

CooldownEnds(n) ==
    /\ sess[n].cooling
    /\ sess' = [sess EXCEPT ![n].cooling = FALSE]
    /\ UNCHANGED <<addr, pend, inits, precomp, net, faults, stale, histVars>>

(* prev_key_expires passes: the previous key is not tried again. *)
GraceEnds(n) ==
    /\ sess[n].prev # NoKey
    /\ sess' = [sess EXCEPT ![n].prev = NoKey]
    /\ UNCHANGED <<addr, pend, inits, precomp, net, faults, stale, histVars>>

(* The housekeeping pass closes a session that was silent for too long. *)
Expire(n) ==
    /\ sess[n].active
    /\ sess' = [sess EXCEPT ![n] = FreeSlot(n)]
    /\ UNCHANGED <<addr, pend, inits, precomp, net, faults, stale, histVars>>

(* The process starts again: nothing but the static key survives. *)
Restart(n) ==
    /\ faults < MaxFaults
    /\ precomp[n] < MaxPairs - 1
    /\ faults' = faults + 1
    /\ sess' = [sess EXCEPT ![n] = FreeSlot(n)]
    /\ pend' = [pend EXCEPT ![n] = NoPending(n)]
    /\ precomp' = [precomp EXCEPT ![n] = @ + 1]
    /\ UNCHANGED <<addr, inits, net, stale, histVars>>

(* A NAT gives the node another public address. *)
Rebind(n) ==
    /\ faults < MaxFaults
    /\ faults' = faults + 1
    /\ addr' = [addr EXCEPT ![n][2] = @ + 1]
    /\ UNCHANGED <<sess, pend, inits, precomp, net, stale, histVars>>

Receive(n, p) ==
    \/ RecvAnswer(n, p) \/ RecvBadAnswer(n, p) \/ RecvCrossing(n, p) \/ RecvInitiation(n, p)
    \/ RecvCurrent(n, p) \/ RecvPrevious(n, p)

Next ==
    \E n \in Nodes :
        \/ Initiate(n) \/ HandshakeTimeout(n) \/ Send(n)
        \/ CooldownEnds(n) \/ GraceEnds(n) \/ Expire(n) \/ Restart(n) \/ Rebind(n)
        \/ \E p \in net : Receive(n, p)

Spec == Init /\ [][Next]_vars

-----------------------------------------------------------------------------
(* The types of both nodes' state and of the datagrams; a session has a key *)
(* exactly while it is active.                                              *)
TypeOK ==
    /\ addr \in [Nodes -> Address]
    /\ sess \in [Nodes -> NodeSession]
    /\ \A n \in Nodes : sess[n].active <=> sess[n].key # NoKey
    /\ pend \in [Nodes -> [active : BOOLEAN, ce : 0 .. MaxInits - 1, addr : Address]]
    /\ inits \in [Nodes -> 0 .. MaxInits]
    /\ precomp \in [Nodes -> 0 .. MaxPairs - 1]
    /\ net \subseteq InitPacket \cup RespPacket \cup DataPacket
    /\ faults \in 0 .. MaxFaults
    /\ stale \in 0 .. MaxFaults
    /\ installed \in [Nodes -> SUBSET Key]
    /\ delivered \in [Nodes -> SUBSET (Key \X (0 .. MaxSeq - 1))]
    /\ repeated \in BOOLEAN

AddressesFixed == \A n \in Nodes : addr[n] = <<n, 0>>

(* No packet is accepted twice under the current key, although every        *)
(* handshake empties the replay window (peer.c:460-461) and the network may *)
(* deliver an old initiation and an old packet again: an initiation that    *)
(* comes again is answered with another pair (peer.c:868), and so leads to  *)
(* another key.  If generating that pair fails, nothing is promised.        *)
DeliveredOnce == stale = 0 => ~repeated

(* No node sends two packets with one sequence number under one key,        *)
(* although every handshake starts again from 0 (peer.c:459, 528).          *)
SequenceUnique ==
    [][\A n \in Nodes : stale = 0 /\ sess'[n].sendSeq > sess[n].sendSeq =>
          ~\E p \in net : /\ p.type = "data" /\ p.src[1] = n
                          /\ p.key = sess[n].key /\ p.seq = sess[n].sendSeq]_vars

(* As long as no address changes, a node that answers a handshake has       *)
(* installed the key of its answer: the cooldown is tested before the       *)
(* answer (peer.c:853), and the test after it (peer.c:878) then agrees.     *)
AnswerMeansSession ==
    AddressesFixed => \A p \in net : p.type = "resp" => p.key \in installed[p.src[1]]

(* As long as no address changes, a packet makes a node drop its previous   *)
(* key (peer.c:918) only when the peer no longer sends under that key.  (An *)
(* address change lets a late answer through to a handshake that a crossing *)
(* one has overtaken, and the peer goes back to the older key.)             *)
SwitchoverSafe ==
    [][\A n \in Nodes :
          /\ AddressesFixed /\ stale = 0
          /\ sess[n].prev # NoKey /\ sess'[n].prev = NoKey
          /\ \E p \in net : Receive(n, p)
          => sess[Peer(n)].key # sess[n].prev]_vars

(* peer.c:827-828: "if we have a pending outbound to this peer, the side    *)
(* with the higher pub key wins and ignores the inbound initiation."  An    *)
(* initiation does not end that side's pending handshake.  In the code it   *)
(* does: the loop at peer.c:801-823 takes it for the answer.                *)
HigherKeyWins ==
    [][\A p \in net :
          Arrives(HigherPub, p, "init") /\ pend[HigherPub].active /\ Receive(HigherPub, p)
            => pend'[HigherPub].active]_vars

(* README.md:209-228: the responder looks the peer up, derives the key,     *)
(* saves the old one and then answers; the initiator will "Derive same      *)
(* session key".  An initiator that completes a handshake has a key that    *)
(* the responder has installed.  The code answers first (peer.c:861) and    *)
(* may then refuse the session (peer.c:878-882).                            *)
KeyAgreed ==
    [][\A n \in Nodes, p \in net : RecvAnswer(n, p) => p.key \in installed[Peer(n)]]_vars

-----------------------------------------------------------------------------
(* Why these hold: the invariants of the proofs in Tunnel_proofs.           *)

(* Datagrams, sessions and pending handshakes are between a node and its    *)
(* peer, and at the first addresses as long as no address changes.          *)
AddressInv ==
    /\ \A n \in Nodes : /\ addr[n][1] = n
                        /\ sess[n].addr[1] = Peer(n) /\ pend[n].addr[1] = Peer(n)
    /\ \A p \in net : p.dst[1] = Peer(p.src[1])
    /\ AddressesFixed =>
          /\ \A n \in Nodes : sess[n].addr[2] = 0 /\ pend[n].addr[2] = 0
          /\ \A p \in net : p.src[2] = 0 /\ p.dst[2] = 0

(* Both pairs of the key have been used: neither side makes it again. *)
Used(k) == k.ce < inits[k.client] /\ k.se < precomp[Peer(k.client)]

(* Every key in a session, an answer or a data packet is used, so that a    *)
(* node never installs a key again that it had.                             *)
KeysUsed ==
    /\ \A n \in Nodes : \A k \in installed[n] : Used(k)
    /\ \A n \in Nodes : /\ {sess[n].key, sess[n].prev} \subseteq installed[n] \cup {NoKey}
                        /\ sess[n].prev # NoKey => sess[n].key \notin {NoKey, sess[n].prev}
    /\ \A n \in Nodes : pend[n].active =>
          /\ pend[n].ce < inits[n]
          /\ \A k \in installed[n] : ~(k.client = n /\ k.ce = pend[n].ce)
    /\ \A p \in net : /\ p.type = "init" => p.ce < inits[p.src[1]]
                      /\ p.type = "resp" => Used(p.key) /\ p.key.client = Peer(p.src[1])
                      /\ p.type = "data" => p.key \in installed[p.src[1]]

(* What was delivered or sent under the key of a session is in its window   *)
(* or below its counter.                                                    *)
NumbersUsed ==
    /\ ~repeated
    /\ \A n \in Nodes : \A d \in delivered[n] :
          d[1] \in installed[n] /\ (d[1] = sess[n].key => d[2] \in sess[n].seen)
    /\ \A p \in net : p.type = "data" /\ p.key = sess[p.src[1]].key =>
          p.seq < sess[p.src[1]].sendSeq

(* The pending handshake of n has been answered with the key k. *)
Answered(n, k) ==
    /\ pend[n].active /\ k.client = n /\ k.ce = pend[n].ce
    /\ \E p \in net : p.type = "resp" /\ p.key = k

(* While an answer is on its way to n, the peer takes no other key from n,  *)
(* and has left the key n still uses; so a node that has a packet under its *)
(* new key from the peer knows that the peer has left the previous one.     *)
SwitchInv ==
    /\ \A n \in Nodes, k, l \in Key : ~(Answered(n, k) /\ Answered(Peer(n), l))
    /\ \A n \in Nodes, k \in Key : Answered(n, k) =>
          /\ sess[n].key # NoKey => sess[Peer(n)].key # sess[n].key
          /\ sess[Peer(n)].prev = k => sess[Peer(n)].key \notin installed[n]
    /\ \A n \in Nodes :
          sess[n].prev # NoKey /\ sess[n].key \in installed[Peer(n)]
            => sess[Peer(n)].key # sess[n].prev

(* The faults so far bound what they count. *)
FaultsInv == stale <= faults /\ \A n \in Nodes : addr[n][2] <= faults

Inv ==
    /\ TypeOK /\ FaultsInv /\ AddressInv
    /\ AnswerMeansSession
    /\ stale = 0 => KeysUsed /\ NumbersUsed
    /\ stale = 0 /\ AddressesFixed => SwitchInv
=============================================================================
