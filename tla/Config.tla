------------------------------- MODULE Config -------------------------------
(***************************************************************************)
(* load_config and main: the automaton that reads the events of a YAML      *)
(* parser, the checks on what it read, and the sessions that then route by  *)
(* the prefixes in the file.  The environment is libyaml: documents of      *)
(* scalars, lists, mappings and aliases in any well-formed nesting, except  *)
(* that a key is a scalar or an alias.  Beside the automaton runs the       *)
(* reading the file's nesting means (want), which the automaton, that keeps *)
(* no stack, must agree with as long as the file has the expected form.     *)
(***************************************************************************)
EXTENDS Routing, FiniteSets

CONSTANTS MaxPeers,     \* MAX_PEERS
          MaxRoutes,    \* MAX_ROUTES_PER_PEER
          MaxWorkers,   \* MAX_WORKER_THREADS
          NProc,        \* processors online
          RootScalars,  \* [key -> values] of the file's root mapping
          PeerScalars,  \* [key -> values] of a peer's mapping
          Items,        \* what is listed under allowed_ips
          Loose,        \* the scalars of lists and mappings that are not expected
          MaxNest       \* bound on the depth of the file's nesting

ASSUME ConfigAssumption ==
  /\ MaxPeers \in Nat \ {0} /\ MaxRoutes \in Nat \ {0} /\ MaxWorkers \in Nat \ {0}
  /\ NProc \in Int /\ MaxNest \in Nat

VARIABLES phase,        \* "loading", "running" or "exited"
          state,        \* the automaton's state
          key,          \* key or peer_key, whichever was read last; NoKey if it is used up
          cfg,          \* what the automaton has stored
          nest,         \* the collections open in the file, innermost last
          entry,        \* the file's key whose value comes next, NoKey if none
          want,         \* what the file says up to here
          foreign,      \* a list or mapping stood where none is expected, or an alias
          sessions      \* sessions[]

vars == <<phase, state, key, cfg, nest, entry, want, foreign, sessions>>

NoKey == "nokey"
NoPub == "zeros"

ASSUME KeysAssumption == NoKey \notin DOMAIN RootScalars \cup DOMAIN PeerScalars

\* Scalars: words, among them the keys; numbers, hexadecimal keys, endpoints and CIDRs
\* are given by the constants.
WordOf(w) == [kind |-> "word", word |-> w]
Text(v) == IF v.kind = "word" THEN v.word ELSE "other"
Other == WordOf("other")

\* peer_config_t
NewPeer == [pub |-> NoPub, endpoint |-> FALSE, routes |-> <<>>]

\* The settings with their defaults; of the interface, whether it has a name.
Defaults ==
  [interface |-> FALSE, port |-> 5040, keepalive_interval |-> 25, rekey_after |-> 180,
   reconnect_interval |-> 30, session_expiry |-> 540, prev_key_grace |-> 90,
   handshake_timeout |-> 5, handshake_cooldown |-> 5, worker_threads |-> 0]

NoConfig == [set |-> Defaults, peers |-> <<>>]

Init ==
  /\ phase = "loading" /\ state = "root" /\ key = NoKey
  /\ cfg = NoConfig /\ want = NoConfig
  /\ nest = <<>> /\ entry = NoKey /\ foreign = FALSE /\ sessions = <<>>

--------------------------------------------------------------------------
\* Storing values, for the automaton and for the meaning of the file alike.

\* The interface has a name unless it is empty; atoi: 0 for what is no number.
Setting(k, v) == IF k = "interface" THEN Text(v) # "" ELSE IF v.kind = "int" THEN v.n ELSE 0

WithSetting(c, k, v) ==
  IF k \in DOMAIN Defaults THEN [c EXCEPT !.set[k] = Setting(k, v)] ELSE c

WithPeer(c) == [c EXCEPT !.peers = Append(@, NewPeer)]

\* A public_key that is not hexadecimal, and an endpoint that is not host:port with a
\* port in range or does not resolve, stop the loading.
BadPeerValue(k, v) ==
  \/ k = "public_key" /\ v.kind # "hex"
  \/ k = "endpoint" /\ ~(v.kind = "host" /\ v.resolves)

WithPeerValue(c, k, v) ==
  LET n == Len(c.peers) IN
  CASE k = "public_key" -> [c EXCEPT !.peers[n].pub = v.pub]
    [] k = "endpoint" -> [c EXCEPT !.peers[n].endpoint = TRUE]
    [] OTHER -> c

WithRoute(c, v) ==
  [c EXCEPT !.peers[Len(c.peers)].routes = Append(@, ParseCidr(v))]

--------------------------------------------------------------------------
\* load_config: one action for each case of the switch, on event e.  No case is for
\* an alias: it is ignored in every state.

Scalar(v) == [type |-> "scalar", v |-> v]
Event(type) == [type |-> type, v |-> Other]

Stay == UNCHANGED <<phase, state, key, cfg>>
Fail == phase' = "exited" /\ UNCHANGED <<state, key, cfg>>
Enter(s) == state' = s /\ key' = NoKey /\ UNCHANGED <<phase, cfg>>

CaseRoot(e) ==
  /\ state = "root"
  /\ IF e.type = "scalar"
       THEN state' = "rootVal" /\ key' = Text(e.v) /\ UNCHANGED <<phase, cfg>>
       ELSE Stay

\* A list or mapping under a key that is not "peers" is not skipped: the state stays,
\* and the first scalar in it is taken for the value.
CaseRootVal(e) ==
  /\ state = "rootVal"
  /\ CASE e.type = "scalar" -> /\ cfg' = WithSetting(cfg, key, e.v)
                               /\ state' = "root" /\ key' = NoKey /\ UNCHANGED phase
       [] e.type = "seqStart" /\ key = "peers" -> Enter("peersSeq")
       [] OTHER -> Stay

\* Mutant: the limit on the peers is tested with > instead of >=.
MutCasePeersSeq(e) ==
  /\ state = "peersSeq"
  /\ CASE e.type = "seqEnd" -> Enter("root")
       [] e.type = "mapStart" /\ Len(cfg.peers) > MaxPeers -> Fail
       [] e.type = "mapStart" /\ Len(cfg.peers) <= MaxPeers ->
            cfg' = WithPeer(cfg) /\ state' = "peerMap" /\ UNCHANGED <<phase, key>>
       [] OTHER -> Stay

CasePeersSeq(e) ==
  /\ state = "peersSeq"
  /\ CASE e.type = "seqEnd" -> Enter("root")
       [] e.type = "mapStart" /\ Len(cfg.peers) >= MaxPeers -> Fail
       [] e.type = "mapStart" /\ Len(cfg.peers) < MaxPeers ->
            cfg' = WithPeer(cfg) /\ state' = "peerMap" /\ UNCHANGED <<phase, key>>
       [] OTHER -> Stay

\* Mutant: the end of a peer is taken for the end of the list.
MutCasePeerMap(e) ==
  /\ state = "peerMap"
  /\ CASE e.type = "mapEnd" -> Enter("root")
       [] e.type = "scalar" -> /\ key' = Text(e.v)
                               /\ state' = "peerVal" /\ UNCHANGED <<phase, cfg>>
       [] OTHER -> Stay

CasePeerMap(e) ==
  /\ state = "peerMap"
  /\ CASE e.type = "mapEnd" -> Enter("peersSeq")
       [] e.type = "scalar" -> /\ key' = Text(e.v)
                               /\ state' = "peerVal" /\ UNCHANGED <<phase, cfg>>
       [] OTHER -> Stay

CasePeerVal(e) ==
  /\ state = "peerVal"
  /\ CASE e.type = "scalar" /\ BadPeerValue(key, e.v) -> Fail
       [] e.type = "scalar" /\ ~BadPeerValue(key, e.v) ->
            /\ cfg' = WithPeerValue(cfg, key, e.v)
            /\ state' = "peerMap" /\ key' = NoKey /\ UNCHANGED phase
       [] e.type = "seqStart" /\ key = "allowed_ips" -> Enter("allowedIpsSeq")
       [] OTHER -> Stay

CaseAllowedIpsSeq(e) ==
  /\ state = "allowedIpsSeq"
  /\ LET full == Len(cfg.peers[Len(cfg.peers)].routes) >= MaxRoutes IN
     CASE e.type = "seqEnd" -> Enter("peerMap")
       [] e.type = "scalar" /\ (full \/ ~ValidCidr(e.v)) -> Fail
       [] e.type = "scalar" /\ ~full /\ ValidCidr(e.v) ->
            cfg' = WithRoute(cfg, e.v) /\ UNCHANGED <<phase, state, key>>
       [] OTHER -> Stay

Parse(e) == CaseRoot(e) \/ CaseRootVal(e) \/ CasePeersSeq(e) \/ CasePeerMap(e)
              \/ CasePeerVal(e) \/ CaseAllowedIpsSeq(e)

--------------------------------------------------------------------------
\* libyaml: the events of a well-formed file, and what the file means.  A value that
\* stops the loading means nothing further.

\* The innermost collection that is open, and what is around it.
Inner(open) == open[Len(open)]
Outer(open) == SubSeq(open, 1, Len(open) - 1)

InMap == Inner(nest) \in {"root", "peer", "map"}
KeysHere == CASE Inner(nest) = "root" -> DOMAIN RootScalars \cup {"peers"}
              [] Inner(nest) = "peer" -> DOMAIN PeerScalars \cup {"allowed_ips"}
              [] OTHER -> {Text(v) : v \in Loose}
ValuesHere == CASE Inner(nest) = "root" /\ entry \in DOMAIN RootScalars -> RootScalars[entry]
                [] Inner(nest) = "peer" /\ entry \in DOMAIN PeerScalars -> PeerScalars[entry]
                [] Inner(nest) = "ips" -> Items
                [] Inner(nest) \in {"list", "map"} -> Loose
                [] OTHER -> {Other}

\* The file now means w; one of an unexpected form is not followed any more.
Means(w) == want' = IF foreign' THEN NoConfig ELSE w
Open(frame) == /\ Len(nest) < MaxNest
               /\ nest' = Append(nest, frame) /\ entry' = NoKey
               /\ foreign' = (foreign \/ frame \in {"list", "map"})
Close == nest' = Outer(nest) /\ entry' = NoKey /\ UNCHANGED <<foreign, want>>

\* A document; the settings of a further one are added to those before.
YamlDocument ==
  /\ nest = <<>>
  /\ \/ Parse(Event("mapStart")) /\ Open("root")
     \/ Parse(Event("seqStart")) /\ Open("list")
  /\ Means(want)

YamlKey ==
  /\ InMap /\ entry = NoKey
  /\ \E k \in KeysHere : entry' = k /\ Parse(Scalar(WordOf(k)))
  /\ UNCHANGED <<nest, foreign, want>>

YamlValue ==
  /\ InMap /\ entry # NoKey /\ entry' = NoKey
  /\ UNCHANGED <<nest, foreign>>
  /\ \E v \in ValuesHere :
       /\ Parse(Scalar(v))
       /\ Means(CASE Inner(nest) = "root" -> WithSetting(want, entry, v)
                  [] Inner(nest) = "peer" /\ ~BadPeerValue(entry, v) -> WithPeerValue(want, entry, v)
                  [] OTHER -> want)

\* A collection as a value or as an item: the lists of peers and of allowed IPs, the
\* mapping of a peer, or an unexpected one.
YamlOpen ==
  /\ InMap => entry # NoKey
  /\ \/ /\ Parse(Event("seqStart"))
        /\ Open(CASE Inner(nest) = "root" /\ entry = "peers" -> "peers"
                  [] Inner(nest) = "peer" /\ entry = "allowed_ips" -> "ips"
                  [] OTHER -> "list")
        /\ Means(want)
     \/ /\ Inner(nest) # "peers"
        /\ Parse(Event("mapStart")) /\ Open("map")
        /\ Means(want)

YamlPeer ==
  /\ Inner(nest) = "peers" /\ Parse(Event("mapStart")) /\ Open("peer")
  /\ Means(WithPeer(want))

\* An item of a list; among the peers it is ignored.
YamlItem ==
  /\ ~InMap /\ UNCHANGED <<nest, entry, foreign>>
  /\ \E v \in ValuesHere :
       /\ Parse(Scalar(v))
       /\ Means(IF Inner(nest) = "ips" /\ ValidCidr(v) THEN WithRoute(want, v) ELSE want)

\* An alias in place of a key, a value or an item: the file means what it stands for,
\* which the automaton does not look up.
YamlAlias ==
  /\ Parse(Event("alias"))
  /\ entry' = IF InMap /\ entry = NoKey THEN Text(Other) ELSE NoKey
  /\ foreign' = TRUE /\ Means(want) /\ UNCHANGED nest

YamlClose ==
  /\ entry = NoKey
  /\ Parse(Event(IF InMap THEN "mapEnd" ELSE "seqEnd")) /\ Close

\* A file that is not well-formed stops the loading.
YamlError == Fail /\ UNCHANGED <<nest, entry, foreign, want>>

--------------------------------------------------------------------------
\* main: the checks on the settings, and the number of worker threads.

Positive == {"keepalive_interval", "rekey_after", "reconnect_interval",
             "prev_key_grace", "handshake_timeout", "handshake_cooldown"}

Acceptable(c) ==
  /\ c.set.interface /\ Len(c.peers) > 0
  /\ c.set.port \in 1 .. 65535
  /\ \A k \in Positive : c.set[k] > 0
  /\ c.set.session_expiry > c.set.rekey_after
  /\ c.set.worker_threads \in 0 .. MaxWorkers

DefaultWorkers == 4

\* The end of the stream.  0 worker threads stand for the number of processors, up
\* to the default.
Main ==
  /\ nest = <<>>
  /\ IF Acceptable(cfg)
       THEN /\ phase' = "running"
            /\ cfg' = [cfg EXCEPT !.set.worker_threads =
                          IF @ # 0 THEN @
                          ELSE IF NProc \in 1 .. DefaultWorkers - 1 THEN NProc ELSE DefaultWorkers]
       ELSE phase' = "exited" /\ UNCHANGED cfg
  /\ want' = NoConfig /\ state' = "root" /\ key' = NoKey
  /\ UNCHANGED <<nest, entry, foreign, sessions>>

Load == /\ phase = "loading"
        /\ \/ YamlDocument /\ UNCHANGED sessions
           \/ nest # <<>> /\ (YamlKey \/ YamlValue \/ YamlOpen \/ YamlPeer \/ YamlItem
                                \/ YamlAlias \/ YamlClose \/ YamlError) /\ UNCHANGED sessions
           \/ Main

--------------------------------------------------------------------------
\* The sessions of the configured peers.

\* find_peer_config: the first peer with the key
FindPeerConfig(pub) ==
  cfg.peers[CHOOSE i \in 1 .. Len(cfg.peers) :
              /\ cfg.peers[i].pub = pub
              /\ \A j \in 1 .. i - 1 : cfg.peers[j].pub # pub]

\* alloc_session: the peer's own slot, one that has its address, whichever that is, or
\* the first free one, or a new one.
SlotsFor(pub) ==
  LET own == {s \in 1 .. Len(sessions) : sessions[s].active /\ sessions[s].pub = pub}
      free == {s \in 1 .. Len(sessions) : ~sessions[s].active}
      First(S) == CHOOSE s \in S : \A r \in S : s <= r
  IN IF own # {} THEN {First(own)}
     ELSE {s \in 1 .. Len(sessions) : sessions[s].active}
            \cup {IF free # {} THEN First(free) ELSE Len(sessions) + 1}

\* Mutant: every handshake opens a new slot.
MutConnect(i) ==
  /\ phase = "running"
  /\ sessions' = Append(sessions, [active |-> TRUE, pub |-> cfg.peers[i].pub,
                                   routes |-> cfg.peers[i].routes])
  /\ UNCHANGED <<phase, state, key, cfg, nest, entry, want, foreign>>

\* session_init copies the routes: of the peer that was contacted, or, for a peer that
\* contacts us, of the first one with its key.
Connect(i) ==
  LET p == cfg.peers[i]
      src == IF p.endpoint THEN p ELSE FindPeerConfig(p.pub)
      new == [active |-> TRUE, pub |-> p.pub, routes |-> src.routes]
  IN /\ phase = "running"
     /\ \E s \in SlotsFor(p.pub) :
          /\ s <= MaxPeers
          /\ sessions' = IF s > Len(sessions) THEN Append(sessions, new)
                                              ELSE [sessions EXCEPT ![s] = new]
     /\ UNCHANGED <<phase, state, key, cfg, nest, entry, want, foreign>>

Expire(s) ==
  /\ phase = "running" /\ sessions[s].active
  /\ sessions' = [sessions EXCEPT ![s].active = FALSE]
  /\ UNCHANGED <<phase, state, key, cfg, nest, entry, want, foreign>>

Exited == phase = "exited" /\ UNCHANGED vars

Next == \/ Load
        \/ \E i \in 1 .. Len(cfg.peers) : Connect(i)
        \/ \E s \in 1 .. Len(sessions) : Expire(s)
        \/ Exited

Spec == Init /\ [][Next]_vars

--------------------------------------------------------------------------
States == {"root", "rootVal", "peersSeq", "peerMap", "peerVal", "allowedIpsSeq"}

\* Every variable has its type, and the table never holds more sessions than it has
\* slots (alloc_session).
TypeOK ==
  /\ phase \in {"loading", "running", "exited"} /\ state \in States
  /\ foreign \in BOOLEAN
  /\ Len(nest) <= MaxNest
  /\ Len(sessions) <= MaxPeers
  /\ \A s \in 1 .. Len(sessions) : DOMAIN sessions[s] = {"active", "pub", "routes"}

\* The automaton, which knows no nesting, stores what the file says: as long as lists
\* and mappings stand only where the format has them and nothing is an alias, every
\* setting, peer and prefix it holds is the one the file's structure gives
\* (load_config).  An alias it ignores: one for a value makes the next key the value,
\* one in allowed_ips is dropped (peer.c:245-269, 294-350).
LoadsTheFile == phase = "loading" /\ ~foreign => cfg = want

\* Whatever the file contains, also where unexpected lists, mappings or aliases, nested
\* in any way, have put the automaton out of step, the peer it fills in exists and
\* neither array overflows (peer.c:275, 297, 338).
InBounds ==
  /\ state \in {"peerMap", "peerVal", "allowedIpsSeq"} => Len(cfg.peers) > 0
  /\ Len(cfg.peers) <= MaxPeers
  /\ \A i \in 1 .. Len(cfg.peers) : Len(cfg.peers[i].routes) <= MaxRoutes

\* The reference for a match: the leading bits agree.
Covers(r, ip) ==
  ip \div 2 ^ (Width - r.prefix_len) = r.network \div 2 ^ (Width - r.prefix_len)

\* The lengths of the prefixes of slot s that cover ip.
Lengths(s, ip) ==
  IF sessions[s].active
    THEN {sessions[s].routes[j].prefix_len : j \in {k \in 1 .. Len(sessions[s].routes) :
                                                      Covers(sessions[s].routes[k], ip)}}
    ELSE {}

\* route_lookup finds the longest prefix among all active sessions, the first slot of
\* those that tie, and nothing only if nothing covers the address; the prefixes of
\* length 0 and of full length included (tests/test_peer.c:127, peer.c:196).
LongestPrefix ==
  phase = "running" =>
    \A ip \in Addresses :
      LET r == RouteLookup(sessions, ip)
          all == UNION {Lengths(s, ip) : s \in 1 .. Len(sessions)}
      IN IF all = {} THEN r = 0
         ELSE /\ r # 0 /\ \E n \in Lengths(r, ip) :
                            /\ \A m \in all : m <= n
                            /\ \A s \in 1 .. r - 1 : n \notin Lengths(s, ip)

\* The source check and the routing agree: if a packet of a session that has AllowedIPs
\* is let in, an answer to its source goes to that session, or to one that has a prefix
\* at least as long for it (check_allowed_src and route_lookup).
ReplyPath ==
  phase = "running" =>
    \A s \in 1 .. Len(sessions), src \in Addresses :
      /\ sessions[s].active /\ sessions[s].routes # <<>>
      /\ \E dst \in Addresses : Dispatch(sessions, s, src, dst) # -1
      => LET r == RouteLookup(sessions, src)
         IN r # 0 /\ \A m \in Lengths(s, src) : \E n \in Lengths(r, src) : n >= m

--------------------------------------------------------------------------
\* The invariant of the proofs in Config_proofs.

\* The prefixes parse_cidr makes: no bit of the network beyond the length is set.
IpPrefixes ==
  {r \in [network : Addresses, mask : Addresses, prefix_len : 0 .. Width] :
     r.mask = Mask(r.prefix_len) /\ And(r.network, r.mask) = r.network}

Values == (UNION {RootScalars[k] : k \in DOMAIN RootScalars})
            \cup (UNION {PeerScalars[k] : k \in DOMAIN PeerScalars}) \cup Items \cup Loose
Pubs == {NoPub} \cup {v.pub : v \in {w \in Values : w.kind = "hex"}}
PeerConfigs == [pub : Pubs, endpoint : BOOLEAN, routes : Seq(IpPrefixes)]
SessionSlots == [active : BOOLEAN, pub : Pubs, routes : Seq(IpPrefixes)]

\* The collections, and what may be open in a file that is followed.
Frames == {"root", "peers", "peer", "ips", "list", "map"}
InRoot == Append(<<>>, "root")
InPeers == Append(InRoot, "peers")
InPeer == Append(InPeers, "peer")
InIps == Append(InPeer, "ips")

\* The state and the key stand for the innermost collection and the entry read.
InStep ==
  \/ nest = <<>> /\ entry = NoKey /\ state = "root"
  \/ nest = InRoot /\ entry = NoKey /\ state = "root"
  \/ nest = InRoot /\ entry # NoKey /\ state = "rootVal" /\ key = entry
  \/ nest = InPeers /\ entry = NoKey /\ state = "peersSeq"
  \/ nest = InPeer /\ entry = NoKey /\ state = "peerMap"
  \/ nest = InPeer /\ entry # NoKey /\ state = "peerVal" /\ key = entry
  \/ nest = InIps /\ entry = NoKey /\ state = "allowedIpsSeq"

StoreInv ==
  /\ phase \in {"loading", "running", "exited"} /\ state \in States
  /\ DOMAIN cfg = {"set", "peers"} /\ cfg.peers \in Seq(PeerConfigs)
  /\ InBounds

Inv ==
  /\ StoreInv /\ nest \in Seq(Frames) /\ Len(nest) <= MaxNest /\ foreign \in BOOLEAN
  /\ sessions \in Seq(SessionSlots) /\ Len(sessions) <= MaxPeers
  /\ phase = "loading" /\ ~foreign => InStep /\ cfg = want
=============================================================================
