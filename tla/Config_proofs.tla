--------------------------- MODULE Config_proofs ---------------------------
(***************************************************************************)
(* The proofs about Config and Routing: for any file, any number of peers   *)
(* and prefixes and addresses of any width, the automaton reads what the    *)
(* file says and stays within its arrays, and route_lookup finds the        *)
(* longest prefix.                                                          *)
(***************************************************************************)
EXTENDS Config, NatFacts, SequenceTheorems

USE WidthAssumption, ConfigAssumption

--------------------------------------------------------------------------
\* Masks and prefixes.

\* How many addresses a prefix of length len has.
Span(len) == 2 ^ (Width - len)

LEMMA SpanSpec ==
  ASSUME NEW len \in 0 .. Width
  PROVE  /\ Span(len) \in Nat \ {0} /\ Span(len) <= 2 ^ Width /\ Span(0) = 2 ^ Width
         /\ 2 ^ Width \in Nat \ {0}
<1>1. Width - len \in Nat /\ (Width - len) + len = Width /\ Width - 0 = Width
  OBVIOUS
<1>2. 2 ^ (Width - len) \in Nat \ {0} /\ 2 ^ Width \in Nat \ {0}
  BY <1>1, PowerNat, Zenon
<1>3. 2 ^ (Width - len) <= 2 ^ ((Width - len) + len)
  BY <1>1, PowerMonotone
<1> QED BY <1>1, <1>2, <1>3, Zenon DEF Span

\* The mask is a number of Width bits, and what it leaves out are the low bits, for
\* the lengths 0 and Width too (peer.c:196).
LEMMA MaskSpec ==
  ASSUME NEW len \in 0 .. Width
  PROVE  Mask(len) \in Addresses /\ 2 ^ Width - Mask(len) = Span(len)
<1> DEFINE N == 2 ^ Width  q == Span(len)
<1>1. q \in Nat \ {0} /\ q <= N /\ Span(0) = N /\ N \in Nat \ {0}
  BY SpanSpec, Zenon
<1>2. Mask(len) = IF len = 0 THEN 0 ELSE (N - q) % N
  BY Zenon DEF Mask, Span
<1>3. Addresses = 0 .. N - 1
  BY Zenon DEF Addresses
<1> HIDE DEF N
<1>4. (N - q) % N = N - q
  <2> HIDE DEF q
  <2>1. N - q \in Nat /\ N - q < N
    BY <1>1
  <2> DEFINE x == N - q
  <2>2. x \div N \in Nat /\ x % N \in 0 .. N - 1 /\ x = N * (x \div N) + (x % N)
    BY <1>1, <2>1, DivisionSpec, Zenon
  <2>3. x \in 0 .. N - 1 /\ N * 0 + x = N * (x \div N) + (x % N)
    BY <1>1, <2>1, <2>2
  <2> HIDE DEF x
  <2>4. 0 = x \div N
    BY <1>1, <2>2, <2>3, QuotientUnique
  <2>5. x = x % N
    BY <1>1, <2>2, <2>3, <2>4
  <2> QED BY <2>5, Zenon DEF x
<1>5. CASE len = 0
  <2>1. Mask(len) = 0 /\ q = N
    BY <1>1, <1>2, <1>5, Zenon
  <2> QED BY <1>1, <1>3, <2>1 DEF N
<1>6. CASE len # 0
  <2>1. Mask(len) = N - q
    BY <1>2, <1>4, <1>6, Zenon
  <2> HIDE DEF q
  <2>2. Mask(len) \in Addresses /\ N - Mask(len) = q
    BY <1>1, <1>3, <2>1
  <2> QED BY <2>2, Zenon DEF N, q
<1> QED BY <1>5, <1>6, Zenon

\* And with a mask rounds an address down to a multiple of the span.
LEMMA AndSpec ==
  ASSUME NEW len \in 0 .. Width, NEW a \in Addresses
  PROVE  And(a, Mask(len)) = a - (a % Span(len))
BY MaskSpec, Zenon DEF And

LEMMA AddressNat == Addresses \subseteq Nat
BY SpanSpec DEF Addresses

\* parse_cidr makes a prefix of what it does not refuse.
LEMMA ParseSpec ==
  ASSUME NEW v, ValidCidr(v)
  PROVE  ParseCidr(v) \in IpPrefixes
<1> DEFINE len == IF v.slash THEN v.len ELSE Width
           net == And(v.addr, Mask(len))
<1>1. len \in 0 .. Width /\ v.addr \in Addresses /\ v.addr \in Nat
  <2>1. v.addr \in Addresses /\ v.addr \in Nat
    BY AddressNat, Zenon DEF ValidCidr
  <2>2. CASE v.slash
    BY <2>1, <2>2, Zenon DEF ValidCidr
  <2>3. CASE ~v.slash
    <3>1. len = Width
      BY <2>3, Zenon
    <3> HIDE DEF len
    <3> QED BY <2>1, <3>1
  <2> QED BY <2>2, <2>3, Zenon
<1>2. ParseCidr(v) = [network |-> net, mask |-> Mask(len), prefix_len |-> len]
  BY Zenon DEF ParseCidr
<1> HIDE DEF len
<1>3. Span(len) \in Nat \ {0} /\ Mask(len) \in Addresses
  BY <1>1, SpanSpec, MaskSpec, Zenon
<1>4. net = v.addr - (v.addr % Span(len))
  BY <1>1, AndSpec, Zenon
<1>5. net \in 0 .. v.addr /\ net - (net % Span(len)) = net
  <2> DEFINE q == Span(len)  a == v.addr
  <2>1. q \in Nat \ {0} /\ a \in Nat
    BY <1>1, <1>3, Zenon
  <2> HIDE DEF q, a
  <2>2. a - (a % q) \in 0 .. a /\ (a - (a % q)) - ((a - (a % q)) % q) = a - (a % q)
    BY <2>1, RoundedDown, Zenon
  <2> QED BY <1>4, <2>2, Zenon DEF q, a
<1> HIDE DEF net
<1>6. net \in Addresses
  <2>1. 2 ^ Width \in Nat
    BY SpanSpec
  <2> QED BY <1>1, <1>5, <2>1 DEF Addresses
<1>7. And(net, Mask(len)) = net
  BY <1>1, <1>5, <1>6, AndSpec, Zenon
<1> QED BY <1>1, <1>2, <1>3, <1>6, <1>7 DEF IpPrefixes

\* The masked comparison of route_lookup and check_allowed_src is the comparison of
\* the leading bits (peer.c:194-198).
LEMMA MatchesCovers ==
  ASSUME NEW r \in IpPrefixes, NEW ip \in Addresses
  PROVE  Matches(ip, r) <=> Covers(r, ip)
<1> DEFINE q == Span(r.prefix_len)
<1>1. /\ r.network \in Addresses /\ r.prefix_len \in 0 .. Width
      /\ r.mask = Mask(r.prefix_len) /\ And(r.network, r.mask) = r.network
  BY Zenon DEF IpPrefixes
<1>2. And(ip, r.mask) = ip - (ip % q) /\ r.network = r.network - (r.network % q)
  BY <1>1, AndSpec, Zenon
<1>3. q \in Nat \ {0} /\ ip \in Nat /\ r.network \in Nat
  BY <1>1, SpanSpec, AddressNat, Zenon
<1>4. Covers(r, ip) <=> ip \div q = r.network \div q
  BY Zenon DEF Covers, Span
<1> HIDE DEF q
<1>5. ip - (ip % q) = r.network - (r.network % q) <=> ip \div q = r.network \div q
  BY <1>3, RoundedDown, Zenon
<1> QED BY <1>2, <1>4, <1>5, Zenon DEF Matches

--------------------------------------------------------------------------
\* The two loops of route_lookup.

Bests == [slot : Nat, prefix_len : Int]

LEMMA BetterSpec ==
  ASSUME NEW best \in Bests, NEW i \in Nat, NEW r \in IpPrefixes, NEW dst
  PROVE  /\ r.prefix_len \in 0 .. Width /\ Better(best, i, r, dst) \in Bests
         /\ Matches(dst, r) => r.prefix_len <= Better(best, i, r, dst).prefix_len
         /\ \/ Better(best, i, r, dst) = best
            \/ /\ Matches(dst, r) /\ r.prefix_len > best.prefix_len
               /\ Better(best, i, r, dst) = [slot |-> i, prefix_len |-> r.prefix_len]
<1>1. r.prefix_len \in 0 .. Width
  BY Zenon DEF IpPrefixes
<1> QED BY <1>1 DEF Better, Bests

\* The inner loop computes what its recurrence says.
LEMMA ScanRoutesRec ==
  ASSUME NEW best \in Bests, NEW i \in Nat, NEW routes \in Seq(IpPrefixes), NEW dst
  PROVE  LET b == ScanRoutes(best, i, routes, dst) IN
         /\ b \in [0 .. Len(routes) -> Bests] /\ b[0] = best
         /\ \A k \in 1 .. Len(routes) : b[k] = Better(b[k - 1], i, routes[k], dst)
<1> DEFINE n == Len(routes)
           step == [k \in 1 .. n |-> [b \in Bests |-> Better(b, i, routes[k], dst)]]
           Rec(g) == [k \in 0 .. n |-> IF k = 0 THEN best ELSE Better(g[k - 1], i, routes[k], dst)]
<1>1. n \in Nat /\ \A k \in 1 .. n : routes[k] \in IpPrefixes
  OBVIOUS
<1>2. step \in Steps(n, Bests)
  BY <1>1, BetterSpec, Zenon DEF Steps
<1>3. PICK g : Solution(g, n, Bests, best, step)
  <2> HIDE DEF n, step
  <2> QED BY <1>1, <1>2, Recurrence, Zenon
<1>4. g = Rec(g)
  <2> USE DEF Solution
  <2>1. \A k \in 1 .. n : k - 1 \in 0 .. n /\ g[k - 1] \in Bests
    BY <1>1, <1>3
  <2>2. \A k \in 1 .. n : g[k] = Better(g[k - 1], i, routes[k], dst)
    BY <1>3, <2>1, Zenon
  <2>3. \A k \in 0 .. n : g[k] = Rec(g)[k]
    BY <1>3, <2>2
  <2> QED BY <1>3, <2>3, Zenon
<1> DEFINE b == ScanRoutes(best, i, routes, dst)
<1>5. b = Rec(b)
  BY <1>4, Zenon DEF ScanRoutes
<1> HIDE DEF b
<1>6. b[0] = best /\ \A k \in 1 .. n : b[k] = Better(b[k - 1], i, routes[k], dst)
  BY <1>1, <1>5
<1>7. \A k \in 0 .. n : b[k] \in Bests
  <2> DEFINE S == {k \in 0 .. n : b[k] \in Bests}
  <2>1. 0 \in S
    BY <1>1, <1>6
  <2>2. ASSUME NEW k \in 0 .. n - 1, k \in S PROVE k + 1 \in S
    <3>1. k + 1 \in 1 .. n /\ (k + 1) - 1 = k /\ k + 1 \in 0 .. n
      BY <1>1
    <3>2. b[k + 1] = Better(b[k], i, routes[k + 1], dst)
      BY <1>6, <3>1, Zenon
    <3>4. b[k] \in Bests /\ routes[k + 1] \in IpPrefixes
      BY <1>1, <2>2, <3>1, Zenon
    <3>5. Better(b[k], i, routes[k + 1], dst) \in Bests
      BY <3>4, BetterSpec, Zenon
    <3>3. b[k + 1] \in Bests
      BY <3>2, <3>5, Zenon
    <3> QED BY <3>1, <3>3, Zenon
  <2>3. 0 .. n \subseteq S
    <3> HIDE DEF S, n
    <3> QED BY <1>1, <2>1, <2>2, IntervalInduct, Zenon
  <2> QED BY <2>3, Zenon
<1>8. b \in [0 .. n -> Bests]
  BY <1>5, <1>7, Zenon
<1> QED BY <1>6, <1>8, Zenon DEF b

\* The lengths of the routes that match.
MatchLengths(routes, dst) ==
  {routes[k].prefix_len : k \in {j \in 1 .. Len(routes) : Matches(dst, routes[j])}}

\* After the routes of a slot the best is at least as long as any of them that matches,
\* and it is the old one or a longer one of theirs.
LEMMA ScanRoutesSpec ==
  ASSUME NEW best \in Bests, NEW i \in Nat, NEW routes \in Seq(IpPrefixes), NEW dst
  PROVE  LET b == ScanRoutes(best, i, routes, dst)[Len(routes)] IN
         /\ b \in Bests
         /\ \A m \in MatchLengths(routes, dst) : m <= b.prefix_len
         /\ \/ b = best
            \/ /\ b.slot = i /\ b.prefix_len > best.prefix_len
               /\ b.prefix_len \in MatchLengths(routes, dst)
<1> DEFINE n == Len(routes)
           b == ScanRoutes(best, i, routes, dst)
           Good(k) == /\ \A j \in 1 .. k : Matches(dst, routes[j]) =>
                                             routes[j].prefix_len <= b[k].prefix_len
                      /\ \/ b[k] = best
                         \/ /\ b[k].slot = i /\ b[k].prefix_len > best.prefix_len
                            /\ \E j \in 1 .. k : /\ Matches(dst, routes[j])
                                                 /\ b[k].prefix_len = routes[j].prefix_len
           S == {k \in 0 .. n : Good(k)}
<1>1. /\ n \in Nat /\ b \in [0 .. n -> Bests] /\ b[0] = best
      /\ \A k \in 1 .. n : b[k] = Better(b[k - 1], i, routes[k], dst)
  BY ScanRoutesRec
<1>2. \A k \in 1 .. n : routes[k] \in IpPrefixes /\ routes[k].prefix_len \in Int
  BY DEF IpPrefixes
<1> HIDE DEF b, n
<1>3. 0 \in S
  BY <1>1
<1>4. ASSUME NEW k \in 0 .. n - 1, k \in S PROVE k + 1 \in S
  <2>1. k + 1 \in 1 .. n /\ (k + 1) - 1 = k /\ k + 1 \in 0 .. n /\ k \in 0 .. n
    BY <1>1
  <2>2. b[k + 1] = Better(b[k], i, routes[k + 1], dst) /\ b[k] \in Bests /\ b[k + 1] \in Bests
    BY <1>1, <2>1, Zenon
  <2>3. routes[k + 1] \in IpPrefixes
    BY <1>2, <2>1, Zenon
  <2>4. /\ Matches(dst, routes[k + 1]) => routes[k + 1].prefix_len <= b[k + 1].prefix_len
        /\ \/ b[k + 1] = b[k]
           \/ /\ Matches(dst, routes[k + 1]) /\ routes[k + 1].prefix_len > b[k].prefix_len
              /\ b[k + 1].slot = i /\ b[k + 1].prefix_len = routes[k + 1].prefix_len
    <3> DEFINE c == b[k]  r == routes[k + 1]
    <3>1. c \in Bests /\ r \in IpPrefixes /\ b[k + 1] = Better(c, i, r, dst)
      BY <2>2, <2>3, Zenon
    <3> HIDE DEF c, r
    <3>2. /\ Matches(dst, r) => r.prefix_len <= b[k + 1].prefix_len
          /\ \/ b[k + 1] = c
             \/ /\ Matches(dst, r) /\ r.prefix_len > c.prefix_len
                /\ b[k + 1] = [slot |-> i, prefix_len |-> r.prefix_len]
      BY <3>1, BetterSpec
    <3> QED BY <3>2 DEF c, r
  <2>5. /\ b[k].prefix_len \in Int /\ b[k + 1].prefix_len \in Int /\ best.prefix_len \in Int
        /\ b[k].prefix_len <= b[k + 1].prefix_len
    BY <1>2, <2>1, <2>2, <2>4 DEF Bests
  <2>6. Good(k)
    BY <1>4, Zenon
  <2>7. \A j \in 1 .. k + 1 : Matches(dst, routes[j]) => routes[j].prefix_len <= b[k + 1].prefix_len
    <3>1. ASSUME NEW j \in 1 .. k PROVE routes[j].prefix_len \in Int
      BY <1>1, <1>2, <2>1
    <3> QED BY <2>4, <2>5, <2>6, <3>1
  <2>8. \/ b[k + 1] = best
        \/ /\ b[k + 1].slot = i /\ b[k + 1].prefix_len > best.prefix_len
           /\ \E j \in 1 .. k + 1 : /\ Matches(dst, routes[j])
                                    /\ b[k + 1].prefix_len = routes[j].prefix_len
    <3>1. CASE b[k + 1] = b[k]
      <4>1. 1 .. k \subseteq 1 .. k + 1
        BY <2>1
      <4> QED BY <2>6, <3>1, <4>1, Zenon
    <3>2. CASE b[k + 1] # b[k]
      <4>1. k + 1 \in 1 .. k + 1
        BY <2>1
      <4>2. b[k].prefix_len >= best.prefix_len
        BY <2>5, <2>6
      <4>3. b[k + 1].prefix_len > best.prefix_len
        BY <2>4, <2>5, <3>2, <4>2
      <4> QED BY <2>4, <3>2, <4>1, <4>3, Zenon
    <3> QED BY <3>1, <3>2, Zenon
  <2> QED BY <2>1, <2>7, <2>8, Zenon
<1>5. Good(n)
  <2>1. 0 .. n \subseteq S
    <3> HIDE DEF S
    <3> QED BY <1>1, <1>3, <1>4, IntervalInduct, Zenon
  <2> QED BY <1>1, <2>1
<1>6. b[n] \in Bests
  BY <1>1
<1> QED BY <1>5, <1>6, Zenon DEF MatchLengths, b, n

\* The best after slot s, given the best before it.
SlotBest(best, slots, s, dst) ==
  IF slots[s].active THEN ScanRoutes(best, s, slots[s].routes, dst)[Len(slots[s].routes)]
                     ELSE best

LEMMA SlotFields ==
  ASSUME NEW slots \in Seq(SessionSlots), NEW s \in 1 .. Len(slots)
  PROVE  /\ slots[s].active \in BOOLEAN /\ slots[s].routes \in Seq(IpPrefixes)
         /\ \A k \in 1 .. Len(slots[s].routes) : slots[s].routes[k] \in IpPrefixes
<1>1. slots[s] \in SessionSlots
  OBVIOUS
<1>2. slots[s].active \in BOOLEAN /\ slots[s].routes \in Seq(IpPrefixes)
  BY <1>1, Zenon DEF SessionSlots
<1> QED BY <1>2

LEMMA SlotBestSpec ==
  ASSUME NEW best \in Bests, NEW slots \in Seq(SessionSlots), NEW s \in 1 .. Len(slots), NEW dst
  PROVE  /\ SlotBest(best, slots, s, dst) \in Bests
         /\ \/ SlotBest(best, slots, s, dst) = best
            \/ /\ SlotBest(best, slots, s, dst).slot = s /\ slots[s].active
               /\ SlotBest(best, slots, s, dst).prefix_len > best.prefix_len
               /\ SlotBest(best, slots, s, dst).prefix_len \in MatchLengths(slots[s].routes, dst)
         /\ slots[s].active => \A m \in MatchLengths(slots[s].routes, dst) :
                                 m <= SlotBest(best, slots, s, dst).prefix_len
<1> DEFINE routes == slots[s].routes
           b == ScanRoutes(best, s, routes, dst)[Len(routes)]
<1>1. routes \in Seq(IpPrefixes) /\ s \in Nat /\ slots[s].active \in BOOLEAN
  BY SlotFields
<1>2. /\ b \in Bests
      /\ \A m \in MatchLengths(routes, dst) : m <= b.prefix_len
      /\ \/ b = best
         \/ /\ b.slot = s /\ b.prefix_len > best.prefix_len
            /\ b.prefix_len \in MatchLengths(routes, dst)
  <2> HIDE DEF routes
  <2> QED BY <1>1, ScanRoutesSpec, Zenon
<1>3. SlotBest(best, slots, s, dst) = IF slots[s].active THEN b ELSE best
  BY Zenon DEF SlotBest
<1> HIDE DEF b
<1> QED BY <1>1, <1>2, <1>3, Zenon

\* The outer loop computes what its recurrence says.
LEMMA ScanSlotsRec ==
  ASSUME NEW slots \in Seq(SessionSlots), NEW dst
  PROVE  LET b == ScanSlots(slots, dst) IN
         /\ b \in [0 .. Len(slots) -> Bests] /\ b[0] = NoBest
         /\ \A s \in 1 .. Len(slots) : b[s] = SlotBest(b[s - 1], slots, s, dst)
<1> DEFINE n == Len(slots)
           step == [s \in 1 .. n |-> [b \in Bests |-> SlotBest(b, slots, s, dst)]]
           Rec(g) == [i \in 0 .. n |-> IF i = 0 THEN NoBest ELSE SlotBest(g[i - 1], slots, i, dst)]
<1>1. n \in Nat /\ NoBest \in Bests
  BY DEF NoBest, Bests
<1>2. step \in Steps(n, Bests)
  BY SlotBestSpec, Zenon DEF Steps
<1>3. PICK g : Solution(g, n, Bests, NoBest, step)
  <2> HIDE DEF n, step
  <2> QED BY <1>1, <1>2, Recurrence, Zenon
<1>4. g = Rec(g)
  <2> USE DEF Solution
  <2>1. \A s \in 1 .. n : s - 1 \in 0 .. n /\ g[s - 1] \in Bests
    BY <1>1, <1>3
  <2>2. \A s \in 1 .. n : g[s] = SlotBest(g[s - 1], slots, s, dst)
    BY <1>3, <2>1, Zenon
  <2>3. \A s \in 0 .. n : g[s] = Rec(g)[s]
    BY <1>3, <2>2
  <2> QED BY <1>3, <2>3, Zenon
<1> DEFINE b == ScanSlots(slots, dst)
<1>5. b = Rec(b)
  BY <1>4, Zenon DEF ScanSlots, SlotBest
<1> HIDE DEF b
<1>6. b[0] = NoBest /\ \A s \in 1 .. n : b[s] = SlotBest(b[s - 1], slots, s, dst)
  BY <1>1, <1>5
<1>7. \A s \in 0 .. n : b[s] \in Bests
  <2> DEFINE S == {s \in 0 .. n : b[s] \in Bests}
  <2>1. 0 \in S
    BY <1>1, <1>6
  <2>2. ASSUME NEW k \in 0 .. n - 1, k \in S PROVE k + 1 \in S
    <3>1. k + 1 \in 1 .. n /\ (k + 1) - 1 = k /\ k + 1 \in 0 .. n /\ b[k] \in Bests
      BY <1>1, <2>2
    <3>2. SlotBest(b[k], slots, k + 1, dst) \in Bests
      BY <3>1, SlotBestSpec, Zenon
    <3>3. b[k + 1] \in Bests
      BY <1>6, <3>1, <3>2, Zenon
    <3> QED BY <3>1, <3>3, Zenon
  <2>3. 0 .. n \subseteq S
    <3> HIDE DEF S, n
    <3> QED BY <1>1, <2>1, <2>2, IntervalInduct, Zenon
  <2> QED BY <2>3, Zenon
<1>8. b \in [0 .. n -> Bests]
  BY <1>5, <1>7, Zenon
<1> QED BY <1>6, <1>8, Zenon DEF b

\* What matches in slot s, if it is active.
SlotLengths(slots, s, dst) ==
  IF slots[s].active THEN MatchLengths(slots[s].routes, dst) ELSE {}

LEMMA SlotLengthsNat ==
  ASSUME NEW slots \in Seq(SessionSlots), NEW s \in 1 .. Len(slots), NEW dst
  PROVE  SlotLengths(slots, s, dst) \subseteq Nat
<1>1. slots[s].routes \in Seq(IpPrefixes)
  BY SlotFields, Zenon
<1>2. \A k \in 1 .. Len(slots[s].routes) : slots[s].routes[k].prefix_len \in Nat
  BY <1>1 DEF IpPrefixes
<1> QED BY <1>2, Zenon DEF SlotLengths, MatchLengths

\* After all slots: no match, or the longest one, in the first slot that has it.
LEMMA RouteLookupSpec ==
  ASSUME NEW slots \in Seq(SessionSlots), NEW dst
  PROVE  LET r == RouteLookup(slots, dst) IN
         \/ /\ r = 0 /\ \A s \in 1 .. Len(slots) : SlotLengths(slots, s, dst) = {}
         \/ /\ r \in 1 .. Len(slots)
            /\ \E n \in SlotLengths(slots, r, dst) :
                 /\ \A s \in 1 .. Len(slots) : \A m \in SlotLengths(slots, s, dst) : m <= n
                 /\ \A s \in 1 .. r - 1 : n \notin SlotLengths(slots, s, dst)
<1> DEFINE n == Len(slots)
           L(s) == SlotLengths(slots, s, dst)
           b == ScanSlots(slots, dst)
           Good(k) ==
             /\ \A s \in 1 .. k : \A m \in L(s) : m <= b[k].prefix_len
             /\ \/ b[k] = NoBest
                \/ /\ b[k].slot \in 1 .. k /\ b[k].prefix_len \in L(b[k].slot)
                   /\ \A s \in 1 .. b[k].slot - 1 : b[k].prefix_len \notin L(s)
           S == {k \in 0 .. n : Good(k)}
<1>1. /\ n \in Nat /\ b \in [0 .. n -> Bests] /\ b[0] = NoBest
      /\ \A s \in 1 .. n : b[s] = SlotBest(b[s - 1], slots, s, dst)
  BY ScanSlotsRec
<1>2. \A s \in 1 .. n : L(s) \subseteq Nat
  BY SlotLengthsNat, Zenon
<1> HIDE DEF b, n, L
<1>3. 0 \in S
  BY <1>1
<1>4. ASSUME NEW k \in 0 .. n - 1, k \in S PROVE k + 1 \in S
  <2> DEFINE c == b[k]  d == b[k + 1]  t == k + 1
  <2>1. t \in 1 .. n /\ t - 1 = k /\ t \in 0 .. n /\ k \in 0 .. n
    BY <1>1
  <2>2. d = SlotBest(c, slots, t, dst) /\ c \in Bests /\ d \in Bests
    BY <1>1, <2>1, Zenon
  <2>3. Good(k)
    BY <1>4, Zenon
  <2> HIDE DEF c, d
  <2>4. \/ d = c
        \/ d.slot = t /\ d.prefix_len > c.prefix_len /\ d.prefix_len \in L(t)
    BY <2>1, <2>2, SlotBestSpec DEF L, SlotLengths, n
  <2>5. \A m \in L(t) : m <= d.prefix_len
    BY <2>1, <2>2, SlotBestSpec, Zenon DEF L, SlotLengths, n
  <2>6. c.prefix_len \in Int /\ d.prefix_len \in Int /\ c.prefix_len <= d.prefix_len
    BY <2>2, <2>4 DEF Bests
  <2>7. \A s \in 1 .. k : \A m \in L(s) : m \in Int /\ m <= c.prefix_len
    BY <1>1, <1>2, <2>1, <2>3 DEF c
  <2>8. \A s \in 1 .. t : \A m \in L(s) : m <= d.prefix_len
    BY <2>1, <2>5, <2>6, <2>7
  <2>9. \/ d = NoBest
        \/ /\ d.slot \in 1 .. t /\ d.prefix_len \in L(d.slot)
           /\ \A s \in 1 .. d.slot - 1 : d.prefix_len \notin L(s)
    <3>1. CASE d = c
      BY <2>1, <2>3, <3>1 DEF c
    <3>2. CASE d # c
      <4>1. d.slot = t /\ d.prefix_len > c.prefix_len /\ d.prefix_len \in L(t)
        BY <2>4, <3>2, Zenon
      <4>2. \A s \in 1 .. t - 1 : d.prefix_len \notin L(s)
        BY <2>1, <2>6, <2>7, <4>1
      <4> QED BY <2>1, <4>1, <4>2
    <3> QED BY <3>1, <3>2, Zenon
  <2>10. Good(t)
    BY <2>8, <2>9, Zenon DEF d
  <2> QED BY <2>1, <2>10, Zenon
<1>5. Good(n) /\ b[n] \in Bests
  <2>1. 0 .. n \subseteq S
    <3> HIDE DEF S
    <3> QED BY <1>1, <1>3, <1>4, IntervalInduct, Zenon
  <2> QED BY <1>1, <2>1
<1>6. RouteLookup(slots, dst) = b[n].slot
  BY Zenon DEF RouteLookup, b, n
<1>7. CASE b[n] = NoBest
  <2>1. ASSUME NEW s \in 1 .. n, NEW m \in L(s) PROVE FALSE
    <3>1. m <= -1 /\ m \in Nat
      BY <1>2, <1>5, <1>7, <2>1 DEF NoBest
    <3> QED BY <3>1
  <2>2. b[n].slot = 0
    BY <1>7 DEF NoBest
  <2> QED BY <1>6, <2>1, <2>2, Zenon DEF L, n
<1>8. CASE b[n] # NoBest
  BY <1>5, <1>6, <1>8, Zenon DEF L, n
<1> QED BY <1>7, <1>8, Zenon

\* The two statements about routing hold of every table of sessions.
LEMMA RoutesRight ==
  ASSUME sessions \in Seq(SessionSlots)
  PROVE  LongestPrefix /\ ReplyPath
<1>1. ASSUME NEW s \in 1 .. Len(sessions), NEW ip \in Addresses
      PROVE  SlotLengths(sessions, s, ip) = Lengths(s, ip)
  <2>1. \A k \in 1 .. Len(sessions[s].routes) : sessions[s].routes[k] \in IpPrefixes
    BY SlotFields, Zenon
  <2>2. \A k \in 1 .. Len(sessions[s].routes) :
          Matches(ip, sessions[s].routes[k]) <=> Covers(sessions[s].routes[k], ip)
    BY <2>1, MatchesCovers, Zenon
  <2>3. {j \in 1 .. Len(sessions[s].routes) : Matches(ip, sessions[s].routes[j])}
          = {k \in 1 .. Len(sessions[s].routes) : Covers(sessions[s].routes[k], ip)}
    BY <2>2, Zenon
  <2> QED BY <2>3, Zenon DEF SlotLengths, MatchLengths, Lengths
<1>2. ASSUME NEW ip \in Addresses
      PROVE  LET r == RouteLookup(sessions, ip) IN
             \/ /\ r = 0 /\ \A s \in 1 .. Len(sessions) : Lengths(s, ip) = {}
             \/ /\ r \in 1 .. Len(sessions)
                /\ \E n \in Lengths(r, ip) :
                     /\ \A s \in 1 .. Len(sessions) : \A m \in Lengths(s, ip) : m <= n
                     /\ \A s \in 1 .. r - 1 : n \notin Lengths(s, ip)
  <2> DEFINE r == RouteLookup(sessions, ip)
  <2>1. \/ /\ r = 0 /\ \A s \in 1 .. Len(sessions) : SlotLengths(sessions, s, ip) = {}
        \/ /\ r \in 1 .. Len(sessions)
           /\ \E n \in SlotLengths(sessions, r, ip) :
                /\ \A s \in 1 .. Len(sessions) : \A m \in SlotLengths(sessions, s, ip) : m <= n
                /\ \A s \in 1 .. r - 1 : n \notin SlotLengths(sessions, s, ip)
    BY RouteLookupSpec, Zenon
  <2> HIDE DEF r
  <2>2. r \in 1 .. Len(sessions) => 1 .. r - 1 \subseteq 1 .. Len(sessions)
    OBVIOUS
  <2>3. \/ /\ r = 0 /\ \A s \in 1 .. Len(sessions) : Lengths(s, ip) = {}
        \/ /\ r \in 1 .. Len(sessions)
           /\ \E n \in Lengths(r, ip) :
                /\ \A s \in 1 .. Len(sessions) : \A m \in Lengths(s, ip) : m <= n
                /\ \A s \in 1 .. r - 1 : n \notin Lengths(s, ip)
    BY <1>1, <2>1, <2>2
  <2> QED BY <2>3, Zenon DEF r
<1>3. LongestPrefix
  <2> SUFFICES ASSUME NEW ip \in Addresses
               PROVE  LET r == RouteLookup(sessions, ip)
                          all == UNION {Lengths(s, ip) : s \in 1 .. Len(sessions)}
                      IN IF all = {} THEN r = 0
                         ELSE /\ r # 0 /\ \E n \in Lengths(r, ip) :
                                            /\ \A m \in all : m <= n
                                            /\ \A s \in 1 .. r - 1 : n \notin Lengths(s, ip)
    BY Zenon DEF LongestPrefix
  <2> DEFINE r == RouteLookup(sessions, ip)
             all == UNION {Lengths(s, ip) : s \in 1 .. Len(sessions)}
  <2>1. CASE r = 0 /\ \A s \in 1 .. Len(sessions) : Lengths(s, ip) = {}
    <3>1. all = {}
      BY <2>1
    <3> QED BY <2>1, <3>1, Zenon
  <2>2. CASE /\ r \in 1 .. Len(sessions)
             /\ \E n \in Lengths(r, ip) :
                  /\ \A s \in 1 .. Len(sessions) : \A m \in Lengths(s, ip) : m <= n
                  /\ \A s \in 1 .. r - 1 : n \notin Lengths(s, ip)
    <3>1. PICK n \in Lengths(r, ip) :
            /\ \A s \in 1 .. Len(sessions) : \A m \in Lengths(s, ip) : m <= n
            /\ \A s \in 1 .. r - 1 : n \notin Lengths(s, ip)
      BY <2>2, Zenon
    <3>2. n \in all /\ \A m \in all : m <= n
      BY <2>2, <3>1, Zenon
    <3>3. r # 0
      BY <2>2
    <3> HIDE DEF all, r
    <3> QED BY <3>1, <3>2, <3>3, Zenon DEF all, r
  <2> QED BY <1>2, <2>1, <2>2, Zenon
<1>4. ReplyPath
  <2> SUFFICES ASSUME NEW s \in 1 .. Len(sessions), NEW src \in Addresses,
                      sessions[s].active, sessions[s].routes # <<>>,
                      NEW dst \in Addresses, Dispatch(sessions, s, src, dst) # -1
               PROVE  /\ RouteLookup(sessions, src) # 0
                      /\ \A m \in Lengths(s, src) :
                           \E n \in Lengths(RouteLookup(sessions, src), src) : n >= m
    BY Zenon DEF ReplyPath
  <2>1. sessions[s].routes \in Seq(IpPrefixes) /\ Len(sessions[s].routes) > 0
    BY SlotFields
  <2>2. CheckAllowedSrc(sessions[s], src)
    BY <2>1, Zenon DEF Dispatch
  <2>3. PICK j \in 1 .. Len(sessions[s].routes) : Matches(src, sessions[s].routes[j])
    BY <2>1, <2>2 DEF CheckAllowedSrc
  <2>4. Lengths(s, src) # {} /\ Lengths(s, src) \subseteq Nat
    <3>1. sessions[s].routes[j].prefix_len \in MatchLengths(sessions[s].routes, src)
      BY <2>3, Zenon DEF MatchLengths
    <3>2. SlotLengths(sessions, s, src) = MatchLengths(sessions[s].routes, src)
      BY Zenon DEF SlotLengths
    <3>3. SlotLengths(sessions, s, src) \subseteq Nat
      BY SlotLengthsNat, Zenon
    <3> QED BY <1>1, <3>1, <3>2, <3>3, Zenon
  <2>5. RouteLookup(sessions, src) \in 1 .. Len(sessions)
    BY <1>2, <2>4, Zenon
  <2>6. PICK n \in Lengths(RouteLookup(sessions, src), src) : \A m \in Lengths(s, src) : m <= n
    BY <1>2, <2>4, Zenon
  <2>7. n \in Nat
    BY <1>1, <2>5, <2>6, SlotLengthsNat
  <2> QED BY <2>4, <2>5, <2>6, <2>7
<1> QED BY <1>3, <1>4, Zenon

--------------------------------------------------------------------------
\* What the automaton stores: each operation on a configuration keeps its shape and
\* the limits on its arrays.

Stored(c) ==
  /\ DOMAIN c = {"set", "peers"} /\ c.peers \in Seq(PeerConfigs)
  /\ Len(c.peers) <= MaxPeers
  /\ \A i \in 1 .. Len(c.peers) : Len(c.peers[i].routes) <= MaxRoutes

LEMMA PeerFields ==
  ASSUME NEW c, Stored(c), NEW i \in 1 .. Len(c.peers)
  PROVE  /\ c.peers[i] \in PeerConfigs /\ c.peers[i].pub \in Pubs
         /\ c.peers[i].endpoint \in BOOLEAN /\ c.peers[i].routes \in Seq(IpPrefixes)
<1>1. c.peers[i] \in PeerConfigs
  BY DEF Stored
<1> QED BY <1>1, Zenon DEF PeerConfigs

LEMMA StoredSetting ==
  ASSUME NEW c, Stored(c), NEW k, NEW v
  PROVE  /\ Stored([c EXCEPT !.set[k] = v]) /\ [c EXCEPT !.set[k] = v].peers = c.peers
         /\ Stored(WithSetting(c, k, v)) /\ WithSetting(c, k, v).peers = c.peers
<1>1. ASSUME NEW x PROVE LET d == [c EXCEPT !.set[k] = x]
                         IN Stored(d) /\ d.peers = c.peers
  <2> DEFINE d == [c EXCEPT !.set[k] = x]
  <2>1. DOMAIN d = {"set", "peers"} /\ d.peers = c.peers
    BY Zenon DEF Stored
  <2> HIDE DEF d
  <2>2. Stored(d)
    BY <2>1, Zenon DEF Stored
  <2> QED BY <2>1, <2>2, Zenon DEF d
<1> QED BY <1>1, Zenon DEF WithSetting

LEMMA StoredPeer ==
  ASSUME NEW c, Stored(c), Len(c.peers) < MaxPeers
  PROVE  Stored(WithPeer(c)) /\ Len(WithPeer(c).peers) > 0
<1> DEFINE d == WithPeer(c)
<1>1. NewPeer \in PeerConfigs /\ Len(NewPeer.routes) = 0
  BY DEF NewPeer, PeerConfigs, Pubs
<1>2. DOMAIN d = {"set", "peers"} /\ d.peers = Append(c.peers, NewPeer)
  BY Zenon DEF Stored, WithPeer
<1> HIDE DEF d
<1>3. /\ d.peers \in Seq(PeerConfigs) /\ Len(d.peers) = Len(c.peers) + 1
      /\ \A i \in 1 .. Len(d.peers) : d.peers[i] = IF i <= Len(c.peers) THEN c.peers[i] ELSE NewPeer
  BY <1>1, <1>2, AppendProperties DEF Stored
<1>4. \A i \in 1 .. Len(d.peers) : Len(d.peers[i].routes) <= MaxRoutes
  BY <1>1, <1>3 DEF Stored
<1> QED BY <1>2, <1>3, <1>4 DEF Stored, d

\* Replacing the last peer.
LEMMA StoredLast ==
  ASSUME NEW c, Stored(c), Len(c.peers) > 0,
         NEW p \in PeerConfigs, Len(p.routes) <= MaxRoutes,
         NEW d, DOMAIN d = {"set", "peers"}, d.peers = [c.peers EXCEPT ![Len(c.peers)] = p]
  PROVE  Stored(d) /\ Len(d.peers) > 0
<1>1. Len(c.peers) \in 1 .. Len(c.peers) /\ c.peers \in Seq(PeerConfigs)
  BY DEF Stored
<1>2. /\ d.peers \in Seq(PeerConfigs) /\ Len(d.peers) = Len(c.peers)
      /\ \A j \in 1 .. Len(c.peers) : d.peers[j] = IF j = Len(c.peers) THEN p ELSE c.peers[j]
  BY <1>1, ExceptSeq
<1> QED BY <1>2, Zenon DEF Stored

LEMMA StoredValue ==
  ASSUME NEW c, Stored(c), Len(c.peers) > 0, NEW k, NEW v,
         v.kind = "hex" => v.pub \in Pubs, ~BadPeerValue(k, v)
  PROVE  Stored(WithPeerValue(c, k, v)) /\ Len(WithPeerValue(c, k, v).peers) > 0
<1> DEFINE n == Len(c.peers)
           q == c.peers[n]
<1>1. n \in 1 .. n /\ DOMAIN c = {"set", "peers"}
  BY DEF Stored
<1>2. q \in PeerConfigs /\ Len(q.routes) <= MaxRoutes
  BY <1>1, PeerFields, Zenon DEF Stored
<1>3. CASE k = "public_key"
  <2> DEFINE d == [c EXCEPT !.peers[n].pub = v.pub]
             p == [q EXCEPT !.pub = v.pub]
  <2>1. v.pub \in Pubs
    BY <1>3, Zenon DEF BadPeerValue
  <2>2. p \in PeerConfigs /\ p.routes = q.routes
    BY <1>2, <2>1, Zenon DEF PeerConfigs
  <2>3. DOMAIN d = {"set", "peers"} /\ d.peers = [c.peers EXCEPT ![n] = p]
    BY <1>1, Zenon
  <2>4. WithPeerValue(c, k, v) = d
    BY <1>3, Zenon DEF WithPeerValue
  <2> HIDE DEF d, p, q
  <2>5. Stored(d) /\ Len(d.peers) > 0
    BY <1>2, <2>2, <2>3, StoredLast, Zenon
  <2> QED BY <2>4, <2>5, Zenon
<1>4. CASE k = "endpoint"
  <2> DEFINE d == [c EXCEPT !.peers[n].endpoint = TRUE]
             p == [q EXCEPT !.endpoint = TRUE]
  <2>2. p \in PeerConfigs /\ p.routes = q.routes
    BY <1>2, Zenon DEF PeerConfigs
  <2>3. DOMAIN d = {"set", "peers"} /\ d.peers = [c.peers EXCEPT ![n] = p]
    BY <1>1, Zenon
  <2>4. WithPeerValue(c, k, v) = d
    BY <1>4, Zenon DEF WithPeerValue
  <2> HIDE DEF d, p, q
  <2>5. Stored(d) /\ Len(d.peers) > 0
    BY <1>2, <2>2, <2>3, StoredLast, Zenon
  <2> QED BY <2>4, <2>5, Zenon
<1>5. CASE k \notin {"public_key", "endpoint"}
  BY <1>5, Zenon DEF WithPeerValue
<1> QED BY <1>3, <1>4, <1>5, Zenon

LEMMA StoredRoute ==
  ASSUME NEW c, Stored(c), Len(c.peers) > 0, NEW v, ValidCidr(v),
         Len(c.peers[Len(c.peers)].routes) < MaxRoutes
  PROVE  Stored(WithRoute(c, v)) /\ Len(WithRoute(c, v).peers) > 0
<1> DEFINE n == Len(c.peers)
           q == c.peers[n]
           r == ParseCidr(v)
           p == [q EXCEPT !.routes = Append(q.routes, r)]
           d == WithRoute(c, v)
<1>1. n \in 1 .. n /\ DOMAIN c = {"set", "peers"}
  BY DEF Stored
<1>2. q \in PeerConfigs /\ q.routes \in Seq(IpPrefixes)
  BY <1>1, PeerFields, Zenon
<1>3. r \in IpPrefixes
  BY ParseSpec, Zenon
<1>4. DOMAIN d = {"set", "peers"} /\ d.peers = [c.peers EXCEPT ![n] = p]
  BY <1>1, Zenon DEF WithRoute
<1> HIDE DEF r
<1>5. Append(q.routes, r) \in Seq(IpPrefixes) /\ Len(Append(q.routes, r)) = Len(q.routes) + 1
  BY <1>2, <1>3, AppendProperties
<1>6. p \in PeerConfigs /\ p.routes = Append(q.routes, r)
  BY <1>2, <1>5, Zenon DEF PeerConfigs
<1>7. Len(p.routes) <= MaxRoutes
  BY <1>2, <1>5, <1>6
<1> HIDE DEF d, p, q
<1>8. Stored(d) /\ Len(d.peers) > 0
  BY <1>4, <1>6, <1>7, StoredLast, Zenon
<1> QED BY <1>8, Zenon DEF d

LEMMA StoreShape ==
  StoreInv <=> /\ phase \in {"loading", "running", "exited"} /\ state \in States /\ Stored(cfg)
               /\ state \in {"peerMap", "peerVal", "allowedIpsSeq"} => Len(cfg.peers) > 0
BY Zenon DEF StoreInv, InBounds, Stored

\* Whatever event comes, in whatever state, the automaton stays within its arrays.
LEMMA ParseStep ==
  ASSUME StoreInv, NEW e, e.v.kind = "hex" => e.v.pub \in Pubs, Parse(e)
  PROVE  StoreInv'
<1> DEFINE Filling(s) == s \in {"peerMap", "peerVal", "allowedIpsSeq"}
<1> SUFFICES /\ phase' \in {"loading", "running", "exited"} /\ state' \in States
             /\ Stored(cfg')
             /\ Filling(state') => Len(cfg'.peers) > 0
  BY Zenon DEF StoreInv, InBounds, Stored
<1>1. /\ phase \in {"loading", "running", "exited"} /\ state \in States
      /\ Stored(cfg)
      /\ Filling(state) => Len(cfg.peers) > 0
  BY StoreShape, Zenon
<1>2. CASE Stay
  BY <1>1, <1>2, Zenon DEF Stay
<1>3. CASE Fail
  BY <1>1, <1>3, Zenon DEF Fail
<1>4. CASE CaseRoot(e)
  BY <1>1, <1>2, <1>4, Zenon DEF CaseRoot, States
<1>5. CASE CaseRootVal(e)
  <2>1. CASE e.type = "scalar"
    <3>1. cfg' = WithSetting(cfg, key, e.v) /\ state' = "root" /\ UNCHANGED phase
      BY <1>5, <2>1, Zenon DEF CaseRootVal
    <3> QED BY <1>1, <3>1, StoredSetting, Zenon DEF States
  <2>2. CASE e.type # "scalar"
    BY <1>1, <1>2, <1>5, <2>2, Zenon DEF CaseRootVal, Enter, States
  <2> QED BY <2>1, <2>2, Zenon
<1>6. CASE CasePeersSeq(e)
  <2>1. CASE e.type = "mapStart"
    <3>1. CASE Len(cfg.peers) >= MaxPeers
      <4>1. ~(Len(cfg.peers) < MaxPeers)
        BY <1>1, <3>1 DEF Stored
      <4> QED BY <1>3, <1>6, <2>1, <3>1, <4>1, Zenon DEF CasePeersSeq
    <3>2. CASE Len(cfg.peers) < MaxPeers
      <4>1. ~(Len(cfg.peers) >= MaxPeers)
        BY <1>1, <3>2 DEF Stored
      <4>2. cfg' = WithPeer(cfg) /\ state' = "peerMap" /\ UNCHANGED <<phase, key>>
        BY <1>6, <2>1, <3>2, <4>1, Zenon DEF CasePeersSeq
      <4> QED BY <1>1, <3>2, <4>2, StoredPeer, Zenon DEF States
    <3> QED BY <1>1, <3>1, <3>2 DEF Stored
  <2>2. CASE e.type # "mapStart"
    BY <1>1, <1>2, <1>6, <2>2, Zenon DEF CasePeersSeq, Enter, States
  <2> QED BY <2>1, <2>2, Zenon
<1>7. CASE CasePeerMap(e)
  BY <1>1, <1>2, <1>7, Zenon DEF CasePeerMap, Enter, States
<1>8. CASE CasePeerVal(e)
  <2>1. CASE e.type = "scalar" /\ BadPeerValue(key, e.v)
    BY <1>3, <1>8, <2>1, Zenon DEF CasePeerVal
  <2>2. CASE e.type = "scalar" /\ ~BadPeerValue(key, e.v)
    <3>1. /\ cfg' = WithPeerValue(cfg, key, e.v)
          /\ state' = "peerMap" /\ key' = NoKey /\ UNCHANGED phase /\ state = "peerVal"
      BY <1>8, <2>2, Zenon DEF CasePeerVal
    <3> QED BY <1>1, <2>2, <3>1, StoredValue, Zenon DEF States
  <2>3. CASE e.type # "scalar"
    BY <1>1, <1>2, <1>8, <2>3, Zenon DEF CasePeerVal, Enter, States
  <2> QED BY <2>1, <2>2, <2>3, Zenon
<1>9. CASE CaseAllowedIpsSeq(e)
  <2> DEFINE full == Len(cfg.peers[Len(cfg.peers)].routes) >= MaxRoutes
  <2>1. CASE e.type = "scalar" /\ (full \/ ~ValidCidr(e.v))
    BY <1>3, <1>9, <2>1, Zenon DEF CaseAllowedIpsSeq
  <2>2. CASE e.type = "scalar" /\ ~full /\ ValidCidr(e.v)
    <3>1. cfg' = WithRoute(cfg, e.v) /\ UNCHANGED <<phase, state, key>> /\ state = "allowedIpsSeq"
      BY <1>9, <2>2, Zenon DEF CaseAllowedIpsSeq
    <3>2. Len(cfg.peers) \in 1 .. Len(cfg.peers)
      BY <1>1, <3>1 DEF Stored
    <3>3. Len(cfg.peers[Len(cfg.peers)].routes) < MaxRoutes
      BY <1>1, <2>2, <3>2, PeerFields
    <3> QED BY <1>1, <2>2, <3>1, <3>3, StoredRoute, Zenon
  <2>3. CASE e.type # "scalar"
    BY <1>1, <1>2, <1>9, <2>3, Zenon DEF CaseAllowedIpsSeq, Enter, States
  <2> QED BY <2>1, <2>2, <2>3, Zenon
<1> QED BY <1>4, <1>5, <1>6, <1>7, <1>8, <1>9, Zenon DEF Parse

\* The values of a file.
LEMMA FileValues ==
  ASSUME NEW v, v \in ValuesHere
  PROVE  v.kind = "hex" => v.pub \in Pubs
<1>1. v \in Values \/ v = Other
  <2>1. CASE Inner(nest) = "root" /\ entry \in DOMAIN RootScalars
    BY <2>1, Zenon DEF ValuesHere, Values
  <2>2. CASE Inner(nest) = "peer" /\ entry \in DOMAIN PeerScalars
    BY <2>2, Zenon DEF ValuesHere, Values
  <2>3. CASE Inner(nest) = "ips"
    BY <2>3, Zenon DEF ValuesHere, Values
  <2>4. CASE Inner(nest) \in {"list", "map"}
    BY <2>4, Zenon DEF ValuesHere, Values
  <2> QED BY <2>1, <2>2, <2>3, <2>4, Zenon DEF ValuesHere
<1>2. Other.kind # "hex"
  BY Zenon DEF Other, WordOf
<1> QED BY <1>1, <1>2, Zenon DEF Pubs

--------------------------------------------------------------------------
\* The nesting of a file.

LEMMA AppendFacts ==
  ASSUME NEW s \in Seq(Frames), NEW c \in Frames
  PROVE  /\ Append(s, c) \in Seq(Frames) /\ Len(Append(s, c)) = Len(s) + 1
         /\ Inner(Append(s, c)) = c /\ Outer(Append(s, c)) = s
<1> DEFINE t == Append(s, c)
<1>1. /\ t \in Seq(Frames) /\ Len(t) = Len(s) + 1 /\ t[Len(s) + 1] = c
      /\ \A i \in 1 .. Len(s) : t[i] = s[i]
  BY AppendProperties
<1>2. Inner(t) = c
  BY <1>1, Zenon DEF Inner
<1>3. Outer(t) = SubSeq(t, 1, Len(s))
  BY <1>1 DEF Outer
<1> HIDE DEF t
<1>4. /\ SubSeq(t, 1, Len(s)) \in Seq(Frames) /\ Len(SubSeq(t, 1, Len(s))) = Len(s)
      /\ \A i \in 1 .. Len(s) : SubSeq(t, 1, Len(s))[i] = s[i]
  <2>1. \A i \in 1 .. Len(s) : t[i] \in Frames
    BY <1>1
  <2>2. /\ SubSeq(t, 1, Len(s)) \in Seq(Frames)
        /\ Len(SubSeq(t, 1, Len(s))) = IF 1 <= Len(s) THEN Len(s) - 1 + 1 ELSE 0
        /\ \A i \in 1 .. Len(s) - 1 + 1 : SubSeq(t, 1, Len(s))[i] = t[1 + i - 1]
    BY <2>1, SubSeqProperties
  <2> QED BY <1>1, <2>2
<1>5. SubSeq(t, 1, Len(s)) = s
  BY <1>4, SeqEqual, Zenon
<1> QED BY <1>1, <1>2, <1>3, <1>5, Zenon DEF t

LEMMA FrameNames == {"root", "peers", "peer", "ips", "list", "map"} \subseteq Frames
BY Zenon DEF Frames

LEMMA NestTypes ==
  /\ InRoot \in Seq(Frames) /\ InPeers \in Seq(Frames)
  /\ InPeer \in Seq(Frames) /\ InIps \in Seq(Frames)
<1>1. <<>> \in Seq(Frames)
  OBVIOUS
<1>2. InRoot \in Seq(Frames)
  BY <1>1, FrameNames, AppendFacts, Zenon DEF InRoot
<1>3. InPeers \in Seq(Frames)
  BY <1>2, FrameNames, AppendFacts, Zenon DEF InPeers
<1>4. InPeer \in Seq(Frames)
  BY <1>3, FrameNames, AppendFacts, Zenon DEF InPeer
<1>5. InIps \in Seq(Frames)
  BY <1>4, FrameNames, AppendFacts, Zenon DEF InIps
<1> QED BY <1>2, <1>3, <1>4, <1>5, Zenon

LEMMA NestLengths ==
  Len(<<>>) = 0 /\ Len(InRoot) = 1 /\ Len(InPeers) = 2 /\ Len(InPeer) = 3 /\ Len(InIps) = 4
<1>1. <<>> \in Seq(Frames) /\ Len(<<>>) = 0
  OBVIOUS
<1>2. Len(InRoot) = Len(<<>>) + 1
  BY <1>1, FrameNames, AppendFacts, Zenon DEF InRoot
<1>3. Len(InPeers) = Len(InRoot) + 1
  BY NestTypes, FrameNames, AppendFacts, Zenon DEF InPeers
<1>4. Len(InPeer) = Len(InPeers) + 1
  BY NestTypes, FrameNames, AppendFacts, Zenon DEF InPeer
<1>5. Len(InIps) = Len(InPeer) + 1
  BY NestTypes, FrameNames, AppendFacts, Zenon DEF InIps
<1> QED BY <1>1, <1>2, <1>3, <1>4, <1>5

LEMMA LastAt ==
  /\ Inner(InRoot) = "root" /\ Outer(InRoot) = <<>>
  /\ Inner(InPeers) = "peers" /\ Outer(InPeers) = InRoot
  /\ Inner(InPeer) = "peer" /\ Outer(InPeer) = InPeers
  /\ Inner(InIps) = "ips" /\ Outer(InIps) = InPeer
<1>1. <<>> \in Seq(Frames)
  OBVIOUS
<1>2. Inner(InRoot) = "root" /\ Outer(InRoot) = <<>>
  BY <1>1, FrameNames, AppendFacts, Zenon DEF InRoot
<1>3. Inner(InPeers) = "peers" /\ Outer(InPeers) = InRoot
  BY NestTypes, FrameNames, AppendFacts, Zenon DEF InPeers
<1>4. Inner(InPeer) = "peer" /\ Outer(InPeer) = InPeers
  BY NestTypes, FrameNames, AppendFacts, Zenon DEF InPeer
<1>5. Inner(InIps) = "ips" /\ Outer(InIps) = InPeer
  BY NestTypes, FrameNames, AppendFacts, Zenon DEF InIps
<1> QED BY <1>2, <1>3, <1>4, <1>5, Zenon

LEMMA NestsDiffer ==
  /\ InRoot \notin {<<>>, InPeers, InPeer, InIps} /\ InPeers \notin {<<>>, InPeer, InIps}
  /\ InPeer \notin {<<>>, InIps} /\ InIps # <<>>
<1>1. /\ Len(<<>>) = 0 /\ Len(InRoot) = 1 /\ Len(InPeers) = 2 /\ Len(InPeer) = 3
      /\ Len(InIps) = 4
  BY NestLengths, Zenon
<1>2. InRoot # InPeers /\ InRoot # InPeer /\ InRoot # InIps
  BY <1>1
<1>3. InPeers # InPeer /\ InPeers # InIps /\ InPeer # InIps
  BY <1>1
<1>4. InRoot # <<>> /\ InPeers # <<>> /\ InPeer # <<>> /\ InIps # <<>>
  <2>1. 1 # 0 /\ 2 # 0 /\ 3 # 0 /\ 4 # 0
    OBVIOUS
  <2> QED BY <1>1, <2>1, Zenon
<1> QED BY <1>2, <1>3, <1>4, Zenon

--------------------------------------------------------------------------
\* One lemma for each event of the parser: the automaton follows the nesting, and
\* what it stores is what the file means.

LEMMA StateAt ==
  ASSUME InStep, nest # <<>>
  PROVE  /\ nest \in {InRoot, InPeers, InPeer, InIps}
         /\ nest = InRoot /\ entry = NoKey => state = "root"
         /\ nest = InRoot /\ entry # NoKey => state = "rootVal" /\ key = entry
         /\ nest = InPeers => entry = NoKey /\ state = "peersSeq"
         /\ nest = InPeer /\ entry = NoKey => state = "peerMap"
         /\ nest = InPeer /\ entry # NoKey => state = "peerVal" /\ key = entry
         /\ nest = InIps => entry = NoKey /\ state = "allowedIpsSeq"
BY NestsDiffer, Zenon DEF InStep

\* A collection may be opened or closed.
Nested(n) == n \in Seq(Frames) /\ Len(n) <= MaxNest

LEMMA OpenNest ==
  ASSUME Nested(nest), foreign \in BOOLEAN, NEW f \in Frames, Open(f)
  PROVE  Nested(nest') /\ foreign' \in BOOLEAN
<1>1. /\ Len(nest) < MaxNest /\ nest' = Append(nest, f) /\ nest \in Seq(Frames)
      /\ foreign' = (foreign \/ f \in {"list", "map"})
  BY Zenon DEF Open, Nested
<1>2. nest' \in Seq(Frames) /\ Len(nest') = Len(nest) + 1
  BY <1>1, AppendFacts, Zenon
<1>3. Len(nest) \in Nat
  BY <1>1
<1>4. Len(nest') <= MaxNest
  BY <1>1, <1>2, <1>3
<1>5. foreign' \in BOOLEAN
  BY <1>1, Zenon
<1> QED BY <1>2, <1>4, <1>5, Zenon DEF Nested

LEMMA CloseNest ==
  ASSUME Nested(nest), nest # <<>>
  PROVE  Nested(Outer(nest))
<1> DEFINE n == Len(nest) - 1
<1>1. nest \in Seq(Frames) /\ Len(nest) \in Nat /\ Len(nest) <= MaxNest
  BY DEF Nested
<1>2. n \in Nat /\ n <= MaxNest /\ \A i \in 1 .. n : nest[i] \in Frames
  BY <1>1
<1>3. Outer(nest) = SubSeq(nest, 1, n)
  BY Zenon DEF Outer
<1> HIDE DEF n
<1>4. SubSeq(nest, 1, n) \in Seq(Frames) /\ Len(SubSeq(nest, 1, n)) <= MaxNest
  <2>1. /\ SubSeq(nest, 1, n) \in Seq(Frames)
        /\ Len(SubSeq(nest, 1, n)) = IF 1 <= n THEN n - 1 + 1 ELSE 0
    BY <1>2, SubSeqProperties
  <2> QED BY <1>2, <2>1
<1> QED BY <1>3, <1>4, Zenon DEF Nested

\* What is left to show of a step of the parser.
LEMMA LoadStep ==
  ASSUME Inv, UNCHANGED sessions, StoreInv', Nested(nest'), foreign' \in BOOLEAN,
         phase' = "loading" /\ ~foreign' => InStep' /\ cfg' = want'
  PROVE  Inv'
BY Zenon DEF Inv, Nested

LEMMA KeyStep ==
  ASSUME Inv, phase = "loading", nest # <<>>, YamlKey, UNCHANGED sessions
  PROVE  Inv'
<1> USE KeysAssumption
<1>1. PICK k \in KeysHere : entry' = k /\ Parse(Scalar(WordOf(k)))
  BY Zenon DEF YamlKey
<1> DEFINE e == Scalar(WordOf(k))
<1>2. e.type = "scalar" /\ e.v.kind = "word" /\ Text(e.v) = k
  BY Zenon DEF Scalar, WordOf, Text
<1>3. InMap /\ entry = NoKey /\ UNCHANGED <<nest, foreign, want>>
  BY Zenon DEF YamlKey
<1>4. Parse(e)
  BY <1>1, Zenon
<1> HIDE DEF e
<1>5. StoreInv'
  BY <1>2, <1>4, ParseStep, Zenon DEF Inv
<1>6. ASSUME phase' = "loading", ~foreign' PROVE InStep' /\ cfg' = want'
  <2>1. InStep /\ cfg = want
    BY <1>3, <1>6, Zenon DEF Inv
  <2>2. (nest = InRoot /\ Inner(nest) = "root") \/ (nest = InPeer /\ Inner(nest) = "peer")
    BY <1>3, <2>1, StateAt, LastAt, Zenon DEF InMap
  <2>3. CASE nest = InRoot /\ Inner(nest) = "root"
    <3>1. k # NoKey
      BY <2>3, Zenon DEF KeysHere, NoKey
    <3>2. state' = "rootVal" /\ key' = k /\ cfg' = cfg
      BY <1>2, <1>3, <1>4, <2>1, <2>3, StateAt, Zenon
         DEF Parse, CaseRoot, CaseRootVal, CasePeersSeq, CasePeerMap, CasePeerVal, CaseAllowedIpsSeq
    <3> QED BY <1>1, <1>3, <2>1, <2>3, <3>1, <3>2, Zenon DEF InStep
  <2>4. CASE nest = InPeer /\ Inner(nest) = "peer"
    <3>1. k # NoKey
      BY <2>4, Zenon DEF KeysHere, NoKey
    <3>2. state' = "peerVal" /\ key' = k /\ cfg' = cfg
      BY <1>2, <1>3, <1>4, <2>1, <2>4, StateAt, Zenon
         DEF Parse, CaseRoot, CaseRootVal, CasePeersSeq, CasePeerMap, CasePeerVal, CaseAllowedIpsSeq
    <3> QED BY <1>1, <1>3, <2>1, <2>4, <3>1, <3>2, Zenon DEF InStep
  <2> QED BY <2>2, <2>3, <2>4, Zenon
<1> QED BY <1>3, <1>5, <1>6, LoadStep, Zenon DEF Inv, Nested

LEMMA ValueStep ==
  ASSUME Inv, phase = "loading", nest # <<>>, YamlValue, UNCHANGED sessions
  PROVE  Inv'
<1> DEFINE Meant(v) ==
             CASE Inner(nest) = "root" -> WithSetting(want, entry, v)
               [] Inner(nest) = "peer" /\ ~BadPeerValue(entry, v) -> WithPeerValue(want, entry, v)
               [] OTHER -> want
<1>1. PICK v \in ValuesHere : Parse(Scalar(v)) /\ Means(Meant(v))
  BY Zenon DEF YamlValue
<1> HIDE DEF Meant
<1>2. InMap /\ entry # NoKey /\ entry' = NoKey /\ UNCHANGED <<nest, foreign>>
  BY Zenon DEF YamlValue
<1> DEFINE e == Scalar(v)
<1>3. e.type = "scalar" /\ e.v = v /\ Parse(e)
  BY <1>1, Zenon DEF Scalar
<1> HIDE DEF e
<1>4. StoreInv'
  BY <1>3, ParseStep, FileValues, Zenon DEF Inv
<1>5. ASSUME phase' = "loading", ~foreign' PROVE InStep' /\ cfg' = want'
  <2>1. InStep /\ cfg = want /\ want' = Meant(v)
    BY <1>1, <1>2, <1>5, Zenon DEF Inv, Means
  <2>2. (nest = InRoot /\ Inner(nest) = "root") \/ (nest = InPeer /\ Inner(nest) = "peer")
    BY <1>2, <2>1, StateAt, LastAt, Zenon DEF InMap
  <2>3. CASE nest = InRoot /\ Inner(nest) = "root"
    <3>1. state = "rootVal" /\ key = entry
      BY <1>2, <2>1, <2>3, StateAt, Zenon
    <3>2. CaseRootVal(e)
      BY <1>3, <3>1, Zenon DEF Parse, CaseRoot, CasePeersSeq, CasePeerMap, CasePeerVal, CaseAllowedIpsSeq
    <3>3. cfg' = WithSetting(cfg, entry, v) /\ state' = "root"
      BY <1>3, <3>1, <3>2, Zenon DEF CaseRootVal
    <3>4. want' = WithSetting(want, entry, v)
      BY <2>1, <2>3, Zenon DEF Meant
    <3> QED BY <1>2, <2>1, <2>3, <3>3, <3>4, Zenon DEF InStep
  <2>4. CASE nest = InPeer /\ Inner(nest) = "peer"
    <3>1. state = "peerVal" /\ key = entry
      BY <1>2, <2>1, <2>4, StateAt, Zenon
    <3>2. CasePeerVal(e)
      BY <1>3, <3>1, Zenon DEF Parse, CaseRoot, CaseRootVal, CasePeersSeq, CasePeerMap, CaseAllowedIpsSeq
    <3>3. ~BadPeerValue(entry, v)
      BY <1>3, <1>5, <3>1, <3>2, Zenon DEF CasePeerVal, Fail
    <3>4. cfg' = WithPeerValue(cfg, entry, v) /\ state' = "peerMap"
      BY <1>3, <3>1, <3>2, <3>3, Zenon DEF CasePeerVal
    <3>5. want' = WithPeerValue(want, entry, v)
      BY <2>1, <2>4, <3>3, Zenon DEF Meant
    <3> QED BY <1>2, <2>1, <2>4, <3>4, <3>5, Zenon DEF InStep
  <2> QED BY <2>2, <2>3, <2>4, Zenon
<1> QED BY <1>2, <1>4, <1>5, LoadStep, Zenon DEF Inv, Nested

LEMMA OpenStep ==
  ASSUME Inv, phase = "loading", nest # <<>>, YamlOpen, UNCHANGED sessions
  PROVE  Inv'
<1> DEFINE frame == CASE Inner(nest) = "root" /\ entry = "peers" -> "peers"
                      [] Inner(nest) = "peer" /\ entry = "allowed_ips" -> "ips"
                      [] OTHER -> "list"
<1>1. /\ InMap => entry # NoKey
      /\ Means(want)
      /\ \/ Parse(Event("seqStart")) /\ Open(frame)
         \/ Parse(Event("mapStart")) /\ Open("map")
  BY Zenon DEF YamlOpen
<1>3. PICK t \in {"seqStart", "mapStart"} :
        Parse(Event(t)) /\ Open(IF t = "seqStart" THEN frame ELSE "map")
  BY <1>1, Zenon
<1> DEFINE e == Event(t)
           f == IF t = "seqStart" THEN frame ELSE "map"
<1>4. e.type = t /\ e.v.kind # "hex" /\ Parse(e) /\ Open(f)
  BY <1>3, Zenon DEF Event, Other, WordOf
<1>5. \/ f \in {"list", "map"}
      \/ t = "seqStart" /\ Inner(nest) = "root" /\ entry = "peers" /\ f = "peers"
      \/ t = "seqStart" /\ Inner(nest) = "peer" /\ entry = "allowed_ips" /\ f = "ips"
  BY <1>3, Zenon
<1> HIDE DEF e, f, frame
<1>6. StoreInv'
  BY <1>4, ParseStep, Zenon DEF Inv
<1>7. Nested(nest') /\ foreign' \in BOOLEAN
  BY <1>4, <1>5, FrameNames, OpenNest, Zenon DEF Inv, Nested
<1>9. ASSUME phase' = "loading", ~foreign' PROVE InStep' /\ cfg' = want'
  <2>1. /\ InStep /\ cfg = want /\ want' = want /\ f \notin {"list", "map"}
        /\ nest' = Append(nest, f) /\ entry' = NoKey
    BY <1>1, <1>4, <1>9, Zenon DEF Inv, Means, Open
  <2>4. nest \in {InRoot, InPeer}
    BY <1>5, <2>1, StateAt, LastAt, Zenon
  <2>2. CASE nest = InRoot
    <3>1. state = "rootVal" /\ key = "peers" /\ e.type = "seqStart" /\ nest' = InPeers
      BY <1>4, <1>5, <2>1, <2>2, StateAt, LastAt, Zenon DEF InPeers, NoKey
    <3>2. CaseRootVal(e)
      BY <1>4, <3>1, Zenon DEF Parse, CaseRoot, CasePeersSeq, CasePeerMap, CasePeerVal, CaseAllowedIpsSeq
    <3>3. state' = "peersSeq" /\ cfg' = cfg
      BY <3>1, <3>2, Zenon DEF CaseRootVal, Enter
    <3> QED BY <2>1, <3>1, <3>3, Zenon DEF InStep
  <2>3. CASE nest = InPeer
    <3>1. state = "peerVal" /\ key = "allowed_ips" /\ e.type = "seqStart" /\ nest' = InIps
      BY <1>4, <1>5, <2>1, <2>3, StateAt, LastAt, Zenon DEF InIps, NoKey
    <3>2. CasePeerVal(e)
      BY <1>4, <3>1, Zenon DEF Parse, CaseRoot, CaseRootVal, CasePeersSeq, CasePeerMap, CaseAllowedIpsSeq
    <3>3. state' = "allowedIpsSeq" /\ cfg' = cfg
      BY <3>1, <3>2, Zenon DEF CasePeerVal, Enter
    <3> QED BY <2>1, <3>1, <3>3, Zenon DEF InStep
  <2> QED BY <2>2, <2>3, <2>4, Zenon
<1> QED BY <1>6, <1>7, <1>9, LoadStep, Zenon

LEMMA PeerStep ==
  ASSUME Inv, phase = "loading", nest # <<>>, YamlPeer, UNCHANGED sessions
  PROVE  Inv'
<1>1. Inner(nest) = "peers" /\ Open("peer") /\ Means(WithPeer(want))
  BY Zenon DEF YamlPeer
<1> DEFINE e == Event("mapStart")
<1>3. e.type = "mapStart" /\ e.v.kind # "hex" /\ Parse(e)
  BY Zenon DEF YamlPeer, Event, Other, WordOf
<1> HIDE DEF e
<1>4. StoreInv'
  BY <1>3, ParseStep, Zenon DEF Inv
<1>5. /\ Nested(nest') /\ foreign' \in BOOLEAN /\ foreign' = foreign
      /\ nest' = Append(nest, "peer") /\ entry' = NoKey
  <2>1. Nested(nest') /\ foreign' \in BOOLEAN
    BY <1>1, FrameNames, OpenNest, Zenon DEF Inv, Nested
  <2> QED BY <1>1, <2>1, Zenon DEF Open, Inv
<1>6. ASSUME phase' = "loading", ~foreign' PROVE InStep' /\ cfg' = want'
  <2>1. InStep /\ cfg = want /\ want' = WithPeer(want)
    BY <1>1, <1>5, <1>6, Zenon DEF Inv, Means
  <2>2. state = "peersSeq" /\ nest' = InPeer
    BY <1>1, <1>5, <2>1, StateAt, LastAt, Zenon DEF InPeer
  <2>3. CasePeersSeq(e)
    BY <1>3, <2>2, Zenon DEF Parse, CaseRoot, CaseRootVal, CasePeerMap, CasePeerVal, CaseAllowedIpsSeq
  <2>4. cfg' = WithPeer(cfg) /\ state' = "peerMap"
    <3>1. Len(cfg.peers) \in Nat
      BY DEF Inv, StoreInv
    <3> QED BY <1>3, <1>6, <2>3, <3>1 DEF CasePeersSeq, Fail
  <2> QED BY <1>5, <2>1, <2>2, <2>4, Zenon DEF InStep
<1> QED BY <1>4, <1>5, <1>6, LoadStep, Zenon

LEMMA ItemStep ==
  ASSUME Inv, phase = "loading", nest # <<>>, YamlItem, UNCHANGED sessions
  PROVE  Inv'
<1> DEFINE Meant(v) == IF Inner(nest) = "ips" /\ ValidCidr(v) THEN WithRoute(want, v) ELSE want
<1>1. /\ ~InMap /\ UNCHANGED <<nest, entry, foreign>>
      /\ \E v \in ValuesHere : Parse(Scalar(v)) /\ Means(Meant(v))
  BY Zenon DEF YamlItem
<1>2. PICK v \in ValuesHere : Parse(Scalar(v)) /\ Means(Meant(v))
  BY <1>1, Zenon
<1> HIDE DEF Meant
<1> DEFINE e == Scalar(v)
<1>3. e.type = "scalar" /\ e.v = v /\ Parse(e)
  BY <1>2, Zenon DEF Scalar
<1> HIDE DEF e
<1>4. StoreInv'
  BY <1>3, ParseStep, FileValues, Zenon DEF Inv
<1>5. ASSUME phase' = "loading", ~foreign' PROVE InStep' /\ cfg' = want'
  <2>1. InStep /\ cfg = want /\ want' = Meant(v)
    BY <1>1, <1>2, <1>5, Zenon DEF Inv, Means
  <2>2. (nest = InPeers /\ Inner(nest) = "peers") \/ (nest = InIps /\ Inner(nest) = "ips")
    BY <1>1, <2>1, StateAt, LastAt, Zenon DEF InMap
  <2>3. CASE nest = InPeers /\ Inner(nest) = "peers"
    <3>1. state = "peersSeq" /\ entry = NoKey
      BY <2>1, <2>3, StateAt, Zenon
    <3>2. CasePeersSeq(e)
      BY <1>3, <3>1, Zenon DEF Parse, CaseRoot, CaseRootVal, CasePeerMap, CasePeerVal, CaseAllowedIpsSeq
    <3>3. state' = state /\ cfg' = cfg
      BY <1>3, <3>2, Zenon DEF CasePeersSeq, Stay
    <3>4. want' = want
      BY <2>1, <2>3, Zenon DEF Meant
    <3> QED BY <1>1, <2>1, <2>3, <3>1, <3>3, <3>4, Zenon DEF InStep
  <2>4. CASE nest = InIps /\ Inner(nest) = "ips"
    <3>1. state = "allowedIpsSeq" /\ entry = NoKey
      BY <2>1, <2>4, StateAt, Zenon
    <3>2. CaseAllowedIpsSeq(e)
      BY <1>3, <3>1, Zenon DEF Parse, CaseRoot, CaseRootVal, CasePeersSeq, CasePeerMap, CasePeerVal
    <3>3. ValidCidr(v) /\ cfg' = WithRoute(cfg, v) /\ state' = state
      BY <1>3, <1>5, <3>2, Zenon DEF CaseAllowedIpsSeq, Fail
    <3>4. want' = WithRoute(want, v)
      BY <2>1, <2>4, <3>3, Zenon DEF Meant
    <3> QED BY <1>1, <2>1, <2>4, <3>1, <3>3, <3>4, Zenon DEF InStep
  <2> QED BY <2>2, <2>3, <2>4, Zenon
<1> QED BY <1>1, <1>4, <1>5, LoadStep, Zenon DEF Inv, Nested

LEMMA CloseStep ==
  ASSUME Inv, phase = "loading", nest # <<>>, YamlClose, UNCHANGED sessions
  PROVE  Inv'
<1> DEFINE e == Event(IF InMap THEN "mapEnd" ELSE "seqEnd")
<1>1. /\ entry = NoKey /\ Parse(e) /\ nest' = Outer(nest) /\ entry' = NoKey
      /\ UNCHANGED <<foreign, want>>
  BY Zenon DEF YamlClose, Close
<1>2. e.type = (IF InMap THEN "mapEnd" ELSE "seqEnd") /\ e.v.kind # "hex"
  BY Zenon DEF Event, Other, WordOf
<1> HIDE DEF e
<1>3. StoreInv'
  BY <1>1, <1>2, ParseStep, Zenon DEF Inv
<1>4. Nested(nest')
  BY <1>1, CloseNest, Zenon DEF Inv, Nested
<1>5. ASSUME phase' = "loading", ~foreign' PROVE InStep' /\ cfg' = want'
  <2>1. InStep /\ cfg = want /\ want' = want
    BY <1>1, <1>5, Zenon DEF Inv
  <2>2. CASE nest = InRoot
    <3>1. state = "root" /\ e.type = "mapEnd" /\ nest' = <<>>
      BY <1>1, <1>2, <2>1, <2>2, StateAt, LastAt, Zenon DEF InMap
    <3>2. CaseRoot(e)
      BY <1>1, <3>1, Zenon DEF Parse, CaseRootVal, CasePeersSeq, CasePeerMap, CasePeerVal, CaseAllowedIpsSeq
    <3>3. state' = "root" /\ cfg' = cfg
      BY <3>1, <3>2, Zenon DEF CaseRoot, Stay
    <3> QED BY <1>1, <2>1, <3>1, <3>3, Zenon DEF InStep
  <2>3. CASE nest = InPeers
    <3>1. state = "peersSeq" /\ e.type = "seqEnd" /\ nest' = InRoot
      BY <1>1, <1>2, <2>1, <2>3, StateAt, LastAt, Zenon DEF InMap
    <3>2. CasePeersSeq(e)
      BY <1>1, <3>1, Zenon DEF Parse, CaseRoot, CaseRootVal, CasePeerMap, CasePeerVal, CaseAllowedIpsSeq
    <3>3. state' = "root" /\ cfg' = cfg
      BY <3>1, <3>2, Zenon DEF CasePeersSeq, Enter
    <3> QED BY <1>1, <2>1, <3>1, <3>3, Zenon DEF InStep
  <2>4. CASE nest = InPeer
    <3>1. state = "peerMap" /\ e.type = "mapEnd" /\ nest' = InPeers
      BY <1>1, <1>2, <2>1, <2>4, StateAt, LastAt, Zenon DEF InMap
    <3>2. CasePeerMap(e)
      BY <1>1, <3>1, Zenon DEF Parse, CaseRoot, CaseRootVal, CasePeersSeq, CasePeerVal, CaseAllowedIpsSeq
    <3>3. state' = "peersSeq" /\ cfg' = cfg
      BY <3>1, <3>2, Zenon DEF CasePeerMap, Enter
    <3> QED BY <1>1, <2>1, <3>1, <3>3, Zenon DEF InStep
  <2>5. CASE nest = InIps
    <3>1. state = "allowedIpsSeq" /\ e.type = "seqEnd" /\ nest' = InPeer
      BY <1>1, <1>2, <2>1, <2>5, StateAt, LastAt, Zenon DEF InMap
    <3>2. CaseAllowedIpsSeq(e)
      BY <1>1, <3>1, Zenon DEF Parse, CaseRoot, CaseRootVal, CasePeersSeq, CasePeerMap, CasePeerVal
    <3>3. state' = "peerMap" /\ cfg' = cfg
      BY <3>1, <3>2, Zenon DEF CaseAllowedIpsSeq, Enter
    <3> QED BY <1>1, <2>1, <3>1, <3>3, Zenon DEF InStep
  <2> QED BY <2>1, <2>2, <2>3, <2>4, <2>5, StateAt, Zenon
<1> QED BY <1>1, <1>3, <1>4, <1>5, LoadStep, Zenon DEF Inv

\* A document begins with its root mapping, or is none that is followed.
LEMMA DocumentStep ==
  ASSUME Inv, phase = "loading", YamlDocument, UNCHANGED sessions
  PROVE  Inv'
<1>1. nest = <<>> /\ Means(want)
  BY Zenon DEF YamlDocument
<1>2. PICK t \in {"mapStart", "seqStart"} :
        Parse(Event(t)) /\ Open(IF t = "mapStart" THEN "root" ELSE "list")
  BY Zenon DEF YamlDocument
<1> DEFINE e == Event(t)
           f == IF t = "mapStart" THEN "root" ELSE "list"
<1>3. /\ e.type # "scalar" /\ e.v.kind # "hex" /\ Parse(e) /\ Open(f)
      /\ f \in {"root", "list"}
  BY <1>2, Zenon DEF Event, Other, WordOf
<1> HIDE DEF e, f
<1>4. StoreInv'
  BY <1>3, ParseStep, Zenon DEF Inv
<1>5. Nested(nest') /\ foreign' \in BOOLEAN
  BY <1>3, FrameNames, OpenNest, Zenon DEF Inv, Nested
<1>6. ASSUME phase' = "loading", ~foreign' PROVE InStep' /\ cfg' = want'
  <2>1. InStep /\ cfg = want /\ want' = want /\ nest' = InRoot /\ entry' = NoKey
    BY <1>1, <1>3, <1>6, Zenon DEF Inv, Means, Open, InRoot
  <2>2. state = "root"
    BY <1>1, <2>1, NestsDiffer, Zenon DEF InStep
  <2>3. CaseRoot(e)
    BY <1>3, <2>2, Zenon DEF Parse, CaseRootVal, CasePeersSeq, CasePeerMap, CasePeerVal, CaseAllowedIpsSeq
  <2>4. state' = "root" /\ cfg' = cfg
    BY <1>3, <2>2, <2>3, Zenon DEF CaseRoot, Stay
  <2> QED BY <2>1, <2>4, Zenon DEF InStep
<1> QED BY <1>4, <1>5, <1>6, LoadStep, Zenon

\* After an alias the file is not followed, but the arrays are safe all the same.
LEMMA AliasStep ==
  ASSUME Inv, YamlAlias, UNCHANGED sessions
  PROVE  Inv'
<1> DEFINE e == Event("alias")
<1>1. Parse(e) /\ e.v.kind # "hex" /\ foreign' = TRUE /\ nest' = nest
  BY Zenon DEF YamlAlias, Event, Other, WordOf
<1> HIDE DEF e
<1>2. StoreInv'
  BY <1>1, ParseStep, Zenon DEF Inv
<1> QED BY <1>1, <1>2, LoadStep, Zenon DEF Inv, Nested

LEMMA MainStep ==
  ASSUME Inv, phase = "loading", Main
  PROVE  Inv'
<1>1. /\ phase' \in {"running", "exited"} /\ state' = "root"
      /\ UNCHANGED <<nest, entry, foreign, sessions>>
  BY Zenon DEF Main
<1>2. Stored(cfg)
  BY StoreShape, Zenon DEF Inv
<1>3. Stored(cfg')
  <2>1. CASE UNCHANGED cfg
    BY <1>2, <2>1, Zenon
  <2>2. ASSUME NEW x, cfg' = [cfg EXCEPT !.set["worker_threads"] = x] PROVE Stored(cfg')
    BY <1>2, <2>2, StoredSetting, Zenon
  <2> QED BY <2>1, <2>2, Zenon DEF Main
<1>4. StoreInv'
  BY <1>1, <1>3, Zenon DEF StoreInv, InBounds, Stored, States
<1> QED BY <1>1, <1>4, Zenon DEF Inv

LEMMA LoadInv ==
  ASSUME Inv, Load
  PROVE  Inv'
<1>1. CASE nest # <<>> /\ YamlError /\ UNCHANGED sessions
  <2>1. phase' = "exited" /\ UNCHANGED <<state, cfg, nest, foreign>>
    BY <1>1, Zenon DEF YamlError, Fail
  <2>2. StoreInv'
    BY <2>1, Zenon DEF Inv, StoreInv, InBounds
  <2> QED BY <1>1, <2>1, <2>2, Zenon DEF Inv
<1> QED BY <1>1, DocumentStep, KeyStep, ValueStep, OpenStep, PeerStep, ItemStep, AliasStep,
          CloseStep, MainStep, Zenon DEF Load

--------------------------------------------------------------------------
\* The sessions.

\* find_peer_config finds a peer whenever one has the key.
LEMMA FindFinds ==
  ASSUME Stored(cfg), NEW i \in 1 .. Len(cfg.peers)
  PROVE  FindPeerConfig(cfg.peers[i].pub) \in PeerConfigs
<1> DEFINE pub == cfg.peers[i].pub
           S == {j \in 1 .. Len(cfg.peers) : cfg.peers[j].pub = pub}
           First(k) == cfg.peers[k].pub = pub /\ \A j \in 1 .. k - 1 : cfg.peers[j].pub # pub
<1>1. Len(cfg.peers) \in Nat
  BY DEF Stored
<1>2. PICK m \in S : \A k \in S : m <= k
  <2>1. S \subseteq Nat /\ S # {}
    BY <1>1
  <2> HIDE DEF S
  <2> QED BY <2>1, Least, Zenon
<1>3. m \in 1 .. Len(cfg.peers) /\ First(m)
  BY <1>1, <1>2
<1>4. PICK c \in 1 .. Len(cfg.peers) : c = CHOOSE k \in 1 .. Len(cfg.peers) : First(k)
  <2> HIDE DEF First
  <2> QED BY <1>3, Zenon
<1>5. FindPeerConfig(pub) = cfg.peers[c]
  BY <1>4, Zenon DEF FindPeerConfig
<1> HIDE DEF pub
<1>6. FindPeerConfig(pub) \in PeerConfigs
  BY <1>5, PeerFields, Zenon
<1> QED BY <1>6, Zenon DEF pub

\* alloc_session returns a slot in use, or the next one.
LEMMA SlotRange ==
  ASSUME sessions \in Seq(SessionSlots), NEW pub
  PROVE  SlotsFor(pub) \subseteq 1 .. Len(sessions) + 1
<1> DEFINE First(S) == CHOOSE s \in S : \A r \in S : s <= r
           own == {s \in 1 .. Len(sessions) : sessions[s].active /\ sessions[s].pub = pub}
           free == {s \in 1 .. Len(sessions) : ~sessions[s].active}
           taken == {s \in 1 .. Len(sessions) : sessions[s].active}
<1>1. Len(sessions) \in Nat
  OBVIOUS
<1>2. ASSUME NEW S, S \subseteq 1 .. Len(sessions), S # {} PROVE First(S) \in S
  <2>1. S \subseteq Nat
    BY <1>1, <1>2
  <2>2. \E m \in S : \A k \in S : m <= k
    BY <1>2, <2>1, Least, Zenon
  <2> QED BY <2>2, Zenon
<1>3. SlotsFor(pub) = IF own # {} THEN {First(own)}
                      ELSE taken \cup {IF free # {} THEN First(free) ELSE Len(sessions) + 1}
  BY Zenon DEF SlotsFor
<1>4. /\ own \subseteq 1 .. Len(sessions) /\ free \subseteq 1 .. Len(sessions)
      /\ taken \subseteq 1 .. Len(sessions)
  BY Zenon
<1> HIDE DEF own, free, taken, First
<1>5. (own # {} => First(own) \in 1 .. Len(sessions)) /\ (free # {} => First(free) \in 1 .. Len(sessions))
  BY <1>2, <1>4, Zenon
<1>6. 1 .. Len(sessions) \subseteq 1 .. Len(sessions) + 1 /\ Len(sessions) + 1 \in 1 .. Len(sessions) + 1
  BY <1>1
<1>7. CASE own # {}
  <2>1. SlotsFor(pub) = {First(own)}
    BY <1>3, <1>7, Zenon
  <2> QED BY <1>5, <1>6, <1>7, <2>1, Zenon
<1>8. CASE own = {}
  <2> DEFINE next == IF free # {} THEN First(free) ELSE Len(sessions) + 1
  <2>1. SlotsFor(pub) = taken \cup {next}
    BY <1>3, <1>8, Zenon
  <2>2. next \in 1 .. Len(sessions) + 1
    BY <1>5, <1>6, Zenon
  <2> HIDE DEF next
  <2> QED BY <1>4, <1>6, <2>1, <2>2, Zenon
<1> QED BY <1>7, <1>8, Zenon

LEMMA ConnectStep ==
  ASSUME Inv, NEW i \in 1 .. Len(cfg.peers), Connect(i)
  PROVE  Inv'
<1> DEFINE p == cfg.peers[i]
           src == IF p.endpoint THEN p ELSE FindPeerConfig(p.pub)
           new == [active |-> TRUE, pub |-> p.pub, routes |-> src.routes]
<1>1. PICK s \in SlotsFor(p.pub) :
         /\ phase = "running" /\ s <= MaxPeers
         /\ sessions' = IF s > Len(sessions) THEN Append(sessions, new)
                                             ELSE [sessions EXCEPT ![s] = new]
         /\ UNCHANGED <<phase, state, key, cfg, nest, entry, want, foreign>>
  BY Zenon DEF Connect
<1>2. Stored(cfg)
  BY StoreShape, Zenon DEF Inv
<1>3. new \in SessionSlots
  <2>1. src \in PeerConfigs /\ p.pub \in Pubs
    BY <1>2, PeerFields, FindFinds, Zenon
  <2> HIDE DEF src, p
  <2>2. src.routes \in Seq(IpPrefixes)
    BY <2>1, Zenon DEF PeerConfigs
  <2> QED BY <2>1, <2>2, Zenon DEF SessionSlots
<1>4. sessions \in Seq(SessionSlots) /\ Len(sessions) <= MaxPeers /\ Len(sessions) \in Nat
  BY DEF Inv
<1>5. s \in 1 .. Len(sessions) + 1
  BY <1>1, <1>4, SlotRange, Zenon
<1> HIDE DEF new
<1>6. sessions' \in Seq(SessionSlots) /\ Len(sessions') <= MaxPeers
  <2>1. CASE s > Len(sessions)
    <3>1. sessions' = Append(sessions, new) /\ s = Len(sessions) + 1
      BY <1>1, <1>4, <1>5, <2>1
    <3> QED BY <1>1, <1>3, <1>4, <3>1, AppendProperties
  <2>2. CASE ~(s > Len(sessions))
    <3>1. sessions' = [sessions EXCEPT ![s] = new] /\ s \in 1 .. Len(sessions)
      BY <1>1, <1>4, <1>5, <2>2
    <3> QED BY <1>3, <1>4, <3>1, ExceptSeq
  <2> QED BY <2>1, <2>2, Zenon
<1>7. StoreInv'
  BY <1>1, Zenon DEF Inv, StoreInv, InBounds
<1> QED BY <1>1, <1>6, <1>7, Zenon DEF Inv

LEMMA ExpireStep ==
  ASSUME Inv, NEW s \in 1 .. Len(sessions), Expire(s)
  PROVE  Inv'
<1> DEFINE new == [sessions[s] EXCEPT !.active = FALSE]
<1>1. /\ phase = "running" /\ sessions' = [sessions EXCEPT ![s] = new]
      /\ UNCHANGED <<phase, state, key, cfg, nest, entry, want, foreign>>
  BY Zenon DEF Expire
<1>2. sessions \in Seq(SessionSlots) /\ Len(sessions) <= MaxPeers
  BY Zenon DEF Inv
<1>3. new \in SessionSlots
  <2>1. sessions[s] \in SessionSlots
    BY <1>2
  <2> QED BY <2>1, Zenon DEF SessionSlots
<1> HIDE DEF new
<1>4. sessions' \in Seq(SessionSlots) /\ Len(sessions') <= MaxPeers
  BY <1>1, <1>2, <1>3, ExceptSeq
<1>5. StoreInv'
  BY <1>1, Zenon DEF Inv, StoreInv, InBounds
<1> QED BY <1>1, <1>4, <1>5, Zenon DEF Inv

LEMMA InitInv == Init => Inv
<1> SUFFICES ASSUME Init PROVE Inv
  BY Zenon
<1>1. /\ phase = "loading" /\ state = "root" /\ cfg = NoConfig /\ want = NoConfig
      /\ entry = NoKey /\ foreign = FALSE /\ sessions = <<>>
  BY Zenon DEF Init
<1>2. nest = <<>>
  BY Zenon DEF Init
<1>3. DOMAIN cfg = {"set", "peers"} /\ cfg.peers = <<>>
  BY <1>1, Zenon DEF NoConfig
<1>4. StoreInv
  BY <1>1, <1>3 DEF StoreInv, InBounds, States
<1>5. InStep
  BY <1>1, <1>2, Zenon DEF InStep
<1>6. nest \in Seq(Frames) /\ Len(nest) <= MaxNest
  BY <1>2
<1>7. sessions \in Seq(SessionSlots) /\ Len(sessions) <= MaxPeers
  BY <1>1
<1> QED BY <1>1, <1>4, <1>5, <1>6, <1>7, Zenon DEF Inv

LEMMA StutterStep ==
  ASSUME Inv, UNCHANGED vars
  PROVE  Inv'
<1>1. /\ phase' = phase /\ state' = state /\ key' = key /\ cfg' = cfg /\ nest' = nest
      /\ entry' = entry /\ want' = want /\ foreign' = foreign /\ sessions' = sessions
  BY Zenon DEF vars
<1>2. StoreInv'
  BY <1>1, Zenon DEF Inv, StoreInv, InBounds
<1>3. InStep => InStep'
  BY <1>1, Zenon DEF InStep
<1> QED BY <1>1, <1>2, <1>3, Zenon DEF Inv

LEMMA Invariance == Spec => []Inv
<1>1. Inv /\ [Next]_vars => Inv'
  BY LoadInv, ConnectStep, ExpireStep, StutterStep, Zenon DEF Next, Exited
<1> QED BY <1>1, InitInv, PTL DEF Spec

--------------------------------------------------------------------------
\* The results.

\* Every variable keeps its type, and alloc_session never makes more sessions than
\* there are slots, for every file.
THEOREM ConfigTyped == Spec => []TypeOK
<1>1. Inv => TypeOK
  <2> SUFFICES ASSUME Inv PROVE TypeOK
    BY Zenon
  <2>2. \A s \in 1 .. Len(sessions) : DOMAIN sessions[s] = {"active", "pub", "routes"}
    <3>1. \A s \in 1 .. Len(sessions) : sessions[s] \in SessionSlots
      BY DEF Inv
    <3> QED BY <3>1, Zenon DEF SessionSlots
  <2>3. Len(nest) <= MaxNest /\ foreign \in BOOLEAN
    BY Zenon DEF Inv
  <2> QED BY <2>2, <2>3, Zenon DEF Inv, StoreInv, TypeOK
<1> QED BY <1>1, Invariance, PTL

\* load_config stores what the file's nesting means, for every file that has lists and
\* mappings only where the format has them and no aliases, whatever its scalars.
THEOREM FileLoaded == Spec => []LoadsTheFile
<1>1. Inv => LoadsTheFile
  BY Zenon DEF Inv, LoadsTheFile
<1> QED BY <1>1, Invariance, PTL

\* Whatever the file, aliases and unexpected collections included, the arrays of
\* load_config do not overflow, and the peer it fills in exists.
THEOREM ArraysSafe == Spec => []InBounds
<1>1. Inv => InBounds
  BY Zenon DEF Inv, StoreInv
<1> QED BY <1>1, Invariance, PTL

\* route_lookup returns the first slot that has the longest matching prefix, for any
\* width of addresses and any number of sessions and prefixes.
THEOREM LongestMatch == Spec => []LongestPrefix
<1>1. Inv => LongestPrefix
  BY RoutesRight, Zenon DEF Inv
<1> QED BY <1>1, Invariance, PTL

\* An answer to a source that check_allowed_src lets in has a route, to that session or
\* to one with a prefix at least as long.
THEOREM AnswersRouted == Spec => []ReplyPath
<1>1. Inv => ReplyPath
  BY RoutesRight, Zenon DEF Inv
<1> QED BY <1>1, Invariance, PTL
=============================================================================
