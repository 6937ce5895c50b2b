------------------------------ MODULE Routing ------------------------------
(***************************************************************************)
(* AllowedIPs: the prefixes parse_cidr makes, the longest-prefix match of   *)
(* route_lookup and the source check of check_allowed_src, on addresses of  *)
(* Width bits.                                                              *)
(***************************************************************************)
EXTENDS Integers, Sequences

CONSTANT Width          \* bits of an address (32 in C)

ASSUME WidthAssumption == Width \in Nat \ {0}

Addresses == 0 .. 2 ^ Width - 1

\* Mutant: no special case for a prefix of length 0, whose shift by the whole width
\* leaves the value as it is on the usual machines.
MutMask(len) == IF len = 0 THEN 2 ^ Width - 1 ELSE 2 ^ Width - 2 ^ (Width - len)

\* mask = prefix_len == 0 ? 0 : ~0 << (Width - prefix_len), in Width bits
Mask(len) == IF len = 0 THEN 0 ELSE (2 ^ Width - 2 ^ (Width - len)) % 2 ^ Width

\* a & mask, for a mask of leading ones
And(a, mask) == a - (a % (2 ^ Width - mask))

\* parse_cidr refuses a length (atoi of what follows the slash) out of range,
\* and text that is no address.
ValidCidr(v) ==
  v.kind = "cidr" /\ v.addr \in Addresses /\ (v.slash => v.len \in 0 .. Width)

\* ip_prefix_t, from a CIDR; an address without a length is a host route.
ParseCidr(v) ==
  LET len == IF v.slash THEN v.len ELSE Width
  IN [network |-> And(v.addr, Mask(len)), mask |-> Mask(len), prefix_len |-> len]

Matches(ip, route) == And(ip, route.mask) = route.network

\* Mutant: best_prefix starts at 0, so that a default route is never found.
MutNoBest == [slot |-> 0, prefix_len |-> 0]

\* The slot found so far, before the first one.
NoBest == [slot |-> 0, prefix_len |-> -1]

\* A match that is strictly longer than the best one so far replaces it.
Better(best, i, r, dst) ==
  IF Matches(dst, r) /\ r.prefix_len > best.prefix_len
    THEN [slot |-> i, prefix_len |-> r.prefix_len] ELSE best

\* The best after each of the routes of slot i, in order.
ScanRoutes(best, i, routes, dst) ==
  LET after[k \in 0 .. Len(routes)] ==
        IF k = 0 THEN best ELSE Better(after[k - 1], i, routes[k], dst)
  IN after

\* The best after each slot, in order; only active ones have routes.  A slot is a
\* record with the fields active and routes.
ScanSlots(slots, dst) ==
  LET after[i \in 0 .. Len(slots)] ==
        IF i = 0 THEN NoBest
        ELSE IF slots[i].active
               THEN ScanRoutes(after[i - 1], i, slots[i].routes, dst)[Len(slots[i].routes)]
               ELSE after[i - 1]
  IN after

\* route_lookup: the index of the best slot after all of them, 0 if there is none.
RouteLookup(slots, dst) == ScanSlots(slots, dst)[Len(slots)].slot

\* check_allowed_src: a session without routes accepts every source.
CheckAllowedSrc(s, src) ==
  Len(s.routes) = 0 \/ \E j \in 1 .. Len(s.routes) : Matches(src, s.routes[j])

\* What worker_loop does with an IPv4 packet of session s: -1, it is dropped; the slot
\* it is relayed to; or 0, it is written to the TUN device.
Dispatch(slots, s, src, dst) ==
  LET fwd == RouteLookup(slots, dst) IN
  IF Len(slots[s].routes) > 0 /\ ~CheckAllowedSrc(slots[s], src) THEN -1
  ELSE IF fwd # s THEN fwd ELSE 0

=============================================================================
