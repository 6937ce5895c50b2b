------------------------------ MODULE MCConfig ------------------------------
(* Addresses of two bits; two peers, two prefixes each; some valid and some  *)
(* invalid values for every kind of key.  Nothing happens after an exit, and *)
(* the parser's state plays no part once the sessions run: PhaseView leaves  *)
(* out what no longer matters.                                               *)
EXTENDS Config

Num(n) == [kind |-> "int", n |-> n]
Hex(p) == [kind |-> "hex", pub |-> p]
Host(ok) == [kind |-> "host", resolves |-> ok]
Cidr(a, len) == [kind |-> "cidr", addr |-> a, slash |-> TRUE, len |-> len]
HostRoute(a) == [kind |-> "cidr", addr |-> a, slash |-> FALSE, len |-> 0]

MCRootScalars == [interface |-> {Other, WordOf("")}, keepalive_interval |-> {Num(0)},
                  other |-> {Other}]
MCPeerScalars == [public_key |-> {Hex("k1"), Other}, endpoint |-> {Host(TRUE), Host(FALSE)},
                  other |-> {Other}]
MCLoose == {WordOf("peers"), WordOf("allowed_ips"), HostRoute(2)}
MCItems == {Cidr(1, 0), HostRoute(2), Cidr(0, 3)}

PhaseView == CASE phase = "loading" -> vars
               [] phase = "running" -> <<phase, cfg, sessions>>
               [] phase = "exited" -> <<phase>>
=============================================================================
