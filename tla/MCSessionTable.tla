--------------------------- MODULE MCSessionTable ---------------------------
(***************************************************************************)
(* SessionTable for TLC.                                                    *)
(*                                                                          *)
(* The handlers compare timestamps only with the clock, so two states that  *)
(* differ by a shift of the clock, or by how far beyond every threshold a   *)
(* timestamp lies, behave alike.  ClockView identifies them: timestamps     *)
(* become ages, cut off past the longest threshold.  With it TLC explores   *)
(* the table for all time; Horizon is never reached.  The age of StartTime  *)
(* is there because a worker has read no clock before it.                   *)
(***************************************************************************)
EXTENDS SessionTable, TLC

CONSTANTS p1, p2, p3, a1, a2

MCPubs == {p1, p2, p3}
MCCfgPub == (0 :> p1) @@ (1 :> p2)

Age(t, cap) == IF now - t > cap THEN cap ELSE now - t

Longest == SessionExpiry + MaxPass + 1

(* lastSent and the previous key decide only how they change themselves,    *)
(* and no property depends on them: the view leaves them out.               *)
SessionView(s) ==
    IF ~s.active THEN <<>>
    ELSE <<s.addr, s.pub, s.rekeying, Age(s.lastHandshake, Longest),
           IF s.lastSeen = 0 THEN -1 ELSE Age(s.lastSeen, Longest)>>

PendingView(p) ==
    IF ~p.active THEN <<>> ELSE <<p.cfg, p.addr, Age(p.sentAt, HandshakeTimeout + MaxPass)>>

ClockView ==
    <<[j \in Slot |-> SessionView(sess[j])], slots, [p \in Slot |-> PendingView(pending[p])],
      [c \in Cfg |-> Age(lastAttempt[c], ReconnectInterval + MaxPass)],
      [hk EXCEPT !.now = Age(@, CheckInterval + MaxPass)], Age(StartTime, MaxLag)>>

MCAddrs == {a1, a2}
AddrSymmetry == Permutations(MCAddrs)
=============================================================================
