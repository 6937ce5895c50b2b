----------------------------- MODULE AntiReplay -----------------------------
(***************************************************************************)
(* What check_replay (src/src/common.h) promises, without its bitmap: every *)
(* sequence number is accepted at most once, every number that is neither   *)
(* already accepted nor Window or more behind the highest one is accepted,  *)
(* and all the others are rejected.                                         *)
(***************************************************************************)
EXTENDS Integers

CONSTANTS Seqs,      \* the sequence numbers a packet may carry
          Window     \* how far behind the highest number a packet may be

VARIABLES highest,   \* the highest sequence number accepted so far, initially 0
          accepted,  \* the sequence numbers accepted under the current key
          verdict    \* the last packet judged, and whether it was accepted

absVars == <<highest, accepted, verdict>>

AbsInit ==
    /\ highest = 0
    /\ accepted = {}
    /\ verdict = [seq |-> 0, ok |-> FALSE]

(* A packet is new when its number is recent enough and was never accepted. *)
Fresh(s) == s \notin accepted /\ highest - s < Window

AbsAccept(s) ==
    /\ Fresh(s)
    /\ accepted' = accepted \cup {s}
    /\ highest' = IF s > highest THEN s ELSE highest
    /\ verdict' = [seq |-> s, ok |-> TRUE]

AbsReject(s) ==
    /\ ~Fresh(s)
    /\ verdict' = [seq |-> s, ok |-> FALSE]
    /\ UNCHANGED <<highest, accepted>>

(* A new session key starts a new sequence-number space. *)
AbsRekey ==
    /\ highest' = 0
    /\ accepted' = {}
    /\ UNCHANGED verdict

AbsNext == AbsRekey \/ \E s \in Seqs : AbsAccept(s) \/ AbsReject(s)

AbsSpec == AbsInit /\ [][AbsNext]_absVars
=============================================================================
