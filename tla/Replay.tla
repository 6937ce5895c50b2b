------------------------------- MODULE Replay -------------------------------
(***************************************************************************)
(* The replay window of one session: check_replay (src/src/common.h) at the *)
(* granularity of its loop, and the reset of the window by session_init     *)
(* (src/src/peer.c).                                                        *)
(*                                                                          *)
(* The window is an array of Words words of WordBits bits (32 words of 64   *)
(* in the code); a word is the set of the positions of its 1 bits.  Bit b   *)
(* of word w stands for the sequence number highest - (w * WordBits + b).   *)
(* The words are shifted IN PLACE, from the last one down to word 0, and    *)
(* every iteration of that loop is a step here, so the order in which the   *)
(* code reads and overwrites the words is part of the model.                *)
(*                                                                          *)
(* A caller holds the session's hot_lock over the whole call, so no other   *)
(* call interleaves with the loop: every other action requires pc = "idle". *)
(***************************************************************************)
EXTENDS Integers

CONSTANTS WordBits,  \* bits of a word (64)
          Words,     \* REPLAY_WINDOW_WORDS (32)
          Seqs       \* the sequence numbers a packet may carry

ASSUME WordBitsAssumption == WordBits \in Nat \ {0}
ASSUME WordsAssumption == Words \in Nat \ {0}
ASSUME SeqsAssumption == Seqs \subseteq Nat

VARIABLES highest,   \* recv_seq_highest
          window,    \* recv_seq_window
          pc,        \* "idle" between two calls, "shift" inside the loop
          cur,       \* the argument seq of the call that is in the loop
          i,         \* the loop index of that call
          accepted,  \* history: the numbers accepted under the current key
          verdict    \* history: the last packet judged and the result

vars == <<highest, window, pc, cur, i, accepted, verdict>>

WordIdx == 0 .. Words - 1
BitIdx == 0 .. WordBits - 1
WindowBits == Words * WordBits

ZeroWindow == [w \in WordIdx |-> {}]

(* w << n and w >> n on a word of WordBits bits. *)
Shl(w, n) == {b \in BitIdx : b - n \in w}
Shr(w, n) == {b \in BitIdx : b + n \in w}

(* Mutant of ShiftedWord: the carry comes from the word above. *)
MutShiftedWord(win, k, wn, bn) ==
    LET lo_src == k - wn
        hi_src == lo_src + 1
        lo == IF lo_src >= 0 THEN win[lo_src] ELSE {}
        hi == IF bn > 0 /\ hi_src \in WordIdx THEN win[hi_src] ELSE {}
    IN  IF bn > 0 THEN Shl(lo, bn) \cup Shr(hi, WordBits - bn) ELSE lo

(* The word that one iteration of the loop stores at index k. *)
ShiftedWord(win, k, wn, bn) ==
    LET lo_src == k - wn
        hi_src == lo_src - 1
        lo == IF lo_src >= 0 THEN win[lo_src] ELSE {}
        hi == IF bn > 0 /\ hi_src >= 0 THEN win[hi_src] ELSE {}
    IN  IF bn > 0 THEN Shl(lo, bn) \cup Shr(hi, WordBits - bn) ELSE lo

Init ==
    /\ highest = 0
    /\ window = ZeroWindow
    /\ pc = "idle"
    /\ cur = 0
    /\ i = -1
    /\ accepted = {}
    /\ verdict = [seq |-> 0, ok |-> FALSE]

Accept(s) ==
    /\ accepted' = accepted \cup {s}
    /\ verdict' = [seq |-> s, ok |-> TRUE]

Reject(s) ==
    /\ verdict' = [seq |-> s, ok |-> FALSE]
    /\ UNCHANGED <<highest, window, pc, cur, i, accepted>>

(* seq is so far ahead that nothing of the old window remains. *)
JumpAhead(s) ==
    /\ pc = "idle"
    /\ s > highest
    /\ s - highest >= WindowBits
    /\ window' = [ZeroWindow EXCEPT ![0] = {0}]
    /\ highest' = s
    /\ Accept(s)
    /\ UNCHANGED <<pc, cur, i>>

(* Mutant of StartShift: the loop begins one word past the array. *)
MutStartShift(s) ==
    /\ pc = "idle"
    /\ s > highest
    /\ s - highest < WindowBits
    /\ pc' = "shift"
    /\ cur' = s
    /\ i' = Words
    /\ UNCHANGED <<highest, window, accepted, verdict>>

(* seq is ahead, and the call enters the loop that shifts the window. *)
StartShift(s) ==
    /\ pc = "idle"
    /\ s > highest
    /\ s - highest < WindowBits
    /\ pc' = "shift"
    /\ cur' = s
    /\ i' = Words - 1
    /\ UNCHANGED <<highest, window, accepted, verdict>>

ShiftWord ==
    /\ pc = "shift"
    /\ i >= 0
    /\ LET diff == cur - highest
       IN  window' = [window EXCEPT ![i] =
                        ShiftedWord(window, i, diff \div WordBits, diff % WordBits)]
    /\ i' = i - 1
    /\ UNCHANGED <<highest, pc, cur, accepted, verdict>>

FinishShift ==
    /\ pc = "shift"
    /\ i < 0
    /\ window' = [window EXCEPT ![0] = @ \cup {0}]
    /\ highest' = cur
    /\ pc' = "idle"
    /\ Accept(cur)
    /\ UNCHANGED <<cur, i>>

TooOld(s) ==
    /\ pc = "idle"
    /\ s <= highest
    /\ highest - s >= WindowBits
    /\ Reject(s)

Duplicate(s) ==
    /\ pc = "idle"
    /\ s <= highest
    /\ LET diff == highest - s
       IN  /\ diff < WindowBits
           /\ diff % WordBits \in window[diff \div WordBits]
    /\ Reject(s)

(* Mutant of InWindow: the bit of an accepted number is not recorded. *)
MutInWindow(s) ==
    /\ pc = "idle"
    /\ s <= highest
    /\ highest - s < WindowBits
    /\ (highest - s) % WordBits \notin window[(highest - s) \div WordBits]
    /\ Accept(s)
    /\ UNCHANGED <<highest, window, pc, cur, i>>

InWindow(s) ==
    /\ pc = "idle"
    /\ s <= highest
    /\ LET diff == highest - s
           word == diff \div WordBits
           bit == diff % WordBits
       IN  /\ diff < WindowBits
           /\ bit \notin window[word]
           /\ window' = [window EXCEPT ![word] = @ \cup {bit}]
    /\ Accept(s)
    /\ UNCHANGED <<highest, pc, cur, i>>

(* session_init installs a new key: the window starts again from nothing. *)
Rekey ==
    /\ pc = "idle"
    /\ highest' = 0
    /\ window' = ZeroWindow
    /\ accepted' = {}
    /\ UNCHANGED <<pc, cur, i, verdict>>

CheckReplay(s) ==
    JumpAhead(s) \/ StartShift(s) \/ TooOld(s) \/ Duplicate(s) \/ InWindow(s)

Next ==
    \/ \E s \in Seqs : CheckReplay(s)
    \/ ShiftWord
    \/ FinishShift
    \/ Rekey

Spec == Init /\ [][Next]_vars

-----------------------------------------------------------------------------
(* The types of the window's state: a word holds only bits it has, and the  *)
(* loop index stays within the array (check_replay, common.h:68).           *)
TypeOK ==
    /\ highest \in Nat
    /\ window \in [WordIdx -> SUBSET BitIdx]
    /\ pc \in {"idle", "shift"}
    /\ cur \in Nat
    /\ i \in -1 .. Words - 1
    /\ accepted \subseteq Nat
    /\ verdict \in [seq : Nat, ok : BOOLEAN]

(* The number that bit 0 of word 0 would stand for in the reading of word w *)
(* that is current: words the running loop has passed are already relative  *)
(* to the new highest number, the others still to the old one.              *)
Base(w) == IF pc = "shift" /\ w > i THEN cur ELSE highest

(* At every step, inside the in-place shift too, the bits of the window say *)
(* exactly which numbers were accepted: bit b of word w is set if and only  *)
(* if the number it stands for was accepted (check_replay's comment,        *)
(* common.h:59: "bit 0 = highest, bit k = highest-k").                      *)
WindowExact ==
    \A w \in WordIdx : \A b \in BitIdx :
        b \in window[w] <=> Base(w) - (w * WordBits + b) \in accepted

(* No accepted number exceeds highest, and the call inside the loop has a   *)
(* number above it that fits in the window.                                 *)
HighestBounds ==
    /\ \A a \in accepted : a <= highest
    /\ pc = "shift" => cur \in Seqs /\ cur > highest /\ cur - highest < WindowBits

Inv == TypeOK /\ WindowExact /\ HighestBounds

(* The bitmap implements the set-based promise: each packet is accepted if  *)
(* and only if it is new and less than WindowBits behind the highest number *)
(* (check_replay's return value, common.h:60-87).                           *)
Abs == INSTANCE AntiReplay WITH Window <- WindowBits

RefinesAntiReplay == Abs!AbsSpec
=============================================================================
