---------------------------- MODULE Replay_proofs ----------------------------
(***************************************************************************)
(* Proofs about the replay window, for every word width, every number of    *)
(* words and every set of sequence numbers.                                 *)
(***************************************************************************)
EXTENDS Replay, TLAPS

(***************************************************************************)
(* Arithmetic of bit positions.                                             *)
(***************************************************************************)

(* Splitting a distance into a word index and a bit index loses nothing:    *)
(* what diff / 64 and diff % 64 compute (common.h:66-67, 82-83).            *)
LEMMA DivMod ==
    ASSUME NEW d \in Nat
    PROVE  /\ d \div WordBits \in Nat
           /\ d % WordBits \in BitIdx
           /\ d = (d \div WordBits) * WordBits + (d % WordBits)
<1> DEFINE W == WordBits
<1>1. W \in Nat /\ W > 0
  BY WordBitsAssumption
<1>2. d \div W \in Nat /\ d % W \in 0 .. W - 1 /\ d = W * (d \div W) + (d % W)
  <2> HIDE DEF W
  <2> QED BY <1>1, SMT
<1> QED BY <1>1, <1>2 DEF BitIdx

(* The positions of the window are the numbers below WindowBits.            *)
LEMMA PositionBound ==
    ASSUME NEW w \in WordIdx, NEW b \in BitIdx
    PROVE  w * WordBits + b \in 0 .. WindowBits - 1
<1> DEFINE W == WordBits  N == Words
<1>1. W \in Nat /\ W > 0 /\ N \in Nat /\ w \in Nat /\ w <= N - 1 /\ b \in Nat /\ b <= W - 1
  BY WordBitsAssumption, WordsAssumption DEF WordIdx, BitIdx
<1>2. w * W + b >= 0 /\ w * W + b < N * W /\ w * W + b \in Int
  <2> HIDE DEF W, N
  <2>1. w * W <= (N - 1) * W
    BY <1>1
  <2>2. (N - 1) * W = N * W - W
    BY <1>1
  <2> QED BY <1>1, <2>1, <2>2
<1>3. N * W \in Int
  BY <1>1
<1> QED BY <1>2, <1>3 DEF WindowBits

(* The window has at least one bit.                                         *)
LEMMA WindowBitsNat == WindowBits \in Nat \ {0}
<1>1. WordBits \in Nat /\ WordBits > 0 /\ Words \in Nat /\ Words > 0
  BY WordBitsAssumption, WordsAssumption
<1>2. Words * WordBits > 0
  BY <1>1
<1> QED BY <1>1, <1>2 DEF WindowBits

(* A distance below WindowBits falls in a word the window has.              *)
LEMMA WordInRange ==
    ASSUME NEW d \in Nat, d < WindowBits
    PROVE  d \div WordBits \in WordIdx
<1> DEFINE W == WordBits  N == Words  q == d \div WordBits  r == d % WordBits
<1>1. W \in Nat /\ W > 0 /\ N \in Nat
  BY WordBitsAssumption, WordsAssumption
<1>2. q \in Nat /\ r \in 0 .. W - 1 /\ d = q * W + r
  BY DivMod DEF BitIdx
<1>3. d < N * W
  BY DEF WindowBits
<1>4. q < N
  <2> HIDE DEF W, N, q, r
  <2> SUFFICES ASSUME q >= N PROVE FALSE
    BY <1>1, <1>2
  <2>1. q * W >= N * W
    BY <1>1, <1>2
  <2> QED BY <1>1, <1>2, <1>3, <2>1
<1> QED BY <1>1, <1>2, <1>4 DEF WordIdx

(* A position determines its word and its bit.                              *)
LEMMA PositionUnique ==
    ASSUME NEW v \in WordIdx, NEW w \in WordIdx, NEW a \in BitIdx, NEW b \in BitIdx,
           v * WordBits + a = w * WordBits + b
    PROVE  v = w /\ a = b
<1> DEFINE W == WordBits
<1>1. /\ W \in Nat /\ W > 0 /\ v \in Nat /\ w \in Nat
      /\ a \in Nat /\ a < W /\ b \in Nat /\ b < W
  BY WordBitsAssumption, WordsAssumption DEF WordIdx, BitIdx
<1>2. v * W + a = w * W + b
  OBVIOUS
<1> HIDE DEF W
<1>3. ~(v < w)
  <2> SUFFICES ASSUME v < w PROVE FALSE
    OBVIOUS
  <2>1. (v + 1) * W <= w * W
    BY <1>1
  <2>2. (v + 1) * W = v * W + W
    BY <1>1
  <2> QED BY <1>1, <1>2, <2>1, <2>2
<1>4. ~(w < v)
  <2> SUFFICES ASSUME w < v PROVE FALSE
    OBVIOUS
  <2>1. (w + 1) * W <= v * W
    BY <1>1
  <2>2. (w + 1) * W = w * W + W
    BY <1>1
  <2> QED BY <1>1, <1>2, <2>1, <2>2
<1>5. v = w
  BY <1>1, <1>3, <1>4
<1> QED BY <1>1, <1>2, <1>5

(* Only bit 0 of word 0 is at position 0.                                   *)
LEMMA PositionZero ==
    ASSUME NEW w \in WordIdx, NEW b \in BitIdx
    PROVE  /\ w * WordBits + b \in Nat
           /\ w * WordBits + b = 0 <=> w = 0 /\ b = 0
<1>1. w * WordBits + b \in 0 .. WindowBits - 1
  BY PositionBound
<1>2. 0 \in WordIdx /\ 0 \in BitIdx /\ 0 * WordBits + 0 = 0
  BY WordBitsAssumption, WordsAssumption DEF WordIdx, BitIdx
<1> QED BY <1>1, <1>2, PositionUnique, WindowBitsNat

(***************************************************************************)
(* The inductive invariant.                                                 *)
(***************************************************************************)

(* One iteration of the in-place loop (common.h:68-74) stores in word k the *)
(* bits of the numbers counted back from cur, provided the words it reads,  *)
(* which are word k or earlier ones, still count back from highest.         *)
LEMMA ShiftedWordExact ==
    ASSUME TypeOK, HighestBounds, pc = "shift",
           NEW k \in WordIdx,
           \A w \in 0 .. k : \A b \in BitIdx :
               b \in window[w] <=> highest - (w * WordBits + b) \in accepted,
           NEW b \in BitIdx
    PROVE  b \in ShiftedWord(window, k, (cur - highest) \div WordBits,
                             (cur - highest) % WordBits)
             <=> cur - (k * WordBits + b) \in accepted
<1> DEFINE W == WordBits
           diff == cur - highest
           wn == diff \div WordBits
           bn == diff % WordBits
           lo_src == k - wn
           hi_src == lo_src - 1
           lo == IF lo_src >= 0 THEN window[lo_src] ELSE {}
           hi == IF bn > 0 /\ hi_src >= 0 THEN window[hi_src] ELSE {}
           kW == k * WordBits
           nW == wn * WordBits
<1>1. /\ W \in Nat /\ W > 0 /\ k \in Nat /\ b \in Nat /\ b < W
      /\ highest \in Nat /\ cur \in Nat /\ diff \in Nat /\ diff > 0
  BY WordBitsAssumption, WordsAssumption DEF WordIdx, BitIdx, TypeOK, HighestBounds
<1>2. wn \in Nat /\ bn \in Nat /\ bn < W /\ diff = nW + bn
  BY <1>1, DivMod DEF BitIdx
<1>3. kW \in Nat /\ nW \in Nat
  <2> HIDE DEF wn
  <2> QED BY <1>1, <1>2
<1>4. \A a \in accepted : a \in Nat /\ a <= highest
  BY DEF TypeOK, HighestBounds
<1>5. lo_src \in Int /\ lo_src <= k /\ lo_src * W = kW - nW
  <2> HIDE DEF wn
  <2> QED BY <1>1, <1>2
<1>6. hi_src * W = kW - nW - W
  <2> HIDE DEF wn
  <2> QED BY <1>1, <1>2
<1>7. ASSUME lo_src < 0 PROVE kW + W <= nW
  <2>1. k + 1 <= wn
    BY <1>1, <1>2, <1>7
  <2>2. (k + 1) * W <= wn * W
    <3> HIDE DEF wn
    <3> QED BY <1>1, <1>2, <2>1
  <2>3. (k + 1) * W = kW + W
    BY <1>1
  <2> QED BY <2>2, <2>3
<1>8. ASSUME lo_src >= 0, NEW c \in BitIdx
      PROVE  c \in lo <=> highest - (kW - nW + c) \in accepted
  <2>1. lo_src \in 0 .. k
    BY <1>5, <1>8, <1>1
  <2> QED BY <2>1, <1>5, <1>8
<1>9. ASSUME bn > 0, hi_src >= 0, NEW c \in BitIdx
      PROVE  c \in hi <=> highest - (kW - nW - W + c) \in accepted
  <2>1. hi_src \in 0 .. k
    BY <1>5, <1>9, <1>1
  <2> QED BY <2>1, <1>6, <1>9
<1>10. lo \subseteq BitIdx /\ hi \subseteq BitIdx
  <2>1. lo_src >= 0 => lo_src \in WordIdx
    BY <1>1, <1>5, WordsAssumption DEF WordIdx
  <2>2. hi_src >= 0 => hi_src \in WordIdx
    BY <1>1, <1>5, WordsAssumption DEF WordIdx
  <2> QED BY <2>1, <2>2 DEF TypeOK
<1>11. ShiftedWord(window, k, wn, bn)
         = IF bn > 0 THEN Shl(lo, bn) \cup Shr(hi, W - bn) ELSE lo
  BY DEF ShiftedWord
<1>12. \A c \in Int : c \in BitIdx <=> 0 <= c /\ c < W
  BY <1>1 DEF BitIdx
<1> HIDE DEF wn, bn, lo, hi, kW, nW, lo_src, hi_src, W
<1>13. CASE bn = 0
  <2>1. ShiftedWord(window, k, wn, bn) = lo
    BY <1>11, <1>13
  <2>2. CASE lo_src >= 0
    <3>1. highest - (kW - nW + b) = cur - (kW + b)
      BY <1>1, <1>2, <1>3, <1>13
    <3> QED BY <2>1, <2>2, <1>8, <3>1 DEF kW, wn, bn
  <2>3. CASE lo_src < 0
    <3>1. cur - (kW + b) > highest
      BY <1>1, <1>2, <1>3, <1>13, <1>7, <2>3
    <3>2. cur - (kW + b) \notin accepted
      BY <3>1, <1>4, <1>1, <1>3
    <3>3. b \notin lo
      BY <2>3, <1>5 DEF lo
    <3> QED BY <2>1, <3>2, <3>3 DEF kW, wn, bn
  <2> QED BY <2>2, <2>3, <1>5
<1>14. CASE bn > 0
  <2>1. b \in ShiftedWord(window, k, wn, bn)
          <=> (b - bn \in lo \/ b + (W - bn) \in hi)
    BY <1>11, <1>14 DEF Shl, Shr
  <2>2. CASE b >= bn
    <3>1. b - bn \in BitIdx /\ b + (W - bn) \notin BitIdx
      BY <1>1, <1>2, <1>12, <2>2
    <3>2. b + (W - bn) \notin hi
      BY <3>1, <1>10
    <3>3. CASE lo_src >= 0
      <4>1. highest - (kW - nW + (b - bn)) = cur - (kW + b)
        BY <1>1, <1>2, <1>3
      <4> QED BY <2>1, <3>1, <3>2, <3>3, <1>8, <4>1 DEF kW, wn, bn
    <3>4. CASE lo_src < 0
      <4>1. cur - (kW + b) > highest
        BY <1>1, <1>2, <1>3, <1>7, <3>4
      <4>2. cur - (kW + b) \notin accepted
        BY <4>1, <1>4, <1>1, <1>3
      <4>3. b - bn \notin lo
        BY <3>4, <1>5 DEF lo
      <4> QED BY <2>1, <3>2, <4>2, <4>3 DEF kW, wn, bn
    <3> QED BY <3>3, <3>4, <1>5
  <2>3. CASE b < bn
    <3>1. b + (W - bn) \in BitIdx /\ b - bn \notin BitIdx
      BY <1>1, <1>2, <1>12, <2>3
    <3>2. b - bn \notin lo
      BY <3>1, <1>10
    <3>3. CASE hi_src >= 0
      <4>1. highest - (kW - nW - W + (b + (W - bn))) = cur - (kW + b)
        BY <1>1, <1>2, <1>3
      <4> QED BY <2>1, <3>1, <3>2, <3>3, <1>9, <1>14, <4>1 DEF kW, wn, bn
    <3>4. CASE hi_src < 0
      <4>1. kW <= nW
        <5>1. lo_src < 0 \/ lo_src = 0
          BY <3>4, <1>5 DEF hi_src
        <5>2. lo_src = 0 => kW = nW
          BY <1>5, <1>3, <1>1
        <5> QED BY <5>1, <5>2, <1>7, <1>1, <1>3
      <4>2. cur - (kW + b) > highest
        BY <1>1, <1>2, <1>3, <4>1, <2>3
      <4>3. cur - (kW + b) \notin accepted
        BY <4>2, <1>4, <1>1, <1>3
      <4>4. b + (W - bn) \notin hi
        BY <3>4, <1>5 DEF hi, hi_src
      <4> QED BY <2>1, <3>2, <4>3, <4>4 DEF kW, wn, bn
    <3>5. hi_src \in Int
      BY <1>5 DEF hi_src
    <3> QED BY <3>3, <3>4, <3>5
  <2> QED BY <2>2, <2>3, <1>1, <1>2
<1> QED BY <1>2, <1>13, <1>14 DEF wn, bn

(* An empty window satisfies the invariant.                                 *)
LEMMA InitInv == Init => Inv
<1> SUFFICES ASSUME Init PROVE Inv
  OBVIOUS
<1>1. TypeOK
  BY WordsAssumption DEF Init, TypeOK, ZeroWindow, WordIdx
<1>2. WindowExact
  BY DEF Init, WindowExact, ZeroWindow
<1>3. HighestBounds
  BY DEF Init, HighestBounds
<1> QED BY <1>1, <1>2, <1>3 DEF Inv

(* A step of check_replay or of session_init preserves the invariant.       *)
LEMMA NextInv == Inv /\ [Next]_vars => Inv'
<1> SUFFICES ASSUME Inv, [Next]_vars PROVE Inv'
  OBVIOUS
<1> USE DEF Inv
<1>0. /\ WordBits \in Nat /\ WordBits > 0 /\ Words \in Nat /\ Words > 0
      /\ 0 \in WordIdx /\ 0 \in BitIdx /\ WordIdx \subseteq Nat /\ BitIdx \subseteq Nat
  BY WordBitsAssumption, WordsAssumption DEF WordIdx, BitIdx
<1>1. ASSUME NEW s \in Seqs, JumpAhead(s) PROVE Inv'
  <2>1. s \in Nat
    BY SeqsAssumption
  <2>2. TypeOK'
    BY <1>0, <1>1, <2>1 DEF JumpAhead, Accept, TypeOK, ZeroWindow
  <2>3. pc = "idle" /\ pc' = "idle" /\ highest' = s /\ accepted' = accepted \cup {s}
    BY <1>1 DEF JumpAhead, Accept
  <2>4. ASSUME NEW w \in WordIdx, NEW b \in BitIdx
        PROVE  (b \in window[w] <=> Base(w) - (w * WordBits + b) \in accepted)'
    <3>1. Base(w)' = s
      BY <2>3 DEF Base
    <3>2. w * WordBits + b \in 0 .. WindowBits - 1
      BY PositionBound
    <3>3. s - (w * WordBits + b) \notin accepted
      BY <3>2, <1>1, <2>1, WindowBitsNat DEF JumpAhead, TypeOK, HighestBounds
    <3>4. b \in window'[w] <=> w = 0 /\ b = 0
      BY <1>0, <1>1 DEF JumpAhead, ZeroWindow
    <3>5. (w = 0 /\ b = 0) <=> s - (w * WordBits + b) = s
      <4>1. w * WordBits + b \in Nat /\ (w * WordBits + b = 0 <=> w = 0 /\ b = 0)
        BY PositionZero
      <4> QED BY <4>1, <2>1
    <3> QED BY <3>1, <3>3, <3>4, <3>5, <2>3
  <2>5. WindowExact'
    BY <2>4 DEF WindowExact
  <2>6. HighestBounds'
    BY <2>1, <2>3, <1>1 DEF HighestBounds, JumpAhead, TypeOK
  <2> QED BY <2>2, <2>5, <2>6
<1>2. ASSUME NEW s \in Seqs, StartShift(s) PROVE Inv'
  <2>1. s \in Nat
    BY SeqsAssumption
  <2>2. TypeOK'
    BY <1>0, <1>2, <2>1 DEF StartShift, TypeOK
  <2>3. ASSUME NEW w \in WordIdx PROVE Base(w)' = Base(w)
    BY <1>2, <1>0 DEF StartShift, Base, WordIdx
  <2>4. WindowExact'
    BY <1>2, <2>3 DEF StartShift, WindowExact
  <2>5. HighestBounds'
    BY <1>2 DEF StartShift, HighestBounds
  <2> QED BY <2>2, <2>4, <2>5
<1>3. CASE ShiftWord
  <2> DEFINE nw == ShiftedWord(window, i, (cur - highest) \div WordBits,
                               (cur - highest) % WordBits)
  <2>1. /\ i \in WordIdx /\ i \in Nat /\ pc = "shift" /\ pc' = "shift" /\ i' = i - 1
        /\ window' = [window EXCEPT ![i] = nw]
        /\ UNCHANGED <<highest, cur, accepted, verdict>>
    BY <1>3, <1>0 DEF ShiftWord, TypeOK, WordIdx
  <2>2. ASSUME NEW w \in 0 .. i, NEW b \in BitIdx
        PROVE  b \in window[w] <=> highest - (w * WordBits + b) \in accepted
    <3>1. w \in WordIdx /\ ~(w > i)
      BY <2>1, <1>0 DEF WordIdx
    <3>2. Base(w) = highest
      BY <3>1 DEF Base
    <3> QED BY <3>1, <3>2 DEF WindowExact
  <2>3. ASSUME NEW b \in BitIdx
        PROVE  b \in nw <=> cur - (i * WordBits + b) \in accepted
    BY <2>1, <2>2, ShiftedWordExact
  <2>4. nw \subseteq BitIdx
    <3>1. \A w \in WordIdx : window[w] \subseteq BitIdx
      BY DEF TypeOK
    <3>2. \A m \in Int : i - m >= 0 /\ m >= 0 => i - m \in WordIdx
      BY <2>1, <1>0 DEF WordIdx
    <3>3. (cur - highest) \div WordBits \in Nat
      BY <2>1, DivMod DEF TypeOK, HighestBounds
    <3> QED BY <3>1, <3>2, <3>3, <2>1 DEF ShiftedWord, Shl, Shr
  <2> HIDE DEF nw
  <2>5. TypeOK'
    <3>1. i' \in -1 .. Words - 1
      BY <2>1, <1>0 DEF WordIdx
    <3>2. window' \in [WordIdx -> SUBSET BitIdx]
      BY <2>1, <2>4 DEF TypeOK
    <3> QED BY <2>1, <3>1, <3>2 DEF TypeOK
  <2>6. ASSUME NEW w \in WordIdx, NEW b \in BitIdx
        PROVE  (b \in window[w] <=> Base(w) - (w * WordBits + b) \in accepted)'
    <3>1. CASE w = i
      <4>1. Base(w)' = cur
        BY <2>1, <3>1 DEF Base
      <4>2. window'[w] = nw
        BY <2>1, <3>1 DEF TypeOK
      <4> QED BY <4>1, <4>2, <2>1, <2>3, <3>1
    <3>2. CASE w # i
      <4>1. Base(w)' = Base(w)
        BY <2>1, <3>2, <1>0 DEF Base, WordIdx
      <4>2. window'[w] = window[w]
        BY <2>1, <3>2 DEF TypeOK
      <4> QED BY <4>1, <4>2, <2>1 DEF WindowExact
    <3> QED BY <3>1, <3>2
  <2>7. WindowExact'
    BY <2>6 DEF WindowExact
  <2>8. HighestBounds'
    BY <2>1 DEF HighestBounds
  <2> QED BY <2>5, <2>7, <2>8
<1>4. CASE FinishShift
  <2>1. /\ pc = "shift" /\ pc' = "idle" /\ i < 0 /\ highest' = cur
        /\ accepted' = accepted \cup {cur} /\ window' = [window EXCEPT ![0] = @ \cup {0}]
    BY <1>4 DEF FinishShift, Accept
  <2>2. TypeOK'
    BY <1>0, <1>4 DEF FinishShift, Accept, TypeOK
  <2>3. ASSUME NEW w \in WordIdx, NEW b \in BitIdx
        PROVE  (b \in window[w] <=> Base(w) - (w * WordBits + b) \in accepted)'
    <3>1. Base(w) = cur /\ Base(w)' = cur
      BY <2>1, <1>0 DEF Base, TypeOK, WordIdx
    <3>2. b \in window[w] <=> cur - (w * WordBits + b) \in accepted
      BY <3>1 DEF WindowExact
    <3>3. b \in window'[w] <=> b \in window[w] \/ (w = 0 /\ b = 0)
      BY <2>1, <1>0 DEF TypeOK
    <3>4. w * WordBits + b \in Nat /\ (w * WordBits + b = 0 <=> w = 0 /\ b = 0)
      BY <1>0, PositionZero
    <3>5. cur \in Nat
      BY DEF TypeOK
    <3>6. cur - (w * WordBits + b) = cur <=> w = 0 /\ b = 0
      BY <3>4, <3>5
    <3> QED BY <3>1, <3>2, <3>3, <3>6, <2>1
  <2>4. WindowExact'
    BY <2>3 DEF WindowExact
  <2>5. HighestBounds'
    BY <2>1 DEF HighestBounds, TypeOK
  <2> QED BY <2>2, <2>4, <2>5
<1>5. ASSUME NEW s \in Seqs, TooOld(s) \/ Duplicate(s) PROVE Inv'
  <2>1. s \in Nat
    BY SeqsAssumption
  <2>2. Reject(s)
    BY <1>5 DEF TooOld, Duplicate
  <2>3. TypeOK'
    BY <2>1, <2>2 DEF Reject, TypeOK
  <2>4. WindowExact'
    BY <2>2 DEF Reject, WindowExact, Base
  <2>5. HighestBounds'
    BY <2>2 DEF Reject, HighestBounds
  <2> QED BY <2>3, <2>4, <2>5
<1>6. ASSUME NEW s \in Seqs, InWindow(s) PROVE Inv'
  <2> DEFINE diff == highest - s
             word == diff \div WordBits
             bit == diff % WordBits
  <2>1. s \in Nat /\ highest \in Nat /\ s <= highest /\ diff \in Nat /\ diff < WindowBits
    BY <1>6, SeqsAssumption DEF InWindow, TypeOK
  <2>2. word \in WordIdx /\ bit \in BitIdx /\ diff = word * WordBits + bit
    BY <2>1, DivMod, WordInRange
  <2>3. /\ pc = "idle" /\ pc' = "idle" /\ highest' = highest
        /\ accepted' = accepted \cup {s}
        /\ window' = [window EXCEPT ![word] = @ \cup {bit}]
        /\ UNCHANGED <<cur, i>> /\ verdict' = [seq |-> s, ok |-> TRUE]
    BY <1>6 DEF InWindow, Accept
  <2> HIDE DEF word, bit
  <2>4. TypeOK'
    BY <2>1, <2>2, <2>3 DEF TypeOK
  <2>5. ASSUME NEW w \in WordIdx, NEW b \in BitIdx
        PROVE  (b \in window[w] <=> Base(w) - (w * WordBits + b) \in accepted)'
    <3>1. Base(w) = highest /\ Base(w)' = highest
      BY <2>3 DEF Base
    <3>2. b \in window[w] <=> highest - (w * WordBits + b) \in accepted
      BY <3>1 DEF WindowExact
    <3>3. b \in window'[w] <=> b \in window[w] \/ (w = word /\ b = bit)
      BY <2>2, <2>3 DEF TypeOK
    <3>4. (w = word /\ b = bit) <=> w * WordBits + b = diff
      <4> HIDE DEF diff
      <4> QED BY <2>2, PositionUnique
    <3>5. w * WordBits + b \in Nat
      BY PositionZero
    <3>6. w * WordBits + b = diff <=> highest - (w * WordBits + b) = s
      BY <2>1, <3>5
    <3> QED BY <3>1, <3>2, <3>3, <3>4, <3>6, <2>3
  <2>6. WindowExact'
    BY <2>5 DEF WindowExact
  <2>7. HighestBounds'
    BY <2>1, <2>3 DEF HighestBounds
  <2> QED BY <2>4, <2>6, <2>7
<1>7. CASE Rekey
  <2>1. TypeOK'
    BY <1>7 DEF Rekey, TypeOK, ZeroWindow
  <2>2. WindowExact'
    BY <1>7 DEF Rekey, WindowExact, ZeroWindow
  <2>3. HighestBounds'
    BY <1>7 DEF Rekey, HighestBounds
  <2> QED BY <2>1, <2>2, <2>3
<1>8. CASE UNCHANGED vars
  BY <1>8 DEF vars, TypeOK, WindowExact, HighestBounds, Base
<1> QED BY <1>1, <1>2, <1>3, <1>4, <1>5, <1>6, <1>7, <1>8 DEF Next, CheckReplay

(* The words of the window hold only bits they have, and the loop index     *)
(* stays within the array, whatever numbers arrive (common.h:68).           *)
THEOREM WindowTyped == Spec => []TypeOK
<1>1. Inv => TypeOK
  BY DEF Inv
<1> QED BY InitInv, NextInv, <1>1, PTL DEF Spec

(* The window's bits are exactly the accepted numbers, in every state of    *)
(* every run of check_replay and session_init, inside the in-place shift    *)
(* too, for every word width and every number of words (common.h:56-87).    *)
THEOREM WindowCorrect == Spec => []WindowExact
<1>1. Inv => WindowExact
  BY DEF Inv
<1> QED BY InitInv, NextInv, <1>1, PTL DEF Spec

(***************************************************************************)
(* The refinement.                                                          *)
(***************************************************************************)

(* A number at most highest and inside the window has its bit set exactly   *)
(* when it was accepted: the test of common.h:82-84.                        *)
LEMMA BitTest ==
    ASSUME Inv, pc = "idle", NEW s \in Nat, s <= highest, highest - s < WindowBits
    PROVE  (highest - s) % WordBits \in window[(highest - s) \div WordBits] <=> s \in accepted
<1> DEFINE diff == highest - s
           word == diff \div WordBits
           bit == diff % WordBits
<1>1. highest \in Nat /\ diff \in Nat
  BY DEF Inv, TypeOK
<1>2. word \in WordIdx /\ bit \in BitIdx /\ diff = word * WordBits + bit
  BY <1>1, DivMod, WordInRange
<1>3. Base(word) = highest
  BY DEF Base
<1>4. bit \in window[word] <=> highest - (word * WordBits + bit) \in accepted
  BY <1>2, <1>3 DEF Inv, WindowExact
<1>5. highest - (word * WordBits + bit) = s
  <2> HIDE DEF word, bit
  <2> QED BY <1>1, <1>2
<1> QED BY <1>4, <1>5

(* Every step of the bitmap code is a step of the set-based specification,  *)
(* or leaves its state alone.                                               *)
LEMMA StepRefines == Inv /\ [Next]_vars => [Abs!AbsNext]_(Abs!absVars)
<1> SUFFICES ASSUME Inv, Next PROVE Abs!AbsNext \/ UNCHANGED Abs!absVars
  BY DEF vars, Abs!absVars
<1> USE DEF Abs!absVars
<1>1. highest \in Nat /\ accepted \subseteq Nat /\ \A a \in accepted : a <= highest
  BY DEF Inv, TypeOK, HighestBounds
<1>2. WindowBits \in Nat /\ WindowBits > 0
  BY WindowBitsNat
<1>3. ASSUME NEW s \in Seqs, JumpAhead(s) PROVE Abs!AbsAccept(s)
  <2>1. s \in Nat /\ s > highest /\ s \notin accepted /\ highest - s < WindowBits
    BY <1>1, <1>2, <1>3, SeqsAssumption DEF JumpAhead
  <2> QED BY <2>1, <1>3 DEF JumpAhead, Accept, Abs!AbsAccept, Abs!Fresh
<1>4. ASSUME NEW s \in Seqs, StartShift(s) PROVE UNCHANGED Abs!absVars
  BY <1>4 DEF StartShift
<1>5. CASE ShiftWord
  BY <1>5 DEF ShiftWord
<1>6. ASSUME FinishShift PROVE Abs!AbsAccept(cur)
  <2>1. cur \in Nat /\ cur > highest
    BY <1>6 DEF FinishShift, Inv, TypeOK, HighestBounds
  <2>2. cur \notin accepted /\ highest - cur < WindowBits
    BY <1>1, <1>2, <2>1
  <2> QED BY <2>1, <2>2, <1>6 DEF FinishShift, Accept, Abs!AbsAccept, Abs!Fresh
<1>7. ASSUME NEW s \in Seqs, TooOld(s) PROVE Abs!AbsReject(s)
  <2>1. ~(highest - s < WindowBits)
    BY <1>1, <1>2, <1>7, SeqsAssumption DEF TooOld
  <2> QED BY <2>1, <1>7 DEF TooOld, Reject, Abs!AbsReject, Abs!Fresh
<1>8. ASSUME NEW s \in Seqs, Duplicate(s) PROVE Abs!AbsReject(s)
  <2>1. s \in accepted
    BY <1>8, BitTest, SeqsAssumption DEF Duplicate
  <2> QED BY <2>1, <1>8 DEF Duplicate, Reject, Abs!AbsReject, Abs!Fresh
<1>9. ASSUME NEW s \in Seqs, InWindow(s) PROVE Abs!AbsAccept(s)
  <2>1. s \notin accepted /\ s <= highest /\ highest - s < WindowBits /\ s \in Nat
    BY <1>9, BitTest, SeqsAssumption DEF InWindow
  <2>2. highest' = highest /\ Accept(s)
    BY <1>9 DEF InWindow
  <2> QED BY <1>1, <2>1, <2>2 DEF Accept, Abs!AbsAccept, Abs!Fresh
<1>10. CASE Rekey
  BY <1>10 DEF Rekey, Abs!AbsNext, Abs!AbsRekey
<1>11. CASE FinishShift
  <2>1. cur \in Seqs
    BY <1>11 DEF FinishShift, Inv, HighestBounds
  <2> QED BY <2>1, <1>6, <1>11 DEF Abs!AbsNext
<1> QED BY <1>3, <1>4, <1>5, <1>7, <1>8, <1>9, <1>10, <1>11
     DEF Next, CheckReplay, Abs!AbsNext

(* check_replay accepts a packet if and only if its number was not accepted *)
(* before under the same key and is less than the window's width behind the *)
(* highest one, for every word width and number of words (common.h:60-87).  *)
THEOREM ReplayRefinesAntiReplay == Spec => RefinesAntiReplay
<1>1. Init => Abs!AbsInit
  BY DEF Init, Abs!AbsInit
<1> QED BY <1>1, InitInv, NextInv, StepRefines, PTL DEF Spec, RefinesAntiReplay, Abs!AbsSpec
=============================================================================
