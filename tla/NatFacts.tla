------------------------------ MODULE NatFacts ------------------------------
(***************************************************************************)
(* Facts about natural numbers that the proofs of several components use:   *)
(* induction over a set, functions given by a recurrence, least elements,   *)
(* powers of two, division.  Every parameter is a set, a function or a      *)
(* number, so that the lemmas can be cited with any instance.               *)
(***************************************************************************)
EXTENDS Integers, FiniteSetTheorems, TLAPS

(* Induction: a set that has 0 and with every number the next has them all. *)
(* If it lacked n, adding 1 would map its part below n into itself, one to  *)
(* one and without reaching 0, against the pigeonhole principle.            *)
LEMMA NatInduct ==
    ASSUME NEW S, 0 \in S, \A n \in Nat : n \in S => n + 1 \in S
    PROVE  Nat \subseteq S
<1> SUFFICES ASSUME NEW n \in Nat, n \notin S PROVE FALSE
  OBVIOUS
<1> DEFINE T == {k \in 0 .. n : k \in S}
           f == [k \in T |-> k + 1]
<1>1. IsFiniteSet(T)
  <2>1. IsFiniteSet(0 .. n)
    BY FS_Interval
  <2> QED BY <2>1, FS_Subset
<1>2. 0 \in T
  OBVIOUS
<1>3. IsFiniteSet(T \ {0}) /\ Cardinality(T \ {0}) = Cardinality(T) - 1
  BY <1>1, <1>2, FS_RemoveElement
<1>4. f \in [T -> T \ {0}]
  <2>1. ASSUME NEW k \in T PROVE k + 1 \in T \ {0}
    <3>1. k \in 0 .. n /\ k \in S /\ k # n
      BY <2>1
    <3>2. k + 1 \in 0 .. n /\ k + 1 \in S /\ k + 1 # 0
      BY <3>1
    <3> QED BY <3>2
  <2> HIDE DEF T
  <2> QED BY <2>1
<1>5. Cardinality(T) \in Nat
  BY <1>1, FS_CardinalityType
<1>6. \E x, y \in T : x # y /\ f[x] = f[y]
  <2> HIDE DEF T, f
  <2>1. Cardinality(T \ {0}) < Cardinality(T)
    BY <1>3, <1>5
  <2> QED BY <1>1, <1>3, <1>4, <2>1, FS_PigeonHole
<1> QED BY <1>6

(* The same from 0 up to a bound. *)
LEMMA IntervalInduct ==
    ASSUME NEW n \in Nat, NEW S, 0 \in S, \A k \in 0 .. n - 1 : k \in S => k + 1 \in S
    PROVE  0 .. n \subseteq S
<1> DEFINE T == S \cup {k \in Nat : k > n}
<1>1. 0 \in T
  OBVIOUS
<1>2. ASSUME NEW k \in Nat, k \in T PROVE k + 1 \in T
  <2>1. CASE k > n
    BY <2>1
  <2>2. CASE k = n
    BY <2>2
  <2>3. CASE k \in 0 .. n - 1
    BY <1>2, <2>3
  <2> QED BY <2>1, <2>2, <2>3
<1>3. Nat \subseteq T
  <2> HIDE DEF T
  <2> QED BY <1>1, <1>2, NatInduct
<1> QED BY <1>3

(* Every nonempty set of natural numbers has a least element. *)
LEMMA Least ==
    ASSUME NEW S, S \subseteq Nat, S # {}
    PROVE  \E m \in S : \A k \in S : m <= k
<1> SUFFICES ASSUME \A m \in S : \E k \in S : ~(m <= k) PROVE FALSE
  OBVIOUS
<1> DEFINE T == {n \in Nat : \A k \in S : n <= k}
<1>1. 0 \in T
  OBVIOUS
<1>2. ASSUME NEW n \in Nat, n \in T PROVE n + 1 \in T
  <2>1. n \notin S
    BY <1>2
  <2>2. \A k \in S : n <= k /\ n # k /\ k \in Nat
    BY <1>2, <2>1
  <2> QED BY <2>2
<1>3. Nat \subseteq T
  <2> HIDE DEF T
  <2> QED BY <1>1, <1>2, NatInduct
<1>4. PICK k : k \in S /\ k \in Nat
  OBVIOUS
<1>5. k + 1 \in T
  BY <1>3, <1>4
<1> QED BY <1>4, <1>5

(* A recurrence on 0 .. n, and what solves it. *)
Steps(n, R) == [1 .. n -> [R -> R]]
Solution(g, n, R, base, step) ==
    g \in [0 .. n -> R] /\ g[0] = base /\ \A k \in 1 .. n : g[k] = step[k][g[k - 1]]

(* A recurrence has a solution on every interval. *)
LEMMA Recurrence ==
    ASSUME NEW n, n \in Nat, NEW R, NEW base, base \in R, NEW step, step \in Steps(n, R)
    PROVE  \E g : Solution(g, n, R, base, step)
<1> USE DEF Steps
<1> DEFINE Solves(g, m) == /\ g \in [0 .. m -> R] /\ g[0] = base
                           /\ \A k \in 1 .. m : g[k] = step[k][g[k - 1]]
           S == {m \in 0 .. n : \E g : Solves(g, m)}
<1>1. 0 \in S
  <2> DEFINE g == [k \in 0 .. 0 |-> base]
  <2>1. Solves(g, 0)
    OBVIOUS
  <2> HIDE DEF g, Solves
  <2> QED BY <2>1
<1>2. ASSUME NEW m \in 0 .. n - 1, m \in S PROVE m + 1 \in S
  <2>1. PICK g : Solves(g, m)
    BY <1>2
  <2> DEFINE h == [k \in 0 .. m + 1 |-> IF k <= m THEN g[k] ELSE step[m + 1][g[m]]]
  <2>2. g[m] \in R /\ m + 1 \in 1 .. n
    BY <2>1
  <2>3. step[m + 1][g[m]] \in R
    BY <2>2
  <2>4. h \in [0 .. m + 1 -> R]
    <3>1. \A k \in 0 .. m + 1 : k <= m => g[k] \in R
      BY <2>1
    <3> QED BY <2>3, <3>1
  <2>5. h[0] = base
    BY <2>1
  <2>6. ASSUME NEW k \in 1 .. m + 1 PROVE h[k] = step[k][h[k - 1]]
    <3>1. CASE k <= m
      <4>1. h[k] = g[k] /\ h[k - 1] = g[k - 1] /\ g[k] = step[k][g[k - 1]]
        BY <2>1, <3>1
      <4> QED BY <4>1
    <3>2. CASE k = m + 1
      <4>1. h[k] = step[m + 1][g[m]] /\ h[k - 1] = g[m]
        BY <3>2
      <4> QED BY <3>2, <4>1
    <3> QED BY <3>1, <3>2
  <2>7. Solves(h, m + 1)
    BY <2>4, <2>5, <2>6
  <2> HIDE DEF h, Solves
  <2> QED BY <2>2, <2>7
<1>3. n \in S
  <2> HIDE DEF S
  <2>1. 0 .. n \subseteq S
    BY <1>1, <1>2, IntervalInduct
  <2> QED BY <2>1
<1> QED BY <1>3 DEF Solution

-----------------------------------------------------------------------------
(* Powers of two, as the numbers of subsets.                                *)

LEMMA PowerSubsets ==
    ASSUME NEW n \in Nat
    PROVE  IsFiniteSet(SUBSET (1 .. n)) /\ Cardinality(SUBSET (1 .. n)) = 2 ^ n
<1>1. IsFiniteSet(1 .. n) /\ Cardinality(1 .. n) = n
  BY FS_Interval
<1> QED BY <1>1, FS_SUBSET

LEMMA PowerZero == 2 ^ 0 = 1
<1>1. SUBSET (1 .. 0) = {{}}
  OBVIOUS
<1> QED BY <1>1, PowerSubsets, FS_Singleton

(* The subsets of 1 .. n + 1 are those without n + 1 and as many with it. *)
LEMMA PowerNext ==
    ASSUME NEW n \in Nat
    PROVE  2 ^ n \in Nat /\ 2 ^ (n + 1) = 2 ^ n + 2 ^ n
<1> DEFINE A == SUBSET (1 .. n)
           B == {a \cup {n + 1} : a \in A}
           f == [a \in A |-> a \cup {n + 1}]
<1>1. IsFiniteSet(A) /\ Cardinality(A) = 2 ^ n /\ Cardinality(A) \in Nat
  BY PowerSubsets, FS_CardinalityType
<1>2. f \in Bijection(A, B)
  <2>1. f \in [A -> B] /\ \A b \in B : \E a \in A : f[a] = b
    OBVIOUS
  <2>2. \A a, c \in A : f[a] = f[c] => a = c
    <3>1. \A a \in A : n + 1 \notin a /\ f[a] \ {n + 1} = a
      OBVIOUS
    <3> QED BY <3>1
  <2> HIDE DEF A, B, f
  <2> QED BY <2>1, <2>2 DEF Bijection, Injection, Surjection, IsInjective
<1>3. IsFiniteSet(B) /\ Cardinality(B) = 2 ^ n
  <2>1. ExistsBijection(A, B)
    BY <1>2 DEF ExistsBijection
  <2> HIDE DEF A, B
  <2> QED BY <1>1, <2>1, FS_Bijection
<1>4. A \cap B = {}
  OBVIOUS
<1>5. SUBSET (1 .. n + 1) = A \cup B
  <2>1. ASSUME NEW c \in SUBSET (1 .. n + 1), n + 1 \in c PROVE c \in B
    <3>1. c \ {n + 1} \in A /\ c = (c \ {n + 1}) \cup {n + 1}
      BY <2>1
    <3> QED BY <3>1
  <2>2. ASSUME NEW c \in SUBSET (1 .. n + 1), n + 1 \notin c PROVE c \in A
    BY <2>2
  <2>3. ASSUME NEW a \in A PROVE a \subseteq 1 .. n + 1 /\ a \cup {n + 1} \subseteq 1 .. n + 1
    <3>1. 1 .. n \subseteq 1 .. n + 1 /\ n + 1 \in 1 .. n + 1
      OBVIOUS
    <3> QED BY <3>1
  <2>4. A \cup B \subseteq SUBSET (1 .. n + 1)
    BY <2>3, ZenonT(60)
  <2>5. SUBSET (1 .. n + 1) \subseteq A \cup B
    BY <2>1, <2>2
  <2> HIDE DEF A, B
  <2> QED BY <2>4, <2>5, Zenon
<1>6. Cardinality(A \cup B) = Cardinality(A) + Cardinality(B) - Cardinality(A \cap B)
  <2> HIDE DEF A, B
  <2> QED BY <1>1, <1>3, FS_Union
<1>7. Cardinality(A \cap B) = 0
  BY <1>4, FS_EmptySet
<1>8. Cardinality(SUBSET (1 .. n + 1)) = 2 ^ (n + 1)
  BY PowerSubsets
<1> HIDE DEF A, B
<1>9. Cardinality(A \cup B) = 2 ^ n + 2 ^ n
  BY <1>1, <1>3, <1>6, <1>7
<1>10. Cardinality(A \cup B) = 2 ^ (n + 1)
  BY <1>5, <1>8, Zenon
<1> QED BY <1>1, <1>9, <1>10

(* Powers of two are positive and grow. *)
LEMMA PowerNat ==
    ASSUME NEW n \in Nat
    PROVE  2 ^ n \in Nat \ {0} /\ 2 ^ n < 2 ^ (n + 1)
<1> DEFINE S == {k \in Nat : 2 ^ k \in Nat \ {0}}
<1>1. 0 \in S
  BY PowerZero
<1>2. ASSUME NEW k \in Nat, k \in S PROVE k + 1 \in S
  BY <1>2, PowerNext
<1>3. Nat \subseteq S
  <2> HIDE DEF S
  <2> QED BY <1>1, <1>2, NatInduct
<1>4. 2 ^ n \in Nat \ {0}
  BY <1>3
<1> QED BY <1>4, PowerNext

LEMMA PowerMonotone ==
    ASSUME NEW m \in Nat, NEW n \in Nat
    PROVE  2 ^ m <= 2 ^ (m + n)
<1> DEFINE S == {k \in Nat : 2 ^ m <= 2 ^ (m + k)}
<1>1. 0 \in S
  BY PowerNat
<1>2. ASSUME NEW k \in Nat, k \in S PROVE k + 1 \in S
  <2>1. m + k \in Nat /\ (m + k) + 1 = m + (k + 1)
    OBVIOUS
  <2>2. 2 ^ (m + k) < 2 ^ (m + (k + 1)) /\ 2 ^ (m + k) \in Nat /\ 2 ^ m \in Nat
    BY <2>1, PowerNat
  <2>3. 2 ^ (m + (k + 1)) \in Nat
    BY <2>1, PowerNat
  <2> QED BY <1>2, <2>2, <2>3
<1>3. Nat \subseteq S
  <2> HIDE DEF S
  <2> QED BY <1>1, <1>2, NatInduct
<1> QED BY <1>3

-----------------------------------------------------------------------------
(* Rounding down to a multiple of q.                                        *)

LEMMA DivisionSpec ==
    ASSUME NEW a \in Nat, NEW q \in Nat \ {0}
    PROVE  a \div q \in Nat /\ a % q \in 0 .. q - 1 /\ a = q * (a \div q) + (a % q)
BY SMT

(* Only one quotient leaves a remainder below q. *)
LEMMA QuotientUnique ==
    ASSUME NEW q \in Nat \ {0}, NEW a \in Nat, NEW b \in Nat,
           NEW r \in 0 .. q - 1, NEW s \in 0 .. q - 1, q * a + r = q * b + s
    PROVE  a = b
<1>1. ASSUME NEW c \in Nat, NEW d \in Nat, c < d PROVE q * d >= q * c + q
  <2>1. PICK e \in Nat : d = c + 1 + e
    BY <1>1
  <2>2. q * d = q * c + q + q * e
    BY <2>1
  <2>3. q * e \in Nat /\ q * c \in Nat
    OBVIOUS
  <2> QED BY <2>2, <2>3
<1>2. q * a \in Nat /\ q * b \in Nat
  OBVIOUS
<1>3. ~(a < b)
  BY <1>1, <1>2
<1>4. ~(b < a)
  BY <1>1, <1>2
<1> QED BY <1>3, <1>4

(* Two numbers round down to the same multiple exactly if their quotients   *)
(* agree; the multiple has the quotient of the number.                      *)
LEMMA RoundedDown ==
    ASSUME NEW q \in Nat \ {0}, NEW a \in Nat, NEW b \in Nat
    PROVE  /\ a - (a % q) \in 0 .. a
           /\ (a - (a % q)) \div q = a \div q
           /\ (a - (a % q)) - ((a - (a % q)) % q) = a - (a % q)
           /\ a - (a % q) = b - (b % q) <=> a \div q = b \div q
<1> DEFINE A == a \div q  B == b \div q  r == a % q  s == b % q
<1>1. /\ A \in Nat /\ r \in 0 .. q - 1 /\ a = q * A + r
      /\ B \in Nat /\ s \in 0 .. q - 1 /\ b = q * B + s
  BY DivisionSpec
<1>2. q * A \in Nat /\ q * B \in Nat
  BY <1>1
<1>3. a - r = q * A /\ b - s = q * B
  BY <1>1, <1>2
<1>4. /\ (q * A) \div q \in Nat /\ (q * A) % q \in 0 .. q - 1
      /\ q * A = q * ((q * A) \div q) + ((q * A) % q)
  BY <1>2, DivisionSpec
<1> HIDE DEF A, B
<1>5. (q * A) \div q = A
  <2>1. 0 \in 0 .. q - 1 /\ q * A + 0 = q * ((q * A) \div q) + ((q * A) % q)
    BY <1>2, <1>4
  <2> QED BY <1>1, <1>4, <2>1, QuotientUnique
<1>6. (q * A) % q = 0
  <2> DEFINE t == (q * A) % q
  <2>1. t \in Nat /\ q * A = q * A + t
    BY <1>4, <1>5
  <2> HIDE DEF t
  <2>2. t = 0
    BY <1>2, <2>1
  <2> QED BY <2>2 DEF t
<1>7. q * A = q * B => A = B
  <2>1. 0 \in 0 .. q - 1 /\ (q * A = q * B => q * A + 0 = q * B + 0)
    OBVIOUS
  <2> QED BY <1>1, <2>1, QuotientUnique
<1>8. q * A <= a
  BY <1>1, <1>2
<1> QED BY <1>2, <1>3, <1>5, <1>6, <1>7, <1>8 DEF A, B
=============================================================================
