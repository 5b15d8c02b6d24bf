---------------------------- MODULE ScoringProofs ----------------------------
(***************************************************************************)
(* Proofs about Scoring, for any number of candidates, judges and samples, *)
(* any scores a judge may say, and any policy; and about Assessment, for   *)
(* any policies, rewards, grades and lengths of what is studied.           *)
(*                                                                         *)
(* The models compute: they sum, sort and count.  So the proofs are mostly *)
(* lemmas on what their operators compute: Sums by induction (from the     *)
(* least counterexample), StableSort by ranks (how many elements come      *)
(* before each one), win counts by injections; sums are linear, monotone   *)
(* and meet the inequality of Cauchy and Schwarz, and a sum over a log is  *)
(* the sum over what it may show, each as often as it does (ByValue).      *)
(*                                                                         *)
(* The inductive invariants are small: ScoringInv says whose score was     *)
(* computed last, that everybody is ranked, and that the comparisons start *)
(* from the order of the scores; StudyInv what the samples of a study are, *)
(* and that a log shows no action more often than its policy takes it.     *)
(***************************************************************************)
EXTENDS Scoring, Assessment, FiniteSetTheorems, WellFoundedInduction, TLAPS

(* A set of natural numbers has a least one.                               *)
LEMMA LeastNumber ==
  ASSUME NEW T, T \subseteq Nat, T # {}
  PROVE  \E x \in T : \A y \in T : x <= y
<1> DEFINE R == OpToRel(<, Nat)
<1>1. \A x, y \in Nat : y < x => <<y, x>> \in R
  BY DEF OpToRel
<1>2. PICK x \in T : \A y \in T : ~(<<y, x>> \in R)
  BY NatLessThanWellFounded, WFMin, Zenon
<1>3. ASSUME NEW y \in T PROVE x <= y
  <2>1. x \in Nat /\ y \in Nat
    OBVIOUS
  <2>2. ~(y < x)
    BY <1>1, <1>2, <2>1, Zenon
  <2> QED
    BY <2>1, <2>2
<1> QED
  BY <1>3

(* Induction on a set, which the provers can use where induction on an     *)
(* operator they cannot.                                                   *)
LEMMA NaturalNumbers ==
  ASSUME NEW S, 0 \in S, \A n \in Nat : n \in S => n + 1 \in S
  PROVE  Nat \subseteq S
<1> SUFFICES ASSUME Nat \ S # {} PROVE FALSE
  OBVIOUS
<1>1. PICK m \in Nat \ S : \A k \in Nat \ S : m <= k
  BY LeastNumber
<1>2. m - 1 \in Nat /\ m - 1 \in S
  BY <1>1
<1> QED
  BY <1>1, <1>2
-----------------------------------------------------------------------------
(* Sums: its recursive equation has a solution, and that is what it is.    *)
Adds(s, f) == [i \in 0..Len(s) |-> IF i = 0 THEN 0 ELSE f[i - 1] + s[i]]

(* The equation of Sums has a solution: grow one that meets it below n.    *)
LEMMA SumsExist ==
  ASSUME NEW s \in Seq(Int)
  PROVE  \E f : f = Adds(s, f)
<1> DEFINE Meets(f, n) == \A i \in 0..Len(s) : i < n => f[i] = Adds(s, f)[i]
           S == {n \in Nat : \E f \in [0..Len(s) -> Int] : Meets(f, n)}
<1>1. 0 \in S
  <2>1. [i \in 0..Len(s) |-> 0] \in [0..Len(s) -> Int]
    OBVIOUS
  <2>2. Meets([i \in 0..Len(s) |-> 0], 0)
    OBVIOUS
  <2> QED
    BY <2>1, <2>2
<1>2. ASSUME NEW n \in Nat, n \in S PROVE n + 1 \in S
  <2>1. PICK f \in [0..Len(s) -> Int] : Meets(f, n)
    BY <1>2
  <2> DEFINE g == [f EXCEPT ![n] = IF n = 0 THEN 0 ELSE f[n - 1] + s[n]]
  <2>2. g \in [0..Len(s) -> Int]
    <3>1. n \in 1..Len(s) => f[n - 1] \in Int /\ s[n] \in Int
      OBVIOUS
    <3> QED
      BY <3>1
  <2>3. ASSUME NEW i \in 0..Len(s), i < n + 1 PROVE g[i] = Adds(s, g)[i]
    <3>1. CASE i = n
      BY <3>1 DEF Adds
    <3>2. CASE i < n
      <4>1. f[i] = IF i = 0 THEN 0 ELSE f[i - 1] + s[i]
        BY <2>1, <3>2 DEF Adds
      <4>2. g[i] = f[i] /\ (i # 0 => g[i - 1] = f[i - 1])
        BY <3>2
      <4> QED
        BY <4>1, <4>2 DEF Adds
    <3> QED
      BY <2>3, <3>1, <3>2
  <2> HIDE DEF g
  <2> QED
    BY <2>2, <2>3
<1>3. Nat \subseteq S
  <2> HIDE DEF S
  <2> QED
    BY <1>1, <1>2, NaturalNumbers
<1>4. PICK f \in [0..Len(s) -> Int] : Meets(f, Len(s) + 1)
  <2>1. Len(s) + 1 \in S
    <3> HIDE DEF S
    <3> QED
      BY <1>3
  <2> QED
    BY <2>1
<1>5. f = Adds(s, f)
  <2>1. \A i \in 0..Len(s) : f[i] = Adds(s, f)[i]
    BY <1>4
  <2> QED
    BY <2>1 DEF Adds
<1> QED
  BY <1>5

(* What the recursive function Sums computes, as its equation.             *)
LEMMA SumsIs ==
  ASSUME NEW s \in Seq(Int)
  PROVE  /\ Sums(s)[0] = 0
         /\ \A i \in 1..Len(s) : Sums(s)[i] = Sums(s)[i - 1] + s[i]
<1>1. Sums(s) = CHOOSE f : f = Adds(s, f)
  BY DEF Sums, Adds
<1>2. Sums(s) = Adds(s, Sums(s))
  BY <1>1, SumsExist
<1>3. ASSUME NEW f, f = Adds(s, f), NEW i \in 0..Len(s)
      PROVE  f[i] = IF i = 0 THEN 0 ELSE f[i - 1] + s[i]
  BY <1>3 DEF Adds
<1>4. Len(s) \in Nat
  OBVIOUS
<1> QED
  BY <1>2, <1>3, <1>4

(* A sum lies between its length times the least and times the largest.    *)
LEMMA TotalBounds ==
  ASSUME NEW s \in Seq(Int), NEW lo \in Int, NEW hi \in Int,
         \A i \in 1..Len(s) : lo <= s[i] /\ s[i] <= hi
  PROVE  Total(s) \in Int /\ Len(s) * lo <= Total(s) /\ Total(s) <= Len(s) * hi
<1> DEFINE Bounded(i) == Sums(s)[i] \in Int /\ i * lo <= Sums(s)[i] /\ Sums(s)[i] <= i * hi
           S == {i \in Nat : i \in 0..Len(s) => Bounded(i)}
<1>1. 0 \in S
  BY SumsIs
<1>2. ASSUME NEW i \in Nat, i \in S PROVE i + 1 \in S
  <2> SUFFICES ASSUME i + 1 \in 1..Len(s) PROVE Bounded(i + 1)
    OBVIOUS
  <2>1. Bounded(i)
    BY <1>2
  <2>2. Sums(s)[i + 1] = Sums(s)[i] + s[i + 1] /\ s[i + 1] \in Int
    BY SumsIs
  <2>3. (i + 1) * lo = i * lo + lo /\ (i + 1) * hi = i * hi + hi
    OBVIOUS
  <2>4. lo <= s[i + 1] /\ s[i + 1] <= hi
    OBVIOUS
  <2>5. i * lo \in Int /\ i * hi \in Int
    OBVIOUS
  <2> QED
    BY <2>1, <2>2, <2>3, <2>4, <2>5
<1>3. Nat \subseteq S
  <2> HIDE DEF S
  <2> QED
    BY <1>1, <1>2, NaturalNumbers
<1> QED
  BY <1>3 DEF Total
-----------------------------------------------------------------------------
(* Sums of functions on 1..n, which are sequences.                         *)
LEMMA IsSequence ==
  ASSUME NEW n \in Nat, NEW s \in [1..n -> Int]
  PROVE  s \in Seq(Int) /\ Len(s) = n
OBVIOUS

LEMMA SumsType ==
  ASSUME NEW n \in Nat, NEW s \in [1..n -> Int]
  PROVE  /\ Sums(s)[0] = 0
         /\ \A i \in 0..n : Sums(s)[i] \in Int
         /\ \A i \in 1..n : Sums(s)[i] = Sums(s)[i - 1] + s[i]
         /\ Total(s) = Sums(s)[n] /\ Total(s) \in Int
<1>1. s \in Seq(Int) /\ Len(s) = n
  BY IsSequence
<1>2. /\ Sums(s)[0] = 0
      /\ \A i \in 1..n : Sums(s)[i] = Sums(s)[i - 1] + s[i]
  BY <1>1, SumsIs
<1> DEFINE S == {i \in Nat : i \in 0..n => Sums(s)[i] \in Int}
<1>3. 0 \in S
  BY <1>2
<1>4. ASSUME NEW i \in Nat, i \in S PROVE i + 1 \in S
  <2> SUFFICES ASSUME i + 1 \in 1..n PROVE Sums(s)[i + 1] \in Int
    OBVIOUS
  <2>1. Sums(s)[i] \in Int /\ s[i + 1] \in Int
    BY <1>4
  <2>2. Sums(s)[i + 1] = Sums(s)[(i + 1) - 1] + s[i + 1] /\ (i + 1) - 1 = i
    BY <1>2
  <2> QED
    BY <2>1, <2>2
<1>5. Nat \subseteq S
  <2> HIDE DEF S
  <2> QED
    BY <1>3, <1>4, NaturalNumbers
<1>6. \A i \in 0..n : Sums(s)[i] \in Int
  BY <1>5
<1>7. Total(s) = Sums(s)[n]
  BY <1>1 DEF Total
<1> QED
  BY <1>2, <1>6, <1>7

LEMMA SumsNext ==
  ASSUME NEW n \in Nat, NEW f \in [1..n -> Int], NEW i \in Nat, i + 1 \in 1..n
  PROVE  Sums(f)[i + 1] = Sums(f)[i] + f[i + 1] /\ Sums(f)[i] \in Int /\ f[i + 1] \in Int
<1>1. (i + 1) - 1 = i /\ i \in 0..n
  OBVIOUS
<1>2. Sums(f)[i + 1] = Sums(f)[(i + 1) - 1] + f[i + 1] /\ Sums(f)[i] \in Int
  BY <1>1, SumsType
<1> QED
  BY <1>1, <1>2

(* r is put together from s, t, u and a constant.                          *)
Combines(n, r, s, t, u, a, b, c, d) ==
  /\ r \in [1..n -> Int] /\ s \in [1..n -> Int] /\ t \in [1..n -> Int] /\ u \in [1..n -> Int]
  /\ a \in Int /\ b \in Int /\ c \in Int /\ d \in Int
  /\ \A i \in 1..n : r[i] = a * s[i] + b * t[i] + c * u[i] + d

(* Sums are linear.                                                        *)
LEMMA Linear ==
  ASSUME NEW n \in Nat, NEW r, NEW s, NEW t, NEW u, NEW a, NEW b, NEW c, NEW d,
         Combines(n, r, s, t, u, a, b, c, d)
  PROVE  Total(r) = a * Total(s) + b * Total(t) + c * Total(u) + d * n
<1> USE DEF Combines
<1> DEFINE Holds(i) == Sums(r)[i] = a * Sums(s)[i] + b * Sums(t)[i] + c * Sums(u)[i] + d * i
           S == {i \in Nat : i \in 0..n => Holds(i)}
<1>1. 0 \in S
  <2>1. Sums(r)[0] = 0 /\ Sums(s)[0] = 0 /\ Sums(t)[0] = 0 /\ Sums(u)[0] = 0
    BY SumsType
  <2>2. a * 0 = 0 /\ b * 0 = 0 /\ c * 0 = 0 /\ d * 0 = 0
    OBVIOUS
  <2>3. Holds(0)
    BY <2>1, <2>2
  <2> QED
    BY <2>3
<1>2. ASSUME NEW i \in Nat, i \in S PROVE i + 1 \in S
  <2> SUFFICES ASSUME i + 1 \in 1..n PROVE Holds(i + 1)
    OBVIOUS
  <2>1. Holds(i)
    BY <1>2
  <2>2. ASSUME NEW f \in [1..n -> Int]
        PROVE  Sums(f)[i + 1] = Sums(f)[i] + f[i + 1] /\ Sums(f)[i] \in Int /\ f[i + 1] \in Int
    BY SumsNext
  <2>3. ASSUME NEW k \in Int, NEW x \in Int, NEW y \in Int PROVE k * (x + y) = k * x + k * y
    OBVIOUS
  <2>4. \A k, x \in Int : k * x \in Int
    OBVIOUS
  <2> DEFINE R == Sums(r)[i] A == Sums(s)[i] B == Sums(t)[i] C == Sums(u)[i]
             x == s[i + 1] y == t[i + 1] z == u[i + 1]
  <2>5. /\ A \in Int /\ B \in Int /\ C \in Int /\ x \in Int /\ y \in Int /\ z \in Int
        /\ Sums(s)[i + 1] = A + x /\ Sums(t)[i + 1] = B + y /\ Sums(u)[i + 1] = C + z
        /\ Sums(r)[i + 1] = R + r[i + 1]
    BY <2>2
  <2>6. R = a * A + b * B + c * C + d * i
    BY <2>1
  <2>7. r[i + 1] = a * x + b * y + c * z + d
    OBVIOUS
  <2>8. d * (i + 1) = d * i + d
    OBVIOUS
  <2> HIDE DEF R, A, B, C, x, y, z
  <2>9. a * (A + x) = a * A + a * x /\ b * (B + y) = b * B + b * y /\ c * (C + z) = c * C + c * z
    BY <2>3, <2>5
  <2>10. /\ a * A \in Int /\ a * x \in Int /\ b * B \in Int /\ b * y \in Int
         /\ c * C \in Int /\ c * z \in Int /\ d * i \in Int
    BY <2>4, <2>5
  <2> QED
    BY <2>5, <2>6, <2>7, <2>8, <2>9, <2>10
<1>3. Nat \subseteq S
  <2> HIDE DEF S
  <2> QED
    BY <1>1, <1>2, NaturalNumbers
<1>4. Holds(n)
  BY <1>3
<1> QED
  BY <1>4, SumsType

(* Larger terms have a larger sum.                                         *)
LEMMA Monotone ==
  ASSUME NEW n \in Nat, NEW s \in [1..n -> Int], NEW t \in [1..n -> Int],
         \A i \in 1..n : s[i] <= t[i]
  PROVE  Total(s) <= Total(t)
<1> DEFINE S == {i \in Nat : i \in 0..n => Sums(s)[i] <= Sums(t)[i]}
<1>1. 0 \in S
  BY SumsType
<1>2. ASSUME NEW i \in Nat, i \in S PROVE i + 1 \in S
  <2> SUFFICES ASSUME i + 1 \in 1..n PROVE Sums(s)[i + 1] <= Sums(t)[i + 1]
    OBVIOUS
  <2>1. Sums(s)[i] <= Sums(t)[i] /\ s[i + 1] <= t[i + 1]
    BY <1>2
  <2>2. ASSUME NEW f \in [1..n -> Int]
        PROVE  Sums(f)[i + 1] = Sums(f)[i] + f[i + 1] /\ Sums(f)[i] \in Int /\ f[i + 1] \in Int
    BY SumsNext
  <2> QED
    BY <2>1, <2>2
<1>3. Nat \subseteq S
  <2> HIDE DEF S
  <2> QED
    BY <1>1, <1>2, NaturalNumbers
<1>4. Sums(s)[n] <= Sums(t)[n]
  BY <1>3
<1> QED
  BY <1>4, SumsType

(* Terms that are none come to nothing.                                    *)
LEMMA SumOfZeros ==
  ASSUME NEW n \in Nat, NEW s \in [1..n -> Int], \A i \in 1..n : s[i] = 0
  PROVE  Total(s) = 0
<1>1. Combines(n, s, s, s, s, 0, 0, 0, 0)
  BY DEF Combines
<1> QED
  BY <1>1, Linear, SumsType

LEMMA Scaled ==
  ASSUME NEW n \in Nat, NEW r \in [1..n -> Int], NEW s \in [1..n -> Int], NEW a \in Int,
         \A i \in 1..n : r[i] = a * s[i]
  PROVE  Total(r) = a * Total(s)
<1>1. \A k, x \in Int : k * x \in Int /\ 0 * x = 0
  OBVIOUS
<1>2. \A i \in 1..n : r[i] = a * s[i] + 0 * s[i] + 0 * s[i] + 0
  <2> SUFFICES ASSUME NEW i \in 1..n PROVE a * s[i] = a * s[i] + 0 * s[i] + 0 * s[i] + 0
    OBVIOUS
  <2>1. s[i] \in Int
    OBVIOUS
  <2> QED
    BY <1>1, <2>1
<1>3. Combines(n, r, s, s, s, a, 0, 0, 0)
  BY <1>2 DEF Combines
<1>4. Total(r) = a * Total(s) + 0 * Total(s) + 0 * Total(s) + 0 * n
  BY <1>3, Linear
<1>5. Total(s) \in Int
  BY SumsType
<1> QED
  BY <1>1, <1>4, <1>5

-----------------------------------------------------------------------------
(* Counting is adding ones.                                                *)
Ones(n, I) == [i \in 1..n |-> IF i \in I THEN 1 ELSE 0]

LEMMA CountIsSum ==
  ASSUME NEW n \in Nat, NEW I \in SUBSET (1..n)
  PROVE  IsFiniteSet(I) /\ Cardinality(I) = Total(Ones(n, I)) /\ Ones(n, I) \in [1..n -> Int]
<1> DEFINE f == Ones(n, I)
           upTo(k) == I \cap (1..k)
           S == {k \in Nat : k \in 0..n =>
                   IsFiniteSet(upTo(k)) /\ Cardinality(upTo(k)) = Sums(f)[k]}
<1>0. \A i \in I : i \in 1..n
  OBVIOUS
<1>1. f \in [1..n -> Int] /\ \A i \in 1..n : f[i] = IF i \in I THEN 1 ELSE 0
  BY DEF Ones
<1>2. 0 \in S
  <2>1. upTo(0) = {}
    BY <1>0
  <2>2. Sums(f)[0] = 0
    <3> HIDE DEF f
    <3> QED
      BY <1>1, SumsType
  <2> QED
    BY <2>1, <2>2, FS_EmptySet
<1>3. ASSUME NEW k \in Nat, k \in S PROVE k + 1 \in S
  <2> SUFFICES ASSUME k + 1 \in 1..n
               PROVE  /\ IsFiniteSet(upTo(k + 1))
                      /\ Cardinality(upTo(k + 1)) = Sums(f)[k + 1]
    OBVIOUS
  <2>1. IsFiniteSet(upTo(k)) /\ Cardinality(upTo(k)) = Sums(f)[k]
    BY <1>3
  <2>2. Sums(f)[k + 1] = Sums(f)[k] + f[k + 1] /\ Sums(f)[k] \in Int
    <3> HIDE DEF f
    <3> QED
      BY <1>1, SumsNext
  <2>3. CASE k + 1 \in I
    <3>1. upTo(k + 1) = upTo(k) \cup {k + 1} /\ k + 1 \notin upTo(k) /\ f[k + 1] = 1
      BY <1>0, <1>1, <2>3
    <3> HIDE DEF upTo, f
    <3> QED
      BY <2>1, <2>2, <3>1, FS_AddElement
  <2>4. CASE k + 1 \notin I
    <3>1. upTo(k + 1) = upTo(k) /\ f[k + 1] = 0
      BY <1>0, <1>1, <2>4
    <3> HIDE DEF upTo, f
    <3> QED
      BY <2>1, <2>2, <3>1
  <2> QED
    BY <2>3, <2>4
<1>4. Nat \subseteq S
  <2> HIDE DEF S
  <2> QED
    BY <1>2, <1>3, NaturalNumbers
<1>5. upTo(n) = I
  BY <1>0
<1>6. IsFiniteSet(upTo(n)) /\ Cardinality(upTo(n)) = Sums(f)[n]
  BY <1>4
<1>7. Total(f) = Sums(f)[n]
  <2> HIDE DEF f
  <2> QED
    BY <1>1, SumsType
<1> QED
  BY <1>1, <1>5, <1>6, <1>7

(* n ones are n, and one is one.                                           *)
LEMMA SumOfOnes ==
  ASSUME NEW n \in Nat
  PROVE  /\ Total([i \in 1..n |-> 1]) = n
         /\ \A j \in 1..n : Total(Ones(n, {j})) = 1
<1>1. [i \in 1..n |-> 1] = Ones(n, 1..n)
  BY DEF Ones
<1>2. Cardinality(1..n) = n
  BY FS_Interval
<1>3. Total(Ones(n, 1..n)) = n
  BY <1>2, CountIsSum
<1>4. ASSUME NEW j \in 1..n PROVE Total(Ones(n, {j})) = 1
  <2>1. {j} \in SUBSET (1..n) /\ Cardinality({j}) = 1
    BY FS_Singleton
  <2> QED
    BY <2>1, CountIsSum
<1> QED
  BY <1>1, <1>3, <1>4

(* No term is larger than the sum if none is negative.                     *)
LEMMA TermInTotal ==
  ASSUME NEW n \in Nat, NEW s \in [1..n -> Int], \A i \in 1..n : s[i] >= 0, NEW j \in 1..n
  PROVE  s[j] <= Total(s)
<1> DEFINE o == Ones(n, {j})
           t == [i \in 1..n |-> IF i = j THEN s[j] ELSE 0]
           a == s[j]
<1>1. o \in [1..n -> Int] /\ Total(o) = 1
  <2>1. Total(Ones(n, {j})) = 1
    BY SumOfOnes
  <2> QED
    BY <2>1 DEF Ones
<1>2. t \in [1..n -> Int] /\ \A i \in 1..n : t[i] = a * o[i] /\ t[i] <= s[i]
  BY DEF Ones
<1>3. a \in Int /\ a = s[j]
  OBVIOUS
<1> HIDE DEF o, t, a
<1>4. Total(t) = a * Total(o)
  BY <1>1, <1>2, <1>3, Scaled
<1>5. Total(t) <= Total(s)
  BY <1>2, Monotone
<1> QED
  BY <1>1, <1>3, <1>4, <1>5

(* If nothing is negative, nothing comes of zeros only.                    *)
LEMMA ZeroTotal ==
  ASSUME NEW n \in Nat, NEW s \in [1..n -> Int], \A i \in 1..n : s[i] >= 0, Total(s) = 0
  PROVE  \A i \in 1..n : s[i] = 0
BY TermInTotal

LEMMA Positive ==
  ASSUME NEW n \in Nat, NEW s \in [1..n -> Int], \A i \in 1..n : s[i] >= 0
  PROVE  Total(s) >= 0
<1> DEFINE z == [i \in 1..n |-> 0]
<1>1. z \in [1..n -> Int] /\ (\A i \in 1..n : z[i] = 0) /\ \A i \in 1..n : z[i] <= s[i]
  OBVIOUS
<1> HIDE DEF z
<1>2. Total(z) = 0
  BY <1>1, SumOfZeros
<1>3. Total(z) <= Total(s)
  BY <1>1, Monotone
<1> QED
  BY <1>2, <1>3, SumsType
-----------------------------------------------------------------------------
Times(n, u, v) == [i \in 1..n |-> u[i] * v[i]]

LEMMA SquareOfDifference ==
  ASSUME NEW p \in Int, NEW q \in Int, NEW x \in Int, NEW y \in Int
  PROVE  /\ (p * x - q * y) * (p * x - q * y)
              = (p * p) * (x * x) + (-(2 * (p * q))) * (x * y) + (q * q) * (y * y)
         /\ (p * x - q * y) * (p * x - q * y) >= 0
OBVIOUS

LEMMA TimesType ==
  ASSUME NEW n \in Nat, NEW u \in [1..n -> Int], NEW v \in [1..n -> Int]
  PROVE  /\ Times(n, u, v) \in [1..n -> Int]
         /\ \A i \in 1..n : Times(n, u, v)[i] = u[i] * v[i]
         /\ Total(Times(n, u, v)) \in Int
<1>1. \A k, x \in Int : k * x \in Int
  OBVIOUS
<1>2. \A i \in 1..n : u[i] * v[i] \in Int
  BY <1>1
<1>3. Times(n, u, v) \in [1..n -> Int] /\ \A i \in 1..n : Times(n, u, v)[i] = u[i] * v[i]
  BY <1>2 DEF Times
<1> QED
  BY <1>3, SumsType

(* The squares of p * u - q * v, and what they come to.                    *)
Squares(n, r, p, u, q, v) ==
  /\ u \in [1..n -> Int] /\ v \in [1..n -> Int] /\ p \in Int /\ q \in Int
  /\ r = [i \in 1..n |-> (p * u[i] - q * v[i]) * (p * u[i] - q * v[i])]

LEMMA SumOfSquares ==
  ASSUME NEW n \in Nat, NEW u, NEW v, NEW p, NEW q, NEW r, Squares(n, r, p, u, q, v)
  PROVE  /\ r \in [1..n -> Int] /\ Total(r) >= 0
         /\ Total(r) = (p * p) * Total(Times(n, u, u)) + (-(2 * (p * q))) * Total(Times(n, u, v))
                         + (q * q) * Total(Times(n, v, v))
<1>0. /\ u \in [1..n -> Int] /\ v \in [1..n -> Int] /\ p \in Int /\ q \in Int
      /\ r = [i \in 1..n |-> (p * u[i] - q * v[i]) * (p * u[i] - q * v[i])]
  BY DEF Squares
<1> USE <1>0
<1> DEFINE a == p * p  b == -(2 * (p * q))  c == q * q
           uu == Times(n, u, u)  uv == Times(n, u, v)  vv == Times(n, v, v)
<1>1. a \in Int /\ b \in Int /\ c \in Int
  OBVIOUS
<1>2. \A i \in 1..n : uu[i] = u[i] * u[i] /\ uv[i] = u[i] * v[i] /\ vv[i] = v[i] * v[i]
  BY TimesType
<1>3. /\ uu \in [1..n -> Int] /\ uv \in [1..n -> Int] /\ vv \in [1..n -> Int]
      /\ Total(uu) \in Int /\ Total(uv) \in Int /\ Total(vv) \in Int
  BY TimesType
<1>4. ASSUME NEW i \in 1..n
      PROVE  /\ (p * u[i] - q * v[i]) * (p * u[i] - q * v[i]) \in Int
             /\ (p * u[i] - q * v[i]) * (p * u[i] - q * v[i]) >= 0
             /\ (p * u[i] - q * v[i]) * (p * u[i] - q * v[i])
                  = a * uu[i] + b * uv[i] + c * vv[i] + 0
  <2> DEFINE x == u[i]  y == v[i]
  <2>1. x \in Int /\ y \in Int
    OBVIOUS
  <2>2. uu[i] = x * x /\ uv[i] = x * y /\ vv[i] = y * y
    BY <1>2
  <2> HIDE DEF x, y, uu, uv, vv
  <2>3. /\ (p * x - q * y) * (p * x - q * y) = a * (x * x) + b * (x * y) + c * (y * y)
        /\ (p * x - q * y) * (p * x - q * y) >= 0
    BY <2>1, SquareOfDifference
  <2>4. (p * x - q * y) * (p * x - q * y) \in Int
    BY <2>1
  <2>5. (p * x - q * y) * (p * x - q * y) = a * uu[i] + b * uv[i] + c * vv[i] + 0
    <3> HIDE DEF a, b, c
    <3>1. a * (x * x) + b * (x * y) + c * (y * y) \in Int
      BY <2>3, <2>4
    <3> QED
      BY <2>2, <2>3, <2>4, <3>1
  <2> QED
    BY <2>3, <2>4, <2>5 DEF x, y
<1>5. /\ r \in [1..n -> Int]
      /\ \A i \in 1..n : r[i] = (p * u[i] - q * v[i]) * (p * u[i] - q * v[i])
  BY <1>4
<1> HIDE DEF a, b, c, uu, uv, vv
<1>6. \A i \in 1..n : r[i] = a * uu[i] + b * uv[i] + c * vv[i] + 0 /\ r[i] >= 0
  BY <1>4, <1>5
<1>7. Combines(n, r, uu, uv, vv, a, b, c, 0)
  BY <1>1, <1>3, <1>5, <1>6 DEF Combines
<1>8. Total(r) = a * Total(uu) + b * Total(uv) + c * Total(vv) + 0 * n
  BY <1>7, Linear
<1>9. \A k, x \in Int : k * x \in Int /\ 0 * x = 0
  OBVIOUS
<1>10. Total(r) = a * Total(uu) + b * Total(uv) + c * Total(vv)
  BY <1>1, <1>3, <1>8, <1>9
<1>11. Total(r) >= 0
  BY <1>5, <1>6, Positive
<1> QED
  BY <1>5, <1>10, <1>11 DEF a, b, c, uu, uv, vv

(* A quadratic form, and when it has no two roots: if it is never          *)
(* negative.                                                               *)
Form(p, q, A, B, C) == (p * p) * A + (-(2 * (p * q))) * C + (q * q) * B

LEMMA Discriminant ==
  ASSUME NEW A \in Nat, NEW B \in Nat, NEW C \in Int,
         \A p, q \in Int : Form(p, q, A, B, C) >= 0
  PROVE  C * C <= A * B
<1>0. B \in Int /\ A + 1 \in Int
  OBVIOUS
<1>1. CASE B > 0
  <2>0. Form(B, C, A, B, C) >= 0
    BY <1>0
  <2>1. (B * B) * A + (-(2 * (B * C))) * C + (C * C) * B >= 0
    BY <2>0 DEF Form
  <2>2. (B * B) * A + (-(2 * (B * C))) * C + (C * C) * B = B * (A * B) - B * (C * C)
    OBVIOUS
  <2>3. A * B \in Int /\ C * C \in Int /\ B \in Nat \ {0}
    BY <1>1
  <2> DEFINE x == C * C  y == A * B
  <2>4. B * x <= B * y
    <3>1. B * x \in Int /\ B * y \in Int
      BY <2>3
    <3> QED
      BY <2>1, <2>2, <3>1
  <2> HIDE DEF x, y
  <2>5. x <= y
    <3>1. x \in Int /\ y \in Int
      BY <2>3 DEF x, y
    <3>2. ASSUME y + 1 <= x PROVE FALSE
      <4>1. B * (y + 1) <= B * x
        BY <3>1, <3>2
      <4>2. B * (y + 1) = B * y + B
        BY <3>1
      <4>3. B * y \in Int /\ B * x \in Int
        BY <3>1
      <4> QED
        BY <1>1, <2>4, <4>1, <4>2, <4>3
    <3> QED
      BY <3>1, <3>2
  <2> QED
    BY <2>5 DEF x, y
<1>2. CASE B = 0
  <2>0. Form(C, A + 1, A, B, C) >= 0
    BY <1>0
  <2>1. (C * C) * A + (-(2 * (C * (A + 1)))) * C + ((A + 1) * (A + 1)) * B >= 0
    BY <2>0 DEF Form
  <2>2. (C * C) * A + (-(2 * (C * (A + 1)))) * C = -((C * C) * (A + 2))
    OBVIOUS
  <2>3. (C * C) * A + (-(2 * (C * (A + 1)))) * C >= 0
    <3>1. ((A + 1) * (A + 1)) * B = 0
      BY <1>2
    <3>2. (C * C) * A + (-(2 * (C * (A + 1)))) * C \in Int
      OBVIOUS
    <3> QED
      BY <2>1, <3>1, <3>2
  <2>4. (C * C) * (A + 2) <= 0
    BY <2>2, <2>3
  <2>5. C * C >= 0
    OBVIOUS
  <2>6. C * C <= 0
    <3> DEFINE x == C * C
    <3>1. x \in Int /\ x >= 0 /\ x * (A + 2) <= 0
      BY <2>4, <2>5
    <3> HIDE DEF x
    <3>2. x * (A + 2) = x * (A + 1) + x /\ x * (A + 1) >= 0
      BY <3>1
    <3>3. x * (A + 1) \in Int
      BY <3>1
    <3>4. x <= 0
      BY <3>1, <3>2, <3>3
    <3> QED
      BY <3>4 DEF x
  <2>7. A * B = 0
    BY <1>2
  <2> QED
    BY <2>6, <2>7
<1> QED
  BY <1>1, <1>2

(* The inequality of Cauchy and Schwarz.                                   *)
LEMMA Cauchy ==
  ASSUME NEW n \in Nat, NEW u \in [1..n -> Int], NEW v \in [1..n -> Int]
  PROVE  Total(Times(n, u, v)) * Total(Times(n, u, v))
           <= Total(Times(n, u, u)) * Total(Times(n, v, v))
<1> DEFINE A == Total(Times(n, u, u))  B == Total(Times(n, v, v))  C == Total(Times(n, u, v))
<1>1. A \in Int /\ B \in Int /\ C \in Int
  BY TimesType
<1>2. ASSUME NEW p \in Int, NEW q \in Int
      PROVE  Form(p, q, A, B, C) >= 0
  <2> DEFINE r == [i \in 1..n |-> (p * u[i] - q * v[i]) * (p * u[i] - q * v[i])]
  <2>1. Squares(n, r, p, u, q, v)
    BY DEF Squares
  <2> HIDE DEF r
  <2> QED
    BY <2>1, SumOfSquares DEF Form
<1> HIDE DEF A, B, C
<1>3. A >= 0
  <2>1. Form(1, 0, A, B, C) >= 0
    BY <1>2
  <2> QED
    BY <1>1, <2>1 DEF Form
<1>4. B >= 0
  <2>1. Form(0, 1, A, B, C) >= 0
    BY <1>2
  <2> QED
    BY <1>1, <2>1 DEF Form
<1>5. C * C <= A * B
  <2>1. A \in Nat /\ B \in Nat
    BY <1>1, <1>3, <1>4
  <2>2. \A p, q \in Int : Form(p, q, A, B, C) >= 0
    BY <1>2
  <2> QED
    BY <1>1, <2>1, <2>2, Discriminant
<1> QED
  BY <1>5 DEF A, B, C
-----------------------------------------------------------------------------
(* A quotient lies where the products of its bounds say.                   *)
LEMMA Division ==
  ASSUME NEW a \in Int, NEW n \in Nat \ {0}, NEW lo \in Int, NEW hi \in Int,
         n * lo <= a, a <= n * hi
  PROVE  a \div n \in lo..hi
<1>1. a \div n \in Int /\ n * (a \div n) <= a /\ a < n * (a \div n) + n
  OBVIOUS
<1> DEFINE q == a \div n
<1> HIDE DEF q
<1>2. q \in Int /\ n * q <= a /\ a < n * q + n
  BY <1>1 DEF q
<1>3. ASSUME q < lo PROVE FALSE
  <2>1. n * (q + 1) <= n * lo
    BY <1>2, <1>3
  <2>2. n * (q + 1) = n * q + n
    BY <1>2
  <2> QED
    BY <1>2, <2>1, <2>2
<1>4. ASSUME q > hi PROVE FALSE
  <2>1. n * (hi + 1) <= n * q
    BY <1>2, <1>4
  <2>2. n * (hi + 1) = n * hi + n
    OBVIOUS
  <2> QED
    BY <1>2, <2>1, <2>2
<1> QED
  BY <1>2, <1>3, <1>4 DEF q
-----------------------------------------------------------------------------
(* Neighbours in order are all in order.                                   *)
LEMMA SortedOrder ==
  ASSUME NEW n \in Nat, NEW s \in [1..n -> Int], \A i \in 2..n : s[i - 1] <= s[i]
  PROVE  \A i, j \in 1..n : i <= j => s[i] <= s[j]
<1> DEFINE S == {d \in Nat : \A i, j \in 1..n : j = i + d => s[i] <= s[j]}
<1>1. 0 \in S
  OBVIOUS
<1>2. ASSUME NEW d \in Nat, d \in S PROVE d + 1 \in S
  <2> SUFFICES ASSUME NEW i \in 1..n, NEW j \in 1..n, j = i + (d + 1) PROVE s[i] <= s[j]
    OBVIOUS
  <2>1. j - 1 \in 1..n /\ j - 1 = i + d /\ j \in 2..n
    OBVIOUS
  <2>2. s[i] <= s[j - 1] /\ s[j - 1] <= s[j]
    BY <1>2, <2>1
  <2>3. s[i] \in Int /\ s[j] \in Int /\ s[j - 1] \in Int
    BY <2>1
  <2> QED
    BY <2>2, <2>3
<1>3. Nat \subseteq S
  <2> HIDE DEF S
  <2> QED
    BY <1>1, <1>2, NaturalNumbers
<1>4. ASSUME NEW i \in 1..n, NEW j \in 1..n, i <= j PROVE s[i] <= s[j]
  <2>1. j - i \in Nat /\ j = i + (j - i)
    BY <1>4
  <2>2. j - i \in S
    <3> HIDE DEF S
    <3> QED
      BY <1>3, <2>1
  <2> QED
    BY <2>1, <2>2
<1> QED
  BY <1>4

(* No judge is heard to say less than 1 or more than 5.                    *)
LEMMA HeardRange == Heard \subseteq 1..5
BY ScoringAssumption DEF Heard, Parsed

(* The mean of what is left of four or more scores lies between the second *)
(* and the last but one.                                                   *)
LEMMA TrimmedMeanBounds ==
  ASSUME NEW n \in Nat, NEW s \in Increasing(n)
  PROVE  /\ TrimmedMean(s) \in Nat
         /\ n >= 4 => TrimmedMean(s) \in (Scale * s[2])..(Scale * s[n - 1])
<1>1. /\ s \in Seq(Int) /\ Len(s) = n /\ s \in [1..n -> Int]
      /\ \A i \in 1..n : s[i] \in 1..5
      /\ \A i \in 2..n : s[i - 1] <= s[i]
  <2>1. s \in [1..n -> Heard] /\ \A i \in 2..n : s[i - 1] <= s[i]
    BY DEF Increasing
  <2>2. s \in [1..n -> 1..5]
    BY <2>1, HeardRange
  <2>3. s \in Seq(Int) /\ Len(s) = n
    BY <2>2
  <2> QED
    BY <2>1, <2>2, <2>3
<1>2. CASE n = 0
  BY <1>1, <1>2 DEF TrimmedMean
<1>3. CASE n > 0
  <2> DEFINE cut  == IF n >= 4 THEN n \div 4 ELSE 0
             kept == SubSeq(s, 1 + cut, n - cut)
             lo   == IF n >= 4 THEN s[2] ELSE 1
             hi   == IF n >= 4 THEN s[n - 1] ELSE 5
  <2>1. cut \in Nat /\ n - 2 * cut > 0 /\ (n >= 4 => cut >= 1)
    BY <1>3
  <2>2. lo \in 1..5 /\ hi \in 1..5
    BY <1>1, <1>3
  <2>3. \A i \in (1 + cut)..(n - cut) : lo <= s[i] /\ s[i] <= hi
    <3> SUFFICES ASSUME NEW i \in (1 + cut)..(n - cut) PROVE lo <= s[i] /\ s[i] <= hi
      OBVIOUS
    <3> HIDE DEF cut
    <3>1. i \in 1..n
      BY <2>1
    <3>2. CASE n >= 4
      <4>1. 2 \in 1..n /\ n - 1 \in 1..n /\ 2 <= i /\ i <= n - 1
        BY <2>1, <3>2
      <4> QED
        BY <1>1, <3>1, <3>2, <4>1, SortedOrder
    <3>3. CASE ~(n >= 4)
      BY <1>1, <3>1, <3>3
    <3> QED
      BY <3>2, <3>3
  <2>4. /\ kept \in Seq(Int) /\ Len(kept) = n - 2 * cut
        /\ \A i \in 1..Len(kept) : kept[i] = s[cut + i]
    <3> HIDE DEF cut
    <3> QED
      BY <1>1, <2>1
  <2>5. \A i \in 1..Len(kept) : lo <= kept[i] /\ kept[i] <= hi
    <3> HIDE DEF cut, kept, lo, hi
    <3> QED
      BY <2>1, <2>3, <2>4
  <2>6. /\ Total(kept) \in Int
        /\ Len(kept) * lo <= Total(kept) /\ Total(kept) <= Len(kept) * hi
    <3> HIDE DEF cut, kept, lo, hi
    <3>1. kept \in Seq(Int) /\ lo \in Int /\ hi \in Int
      BY <2>2, <2>4
    <3> QED
      BY <2>5, <3>1, TotalBounds
  <2>7. TrimmedMean(s) = (12 * Total(kept)) \div Len(kept)
    <3>1. s # <<>>
      BY <1>1, <1>3
    <3> QED
      BY <1>1, <3>1 DEF TrimmedMean, Scale
  <2> HIDE DEF cut, kept, lo, hi
  <2>8. (12 * Total(kept)) \div Len(kept) \in (12 * lo)..(12 * hi)
    <3> DEFINE T == Total(kept)
               L == Len(kept)
    <3> HIDE DEF T, L
    <3>1. T \in Int /\ L \in Nat \ {0} /\ L * lo <= T /\ T <= L * hi
      BY <2>1, <2>4, <2>6 DEF T, L
    <3>2. L * (12 * lo) <= 12 * T /\ 12 * T <= L * (12 * hi)
      BY <2>2, <3>1
    <3>3. 12 * T \in Int /\ 12 * lo \in Int /\ 12 * hi \in Int
      BY <2>2, <3>1
    <3>4. (12 * T) \div L \in (12 * lo)..(12 * hi)
      BY <3>1, <3>2, <3>3, Division
    <3> QED
      BY <3>4 DEF T, L
  <2>9. TrimmedMean(s) \in (12 * lo)..(12 * hi)
    BY <2>7, <2>8
  <2>10. TrimmedMean(s) \in Nat
    BY <2>2, <2>9
  <2> QED
    BY <2>9, <2>10 DEF lo, hi, Scale
<1> QED
  BY <1>2, <1>3
-----------------------------------------------------------------------------
(* Products keep an order, and (Cancel) give it back.                      *)
LEMMA SmallerTimes ==
  ASSUME NEW a \in Int, NEW b \in Int, NEW k \in Nat, a <= b
  PROVE  k * a <= k * b
OBVIOUS

LEMMA Cancel ==
  ASSUME NEW a \in Int, NEW b \in Int, NEW k \in Nat \ {0}, k * a <= k * b
  PROVE  a <= b
<1> SUFFICES ASSUME b + 1 <= a PROVE FALSE
  OBVIOUS
<1>1. k * (b + 1) <= k * a
  BY SmallerTimes
<1>2. k * (b + 1) = k * b + k
  OBVIOUS
<1> QED
  BY <1>1, <1>2

(* How far a policy can carry a candidate: trust is its weight, of at most *)
(* 10 * t; s and q are the score and the share of the one that is chosen,  *)
(* top is the best score, r its share; no share is above sure, and x is the*)
(* score of any candidate that is passed over.                             *)
LEMMA WeightBound ==
  ASSUME NEW t \in Nat \ {0}, NEW trust \in 0..(10 * t), NEW sure \in 0..10,
         NEW s \in Nat, NEW top \in Nat, NEW q \in 0..sure, NEW r \in 0..10, NEW x \in 0..top,
         (10 * t - trust) * 10 * top + trust * r * top
           <= (10 * t - trust) * 10 * s + trust * q * top
  PROVE  (10 * t - trust) * 10 * (x - s) <= trust * sure * x
<1> DEFINE k == (10 * t - trust) * 10
           reach == trust * sure
<1>1. k \in Nat /\ trust \in Nat
  OBVIOUS
<1>2. reach \in Nat /\ trust * q \in Nat /\ trust * r \in Nat
  BY <1>1
<1>3. trust * q <= reach
  BY <1>1, SmallerTimes
<1>4. (trust * q) * top <= reach * top /\ (trust * r) * top >= 0
  <2> DEFINE a == trust * q
             c == trust * r
  <2>1. a \in Nat /\ c \in Nat /\ a <= reach
    BY <1>2, <1>3
  <2> HIDE DEF a, c, reach
  <2>2. top * a <= top * reach
    BY <1>2, <2>1, SmallerTimes
  <2>3. a * top <= reach * top /\ c * top >= 0
    BY <1>2, <2>1, <2>2
  <2> QED
    BY <2>3 DEF a, c
<1>5. k * top <= k * s + reach * top
  <2> DEFINE a == (trust * q) * top
             c == (trust * r) * top
  <2>1. k * top + c <= k * s + a
    OBVIOUS
  <2>2. a \in Int /\ c \in Int /\ a <= reach * top /\ c >= 0
    BY <1>2, <1>4
  <2>3. k * top \in Int /\ k * s \in Int /\ reach * top \in Int
    BY <1>1, <1>2
  <2> HIDE DEF a, c, k, reach
  <2> QED
    BY <2>1, <2>2, <2>3
<1> HIDE DEF k, reach
<1>6. k * x - k * s <= reach * x
  <2>1. k * x \in Int /\ k * s \in Nat /\ reach * x \in Int
    BY <1>1, <1>2
  <2>2. CASE k >= reach
    <3>1. k - reach \in Nat /\ (k - reach) * x <= (k - reach) * top
      BY <1>1, <1>2, <2>2, SmallerTimes
    <3>2. (k - reach) * x = k * x - reach * x /\ (k - reach) * top = k * top - reach * top
      BY <1>1, <1>2
    <3>3. k * top \in Int /\ reach * top \in Int
      BY <1>1, <1>2
    <3> QED
      BY <1>5, <2>1, <3>1, <3>2, <3>3
  <2>3. CASE k < reach
    <3>1. x * k <= x * reach
      BY <1>1, <1>2, <2>3, SmallerTimes
    <3>2. k * x <= reach * x
      BY <1>1, <1>2, <3>1
    <3> QED
      BY <2>1, <3>2
  <2> QED
    BY <1>1, <1>2, <2>2, <2>3
<1>7. k * (x - s) = k * x - k * s
  BY <1>1
<1> QED
  BY <1>6, <1>7 DEF k, reach
-----------------------------------------------------------------------------
(* The first of the largest: there is one, so that Best is it.             *)
LEMMA BestIs ==
  ASSUME NEW key \in [1..N -> Int]
  PROVE  Best(key) \in 1..N /\ \A j \in 1..N : key[j] <= key[Best(key)]
<1> USE ScoringAssumption
<1> DEFINE First(i, n) == /\ i \in 1..n
                          /\ \A j \in 1..n : key[j] <= key[i]
                          /\ \A j \in 1..(i - 1) : key[j] < key[i]
           S == {n \in Nat : n \in 1..N => \E i \in 1..n : First(i, n)}
<1>1. 0 \in S
  OBVIOUS
<1>2. ASSUME NEW n \in Nat, n \in S PROVE n + 1 \in S
  <2> SUFFICES ASSUME n + 1 \in 1..N PROVE \E i \in 1..(n + 1) : First(i, n + 1)
    OBVIOUS
  <2>1. CASE n = 0
    <3>1. First(1, 1)
      BY <2>1
    <3> QED
      BY <2>1, <3>1
  <2>2. CASE n > 0
    <3>1. PICK i \in 1..n : First(i, n)
      BY <1>2, <2>2
    <3>2. key[i] \in Int /\ key[n + 1] \in Int
      BY <3>1
    <3>3. CASE key[n + 1] <= key[i]
      <4>1. First(i, n + 1)
        BY <3>1, <3>3
      <4> QED
        BY <4>1
    <3>4. CASE key[n + 1] > key[i]
      <4>1. \A j \in 1..n : key[j] <= key[i] /\ key[j] \in Int
        BY <3>1
      <4>2. \A j \in 1..n : key[j] < key[n + 1]
        BY <3>2, <3>4, <4>1
      <4>3. n + 1 - 1 = n /\ \A j \in 1..(n + 1) : j \in 1..n \/ j = n + 1
        OBVIOUS
      <4>4. \A j \in 1..(n + 1) : key[j] <= key[n + 1]
        BY <3>2, <4>1, <4>2, <4>3
      <4>5. First(n + 1, n + 1)
        BY <4>2, <4>3, <4>4
      <4> QED
        BY <4>5
    <3> QED
      BY <3>2, <3>3, <3>4
  <2> QED
    BY <2>1, <2>2
<1>3. Nat \subseteq S
  <2> HIDE DEF S
  <2> QED
    BY <1>1, <1>2, NaturalNumbers
<1>4. \E i \in 1..N : First(i, N)
  <2>1. N \in S
    <3> HIDE DEF S
    <3> QED
      BY <1>3
  <2> QED
    BY <2>1
<1> QED
  BY <1>4 DEF Best
-----------------------------------------------------------------------------
(* A sequence in which each candidate has a place.                         *)
Ranks(f) == f \in [1..N -> Cands] /\ \A c \in Cands : \E i \in 1..N : f[i] = c

(* The scores in ranked order, and the highest of them.                    *)
LEMMA Position ==
  ASSUME composite \in [Cands -> Nat], Ranks(order)
  PROVE  /\ ByPosition \in [1..N -> Nat]
         /\ Best(ByPosition) \in 1..N
         /\ \A c \in Cands : composite[c] <= ByPosition[Best(ByPosition)]
         /\ Highest \in Nat \ {0}
         /\ ByPosition[Best(ByPosition)] \in {0, Highest}
<1>1. ByPosition \in [1..N -> Nat]
  BY DEF ByPosition, Ranks
<1>2. Best(ByPosition) \in 1..N /\ \A j \in 1..N : ByPosition[j] <= ByPosition[Best(ByPosition)]
  <2>1. ByPosition \in [1..N -> Int]
    BY <1>1
  <2> QED
    BY <2>1, BestIs
<1>3. \A c \in Cands : composite[c] <= ByPosition[Best(ByPosition)]
  BY <1>2 DEF Ranks, ByPosition
<1> QED
  BY <1>1, <1>2, <1>3 DEF Highest

(* A candidate with score x is passed over for one with score y, by a      *)
(* policy with weight trust of at most 10 * t and largest share sure.      *)
Pays(t, trust, sure, x, y) == (10 * t - trust) * 10 * (x - y) <= trust * sure * x

(* What is left of Blend and of the facade's own blend.                    *)
Key(t, trust, p) ==
  [i \in 1..N |-> (10 * t - trust) * 10 * ByPosition[i] + trust * p[i] * Highest]

(* The choice of the largest of them pays for the score it gives up.       *)
LEMMA BlendBound ==
  ASSUME composite \in [Cands -> Nat], Ranks(order),
         NEW p \in [1..N -> Shares], NEW t \in Nat \ {0}, NEW trust \in 0..(10 * t),
         NEW c \in Cands
  PROVE  /\ Best(Key(t, trust, p)) \in 1..N
         /\ Sure(p) \in 0..10
         /\ Pays(t, trust, Sure(p), composite[c], composite[order[Best(Key(t, trust, p))]])
<1> USE ScoringAssumption
<1> DEFINE key == Key(t, trust, p)
           b == Best(key)
           m == Best(ByPosition)
           top == ByPosition[m]
<1>1. trust \in Nat
  OBVIOUS
<1>2. \A i \in 1..N : p[i] \in 0..10
  OBVIOUS
<1>3. /\ ByPosition \in [1..N -> Nat] /\ m \in 1..N /\ top \in Nat
      /\ composite[c] <= top /\ composite[c] \in Nat
      /\ Highest \in Nat \ {0} /\ top \in {0, Highest}
  BY Position
<1>4. key \in [1..N -> Int]
  <2>1. ASSUME NEW x \in Nat, NEW q \in 0..10, NEW h \in Nat
        PROVE  (10 * t - trust) * 10 * x + trust * q * h \in Int
    <3>1. (10 * t - trust) * 10 * x \in Int /\ trust * q * h \in Int
      BY <1>1
    <3> QED
      BY <3>1
  <2>2. \A i \in 1..N : ByPosition[i] \in Nat
    BY <1>3
  <2>3. \A i \in 1..N : (10 * t - trust) * 10 * ByPosition[i] + trust * p[i] * Highest \in Int
    BY <1>2, <1>3, <2>1, <2>2
  <2> QED
    BY <2>3 DEF Key
<1>5. b \in 1..N /\ key[m] <= key[b]
  BY <1>3, <1>4, BestIs
<1>6. ByPosition[b] = composite[order[b]] /\ ByPosition[b] \in Nat
  BY <1>3, <1>5 DEF ByPosition
<1> HIDE DEF b, m
<1>7. Sure(p) \in 0..10 /\ p[b] \in 0..Sure(p) /\ p[m] \in 0..10
  <2>1. p \in [1..N -> Int]
    BY <1>2
  <2>2. Best(p) \in 1..N /\ \A i \in 1..N : p[i] <= p[Best(p)]
    BY <2>1, BestIs
  <2> DEFINE j == Best(p)
  <2>3. Sure(p) = p[j]
    BY DEF Sure
  <2> HIDE DEF j, top
  <2>4. j \in 1..N /\ b \in 1..N /\ m \in 1..N /\ p[b] <= p[j]
    BY <1>3, <1>5, <2>2 DEF j
  <2>5. p[j] \in 0..10 /\ p[b] \in 0..10 /\ p[m] \in 0..10
    BY <1>2, <2>4
  <2> QED
    BY <2>3, <2>4, <2>5
<1>8. (10 * t - trust) * 10 * (composite[c] - ByPosition[b]) <= trust * Sure(p) * composite[c]
  <2> DEFINE x == composite[c]
             y == ByPosition[b]
             sure == Sure(p)
             q == p[b]
             r == p[m]
  <2>1. x \in 0..top /\ top \in Nat /\ y \in Nat /\ sure \in 0..10 /\ q \in 0..sure /\ r \in 0..10
    BY <1>3, <1>6, <1>7
  <2>2. CASE top = 0
    <3>1. x = 0
      BY <2>1, <2>2
    <3> HIDE DEF x, y, sure
    <3>2. (10 * t - trust) * 10 \in Nat /\ trust * sure \in Nat
      BY <1>1, <2>1
    <3>3. ((10 * t - trust) * 10) * (0 - y) <= 0 /\ (trust * sure) * 0 = 0
      BY <2>1, <3>2
    <3> QED
      BY <3>1, <3>3 DEF x, y, sure
  <2>3. CASE top = Highest
    <3>1. (10 * t - trust) * 10 * top + trust * r * top
            <= (10 * t - trust) * 10 * y + trust * q * top
      BY <1>3, <1>5, <2>3 DEF Key
    <3> HIDE DEF x, y, sure, q, r, top
    <3>2. (10 * t - trust) * 10 * (x - y) <= trust * sure * x
      BY <2>1, <3>1, WeightBound
    <3> QED
      BY <3>2 DEF x, y, sure
  <2> QED
    BY <1>3, <2>2, <2>3
<1> QED
  BY <1>5, <1>6, <1>7, <1>8 DEF b, Pays
-----------------------------------------------------------------------------
(* Orders a sort is done by: a strict order in which "neither above the    *)
(* other" is transitive.                                                   *)
Order(above, S) ==
  /\ \A a, b \in S : <<a, b>> \in above => <<b, a>> \notin above
  /\ \A a, b, c \in S : <<a, b>> \in above => <<a, c>> \in above \/ <<c, b>> \in above

(* Element j of s comes before element i in the sorted sequence.           *)
Ahead(s, above, j, i) ==
  \/ <<s[j], s[i]>> \in above
  \/ <<s[i], s[j]>> \notin above /\ j < i

AheadOf(s, above, i) == {j \in DOMAIN s : Ahead(s, above, j, i)}

(* Ahead is a strict total order of the places.                            *)
LEMMA AheadIsOrder ==
  ASSUME NEW n \in Nat, NEW S, NEW s \in [1..n -> S], NEW above, Order(above, S)
  PROVE  /\ \A i \in 1..n : ~Ahead(s, above, i, i)
         /\ \A i, j \in 1..n : i # j => Ahead(s, above, i, j) \/ Ahead(s, above, j, i)
         /\ \A i, j, k \in 1..n :
              Ahead(s, above, i, j) /\ Ahead(s, above, j, k) => Ahead(s, above, i, k)
<1>1. \A i \in 1..n : s[i] \in S
  OBVIOUS
<1>2. ASSUME NEW i \in 1..n PROVE ~Ahead(s, above, i, i)
  BY <1>1 DEF Ahead, Order
<1>3. ASSUME NEW i \in 1..n, NEW j \in 1..n, i # j
      PROVE  Ahead(s, above, i, j) \/ Ahead(s, above, j, i)
  BY <1>1, <1>3 DEF Ahead, Order
<1>4. ASSUME NEW i \in 1..n, NEW j \in 1..n, NEW k \in 1..n,
             Ahead(s, above, i, j), Ahead(s, above, j, k)
      PROVE  Ahead(s, above, i, k)
  <2> DEFINE a == s[i]
             b == s[j]
             c == s[k]
  <2>1. a \in S /\ b \in S /\ c \in S
    BY <1>1
  <2>2. <<a, b>> \in above \/ (<<b, a>> \notin above /\ i < j)
    BY <1>4 DEF Ahead
  <2>3. <<b, c>> \in above \/ (<<c, b>> \notin above /\ j < k)
    BY <1>4 DEF Ahead
  <2> HIDE DEF a, b, c
  <2>4. <<a, c>> \in above \/ (<<c, a>> \notin above /\ i < k)
    BY <2>1, <2>2, <2>3 DEF Order
  <2> QED
    BY <2>4 DEF Ahead, a, b, c
<1> QED
  BY <1>2, <1>3, <1>4

(* How many come before an element.                                        *)
LEMMA Ranking ==
  ASSUME NEW n \in Nat, NEW S, NEW s \in [1..n -> S], NEW above, Order(above, S)
  PROVE  /\ \A i \in 1..n : Cardinality(AheadOf(s, above, i)) \in 0..(n - 1)
         /\ \A i, k \in 1..n : Ahead(s, above, i, k) =>
              Cardinality(AheadOf(s, above, i)) < Cardinality(AheadOf(s, above, k))
<1> DEFINE A(i) == AheadOf(s, above, i)
<1>0. DOMAIN s = 1..n
  OBVIOUS
<1>1. IsFiniteSet(1..n) /\ Cardinality(1..n) = n
  BY FS_Interval
<1>2. ASSUME NEW i \in 1..n PROVE IsFiniteSet(A(i)) /\ Cardinality(A(i)) \in 0..(n - 1)
  <2>1. A(i) \subseteq (1..n) \ {i}
    BY <1>0, AheadIsOrder DEF AheadOf
  <2>2. IsFiniteSet((1..n) \ {i}) /\ Cardinality((1..n) \ {i}) = n - 1
    BY <1>1, FS_RemoveElement
  <2> HIDE DEF A
  <2>3. IsFiniteSet(A(i)) /\ Cardinality(A(i)) <= n - 1
    BY <2>1, <2>2, FS_Subset
  <2>4. Cardinality(A(i)) \in Nat
    BY <2>3, FS_CardinalityType
  <2> QED
    BY <2>3, <2>4
<1>3. ASSUME NEW i \in 1..n, NEW k \in 1..n, Ahead(s, above, i, k)
      PROVE  Cardinality(A(i)) < Cardinality(A(k))
  <2>1. A(i) \subseteq A(k)
    BY <1>0, <1>3, AheadIsOrder DEF AheadOf
  <2>2. i \in A(k) /\ i \notin A(i)
    BY <1>0, <1>3, AheadIsOrder DEF AheadOf
  <2> HIDE DEF A
  <2>3. Cardinality(A(i)) <= Cardinality(A(k)) /\ Cardinality(A(i)) # Cardinality(A(k))
    BY <1>2, <2>1, <2>2, FS_Subset
  <2>4. Cardinality(A(i)) \in Int /\ Cardinality(A(k)) \in Int
    BY <1>2
  <2> QED
    BY <2>3, <2>4
<1> QED
  BY <1>2, <1>3

(* No two elements have as many before them, so every place is taken.      *)
LEMMA PlaceTaken ==
  ASSUME NEW n \in Nat, NEW S, NEW s \in [1..n -> S], NEW above, Order(above, S),
         NEW p \in 1..n
  PROVE  \E i \in 1..n : Cardinality(AheadOf(s, above, i)) = p - 1
<1> DEFINE r == [i \in 1..n |-> Cardinality(AheadOf(s, above, i)) + 1]
<1>1. IsFiniteSet(1..n)
  BY FS_Interval
<1>2. \A i \in 1..n : Cardinality(AheadOf(s, above, i)) \in 0..(n - 1)
  BY Ranking
<1>3. ASSUME NEW i \in 1..n, NEW k \in 1..n, i # k
      PROVE  Cardinality(AheadOf(s, above, i)) # Cardinality(AheadOf(s, above, k))
  <2>1. Ahead(s, above, i, k) \/ Ahead(s, above, k, i)
    BY <1>3, AheadIsOrder
  <2> QED
    BY <1>2, <2>1, Ranking
<1>4. r \in Injection(1..n, 1..n)
  <2>1. r \in [1..n -> 1..n]
    BY <1>2
  <2>2. \A i, k \in 1..n : r[i] = r[k] => i = k
    BY <1>2, <1>3
  <2> HIDE DEF r
  <2> QED
    BY <2>1, <2>2 DEF Injection, IsInjective
<1>5. r \in Surjection(1..n, 1..n)
  <2> HIDE DEF r
  <2> QED
    BY <1>1, <1>4, FS_Injection
<1>6. PICK i \in 1..n : r[i] = p
  BY <1>5 DEF Surjection
<1>7. Cardinality(AheadOf(s, above, i)) \in Int /\ Cardinality(AheadOf(s, above, i)) + 1 = p
  BY <1>2, <1>6
<1> QED
  BY <1>7

(* StableSort takes each element to its place.                             *)
LEMMA Sorting ==
  ASSUME NEW n \in Nat, NEW S, NEW s \in [1..n -> S], NEW above, Order(above, S)
  PROVE  \E f \in [1..n -> 1..n] :
           /\ StableSort(s, above) = [p \in 1..n |-> s[f[p]]]
           /\ \A i \in 1..n : f[Cardinality(AheadOf(s, above, i)) + 1] = i
           /\ \A p, q \in 1..n : p < q => Ahead(s, above, f[p], f[q])
<1> DEFINE rank(i) == Cardinality(AheadOf(s, above, i))
           f == [p \in 1..n |-> CHOOSE i \in 1..n : rank(i) = p - 1]
<1>0. DOMAIN s = 1..n
  OBVIOUS
<1>1. /\ \A i \in 1..n : rank(i) \in 0..(n - 1)
      /\ \A i, k \in 1..n : Ahead(s, above, i, k) => rank(i) < rank(k)
      /\ \A p \in 1..n : \E i \in 1..n : rank(i) = p - 1
  <2>1. \A i \in 1..n : rank(i) \in 0..(n - 1)
    BY Ranking
  <2>2. \A i, k \in 1..n : Ahead(s, above, i, k) => rank(i) < rank(k)
    BY Ranking
  <2>3. \A p \in 1..n : \E i \in 1..n : rank(i) = p - 1
    BY PlaceTaken
  <2> QED
    BY <2>1, <2>2, <2>3
<1>2. StableSort(s, above) = [p \in 1..n |-> s[f[p]]]
  BY <1>0 DEF StableSort, AheadOf, Ahead
<1> HIDE DEF rank
<1>3. \A p \in 1..n : f[p] \in 1..n /\ rank(f[p]) = p - 1
  <2> TAKE p \in 1..n
  <2>1. \E i \in 1..n : rank(i) = p - 1
    BY <1>1
  <2> QED
    BY <2>1
<1>4. f \in [1..n -> 1..n]
  BY <1>3
<1> HIDE DEF f
<1>5. ASSUME NEW i \in 1..n PROVE f[rank(i) + 1] = i
  <2>1. rank(i) + 1 \in 1..n /\ rank(i) \in Int
    BY <1>1
  <2>2. f[rank(i) + 1] \in 1..n /\ rank(f[rank(i) + 1]) = rank(i)
    BY <1>3, <2>1
  <2>3. ASSUME NEW k \in 1..n, k # i PROVE rank(k) # rank(i)
    <3>1. Ahead(s, above, i, k) \/ Ahead(s, above, k, i)
      BY <2>3, AheadIsOrder
    <3>2. rank(i) < rank(k) \/ rank(k) < rank(i)
      BY <1>1, <3>1
    <3>3. rank(i) \in Int /\ rank(k) \in Int
      BY <1>1
    <3> QED
      BY <3>2, <3>3
  <2> QED
    BY <2>2, <2>3
<1>6. ASSUME NEW p \in 1..n, NEW q \in 1..n, p < q PROVE Ahead(s, above, f[p], f[q])
  <2>1. /\ f[p] \in 1..n /\ f[q] \in 1..n
        /\ rank(f[p]) = p - 1 /\ rank(f[q]) = q - 1
    BY <1>3
  <2>2. f[p] # f[q] /\ ~(rank(f[q]) < rank(f[p]))
    BY <1>6, <2>1
  <2> QED
    BY <1>1, <2>1, <2>2, AheadIsOrder
<1> QED
  BY <1>2, <1>4, <1>5, <1>6 DEF rank

(* Sorting loses nothing, and leaves no pair in the wrong order.           *)
LEMMA SortFinds ==
  ASSUME NEW n \in Nat, NEW S, NEW s \in [1..n -> S], NEW above, Order(above, S),
         NEW i \in 1..n
  PROVE  s[i] \in {StableSort(s, above)[p] : p \in 1..n}
<1>1. PICK f \in [1..n -> 1..n] :
        /\ StableSort(s, above) = [p \in 1..n |-> s[f[p]]]
        /\ f[Cardinality(AheadOf(s, above, i)) + 1] = i
  BY Sorting
<1>2. \A r \in 0..(n - 1) : r + 1 \in 1..n
  OBVIOUS
<1>3. Cardinality(AheadOf(s, above, i)) \in 0..(n - 1)
  BY Ranking
<1>4. Cardinality(AheadOf(s, above, i)) + 1 \in 1..n
  BY <1>2, <1>3, Zenon
<1> QED
  BY <1>1, <1>4

(* A sorted sequence has its elements in the order of above.               *)
LEMMA SortKeeps ==
  ASSUME NEW n \in Nat, NEW S, NEW s \in [1..n -> S], NEW above, Order(above, S)
  PROVE  /\ StableSort(s, above) \in [1..n -> S]
         /\ \A p, q \in 1..n : p < q =>
              <<StableSort(s, above)[q], StableSort(s, above)[p]>> \notin above
<1>1. PICK f \in [1..n -> 1..n] :
        /\ StableSort(s, above) = [p \in 1..n |-> s[f[p]]]
        /\ \A i \in 1..n : f[Cardinality(AheadOf(s, above, i)) + 1] = i
        /\ \A p, q \in 1..n : p < q => Ahead(s, above, f[p], f[q])
  BY Sorting
<1>4. ASSUME NEW p \in 1..n, NEW q \in 1..n, p < q
      PROVE  <<StableSort(s, above)[q], StableSort(s, above)[p]>> \notin above
  <2>1. s[f[p]] \in S /\ s[f[q]] \in S /\ Ahead(s, above, f[p], f[q])
    BY <1>1, <1>4
  <2>2. <<s[f[q]], s[f[p]]>> \notin above
    BY <2>1 DEF Ahead, Order
  <2> QED
    BY <1>1, <2>2
<1>5. StableSort(s, above) \in [1..n -> S]
  BY <1>1
<1> QED
  BY <1>4, <1>5

(* Sorting a sorted sequence changes nothing: the sort is stable.          *)
LEMMA SortOfSorted ==
  ASSUME NEW n \in Nat, NEW S, NEW s \in [1..n -> S], NEW above, Order(above, S),
         \A i, j \in 1..n : i < j => <<s[j], s[i]>> \notin above
  PROVE  StableSort(s, above) = s
<1>1. PICK f \in [1..n -> 1..n] :
        /\ StableSort(s, above) = [p \in 1..n |-> s[f[p]]]
        /\ \A i \in 1..n : f[Cardinality(AheadOf(s, above, i)) + 1] = i
  BY Sorting
<1>2. ASSUME NEW i \in 1..n PROVE f[i] = i
  <2>1. AheadOf(s, above, i) = 1..(i - 1)
    <3>1. \A j \in 1..n : Ahead(s, above, j, i) <=> j < i
      BY DEF Ahead, Order
    <3>2. DOMAIN s = 1..n
      OBVIOUS
    <3> QED
      BY <3>1, <3>2 DEF AheadOf
  <2>2. Cardinality(1..(i - 1)) = i - 1
    BY FS_Interval
  <2>3. i - 1 + 1 = i
    OBVIOUS
  <2> QED
    BY <1>1, <2>1, <2>2, <2>3
<1>3. [p \in 1..n |-> s[f[p]]] = s
  BY <1>2
<1> QED
  BY <1>1, <1>3

(* An element above all the others comes first.                            *)
LEMMA SortFirst ==
  ASSUME NEW n \in Nat, NEW S, NEW s \in [1..n -> S], NEW above, Order(above, S),
         NEW i \in 1..n, \A j \in 1..n : j # i => <<s[i], s[j]>> \in above
  PROVE  StableSort(s, above)[1] = s[i]
<1>1. PICK f \in [1..n -> 1..n] :
        /\ StableSort(s, above) = [p \in 1..n |-> s[f[p]]]
        /\ f[Cardinality(AheadOf(s, above, i)) + 1] = i
  BY Sorting
<1>2. AheadOf(s, above, i) = {}
  <2> SUFFICES ASSUME NEW j \in 1..n, Ahead(s, above, j, i) PROVE FALSE
    BY DEF AheadOf
  <2>1. s[i] \in S /\ s[j] \in S
    OBVIOUS
  <2>2. <<s[j], s[i]>> \in above => <<s[i], s[j]>> \notin above
    BY <2>1 DEF Order
  <2>3. CASE j = i
    BY <2>2, <2>3 DEF Ahead
  <2>4. CASE j # i
    <3>1. <<s[i], s[j]>> \in above
      BY <2>4
    <3> QED
      BY <2>2, <3>1 DEF Ahead
  <2> QED
    BY <2>3, <2>4
<1>3. f[1] = i
  BY <1>1, <1>2, FS_EmptySet
<1> QED
  BY <1>1, <1>3
-----------------------------------------------------------------------------
(* A ranking names nobody twice: it has as many places as candidates.      *)
LEMMA RanksDiffer ==
  ASSUME NEW f, Ranks(f)
  PROVE  \A i, j \in 1..N : f[i] = f[j] => i = j
<1>1. N \in Nat /\ N >= 2
  BY ScoringAssumption
<1>2. IsFiniteSet(1..N) /\ Cardinality(1..N) = N /\ Cardinality(Cands) = N
  BY <1>1, FS_Interval DEF Cands
<1>3. f \in Surjection(1..N, Cands)
  BY DEF Ranks, Surjection
<1>4. f \in Injection(1..N, Cands)
  BY <1>2, <1>3, FS_SurjSameCardinalityImpliesInj
<1> QED
  BY <1>4 DEF Injection, IsInjective

ScoreOrder(score) == {p \in Cands \X Cands : score[p[1]] > score[p[2]]}

(* The order of scores is one to sort by.                                  *)
LEMMA ScoreOrderIsOrder ==
  ASSUME NEW score \in [Cands -> Nat]
  PROVE  Order(ScoreOrder(score), Cands)
<1>1. \A a, b \in Cands : <<a, b>> \in ScoreOrder(score) <=> score[a] > score[b]
  BY DEF ScoreOrder
<1>2. \A a \in Cands : score[a] \in Nat
  OBVIOUS
<1> QED
  BY <1>1, <1>2 DEF Order

(* Sorting loses no candidate.                                             *)
LEMMA Finds ==
  ASSUME NEW k \in Nat, NEW g \in [1..k -> Cands], NEW above, Order(above, Cands),
         NEW i \in 1..k
  PROVE  g[i] \in {StableSort(g, above)[p] : p \in 1..k}
BY SortFinds

(* The candidates in the order of their scores.                            *)
LEMMA ByCompositeRanks ==
  ASSUME NEW score \in [Cands -> Nat]
  PROVE  /\ Ranks(ByComposite(score))
         /\ \A i, j \in 1..N : i < j =>
              <<ByComposite(score)[j], ByComposite(score)[i]>> \notin ScoreOrder(score)
<1> DEFINE sorted == StableSort(AsGiven, ScoreOrder(score))
<1>1. N \in Nat
  BY ScoringAssumption
<1>2. AsGiven \in [1..N -> Cands]
  BY <1>1 DEF AsGiven, Cands
<1>3. /\ sorted \in [1..N -> Cands]
      /\ \A i \in 1..N : \E p \in 1..N : sorted[p] = AsGiven[i]
      /\ \A p, q \in 1..N : p < q => <<sorted[q], sorted[p]>> \notin ScoreOrder(score)
  <2> HIDE DEF sorted
  <2>1. Order(ScoreOrder(score), Cands)
    BY ScoreOrderIsOrder
  <2>2. sorted \in [1..N -> Cands]
    BY <1>1, <1>2, <2>1, SortKeeps DEF sorted
  <2>3. \A i \in 1..N : \E p \in 1..N : sorted[p] = AsGiven[i]
    <3> SUFFICES ASSUME NEW i \in 1..N PROVE AsGiven[i] \in {sorted[p] : p \in 1..N}
      OBVIOUS
    <3> QED
      BY <1>1, <1>2, <2>1, Finds DEF sorted
  <2>4. \A p, q \in 1..N : p < q => <<sorted[q], sorted[p]>> \notin ScoreOrder(score)
    BY <1>1, <1>2, <2>1, SortKeeps DEF sorted
  <2> QED
    BY <2>2, <2>3, <2>4
<1>4. ByComposite(score) = sorted
  BY DEF ByComposite, ScoreOrder
<1> HIDE DEF sorted
<1>5. \A c \in Cands : \E i \in 1..N : sorted[i] = c
  <2>1. \A c \in Cands : c + 1 \in 1..N /\ AsGiven[c + 1] = c
    BY <1>1 DEF AsGiven, Cands
  <2> QED
    BY <1>3, <2>1
<1> QED
  BY <1>3, <1>4, <1>5 DEF Ranks
-----------------------------------------------------------------------------
(* The parts of Merged, one definition each.                               *)
Winners(all)   == [p \in Pairs |-> Winner(order[p[1]], order[p[2]], all[p])]
WonBy(all, c)  == {p \in Pairs : Winners(all)[p] = c}
Wins(all)      == [c \in Cands |-> Cardinality(WonBy(all, c))]
WinOrder(all)  == {p \in Cands \X Cands :
                     \/ Wins(all)[p[1]] > Wins(all)[p[2]]
                     \/ /\ Wins(all)[p[1]] = Wins(all)[p[2]]
                        /\ composite[p[1]] > composite[p[2]]}
Top  == SubSeq(order, 1, topK)
Rest == SubSeq(order, topK + 1, N)

(* Pairs can be counted.                                                   *)
LEMMA PairsFinite ==
  ASSUME topK \in 2..N
  PROVE  \A S : S \subseteq Pairs => IsFiniteSet(S) /\ Cardinality(S) \in Nat
<1>1. topK \in Int
  BY ScoringAssumption
<1>2. IsFiniteSet(1..topK)
  BY <1>1, FS_Interval
<1>3. IsFiniteSet((1..topK) \X (1..topK))
  BY <1>2, FS_Product
<1>4. IsFiniteSet(Pairs)
  BY <1>3, FS_Subset DEF Pairs
<1> QED
  BY <1>4, FS_Subset, FS_CardinalityType

(* Wins, then scores: an order to sort by.                                 *)
LEMMA WinOrderIsOrder ==
  ASSUME NEW all, topK \in 2..N, composite \in [Cands -> Nat]
  PROVE  /\ Wins(all) \in [Cands -> Nat]
         /\ Order(WinOrder(all), Cands)
<1>1. Wins(all) \in [Cands -> Nat]
  BY PairsFinite DEF Wins, WonBy
<1>2. \A a, b \in Cands : <<a, b>> \in WinOrder(all) <=>
         \/ Wins(all)[a] > Wins(all)[b]
         \/ Wins(all)[a] = Wins(all)[b] /\ composite[a] > composite[b]
  BY DEF WinOrder
<1>3. \A a \in Cands : Wins(all)[a] \in Nat /\ composite[a] \in Nat
  BY <1>1
<1>4. Order(WinOrder(all), Cands)
  BY <1>2, <1>3 DEF Order
<1> QED
  BY <1>1, <1>4

(* Top is a sequence of the first topK candidates.                         *)
LEMMA TopIs ==
  ASSUME Ranks(order), topK \in 2..N
  PROVE  /\ Top \in [1..topK -> Cands]
         /\ \A i \in 1..topK : Top[i] = order[i]
         /\ topK \in Nat /\ N \in Nat
<1>1. N \in Nat /\ topK \in Nat /\ topK <= N
  BY ScoringAssumption
<1>2. order \in [1..N -> Cands]
  BY DEF Ranks
<1>3. order \in Seq(Cands) /\ Len(order) = N
  BY <1>1, <1>2
<1>4. /\ Top \in Seq(Cands) /\ Len(Top) = topK
      /\ \A i \in 1..topK : Top[i] = order[i]
  BY <1>1, <1>3 DEF Top
<1>5. Top \in [1..topK -> Cands]
  BY <1>4
<1> QED
  BY <1>1, <1>4, <1>5

(* Merged is the sorted top and then the rest.                             *)
LEMMA MergedIs ==
  ASSUME NEW all, Ranks(order), topK \in 2..N
  PROVE  /\ StableSort(Top, WinOrder(all)) \in [1..topK -> Cands] =>
              /\ Merged(all) \in [1..N -> Cands]
              /\ \A i \in 1..topK : Merged(all)[i] = StableSort(Top, WinOrder(all))[i]
              /\ \A i \in (topK + 1)..N : Merged(all)[i] = order[i]
<1> DEFINE sorted == StableSort(Top, WinOrder(all))
<1> SUFFICES ASSUME sorted \in [1..topK -> Cands]
             PROVE  /\ Merged(all) \in [1..N -> Cands]
                    /\ \A i \in 1..topK : Merged(all)[i] = sorted[i]
                    /\ \A i \in (topK + 1)..N : Merged(all)[i] = order[i]
  OBVIOUS
<1>1. N \in Nat /\ topK \in Nat /\ topK <= N
  BY ScoringAssumption
<1>2. Merged(all) = sorted \o Rest
  BY DEF Merged, Winners, WonBy, Wins, WinOrder, Top, Rest
<1> HIDE DEF sorted
<1>3. sorted \in Seq(Cands) /\ Len(sorted) = topK
  BY <1>1
<1>4. order \in Seq(Cands) /\ Len(order) = N
  BY <1>1 DEF Ranks
<1>5. /\ Rest \in Seq(Cands) /\ Len(Rest) = N - topK
      /\ \A i \in 1..(N - topK) : Rest[i] = order[topK + i]
  BY <1>1, <1>4 DEF Rest
<1>6. /\ sorted \o Rest \in Seq(Cands) /\ Len(sorted \o Rest) = N
      /\ \A i \in 1..topK : (sorted \o Rest)[i] = sorted[i]
      /\ \A i \in (topK + 1)..N : (sorted \o Rest)[i] = Rest[i - topK]
  BY <1>1, <1>3, <1>5
<1>7. \A i \in (topK + 1)..N : Rest[i - topK] = order[i]
  BY <1>1, <1>5
<1>8. sorted \o Rest \in [1..N -> Cands]
  <2> DEFINE m == sorted \o Rest
  <2> HIDE DEF m
  <2>1. m \in Seq(Cands) /\ Len(m) = N
    BY <1>6 DEF m
  <2>2. m \in [1..N -> Cands]
    BY <2>1
  <2> QED
    BY <2>2 DEF m
<1>9. \A i \in 1..topK : (sorted \o Rest)[i] = sorted[i]
  BY <1>6
<1>10. \A i \in (topK + 1)..N : (sorted \o Rest)[i] = order[i]
  BY <1>6, <1>7
<1> QED
  BY <1>2, <1>8, <1>9, <1>10
-----------------------------------------------------------------------------
(* What a comparison phase starts from.                                    *)
Ready(all) ==
  /\ topK \in 2..N
  /\ composite \in [Cands -> Nat]
  /\ order = ByComposite(composite)
  /\ all \in [Pairs -> Said \cup {None}]

(* Before the comparisons the candidates are ranked by score.              *)
LEMMA ReadyRanks ==
  ASSUME NEW all, Ready(all)
  PROVE  /\ N \in Nat /\ topK \in Nat /\ topK <= N
         /\ Ranks(order)
         /\ \A i, j \in 1..N : i < j => ~(composite[order[j]] > composite[order[i]])
<1>1. N \in Nat /\ topK \in Nat /\ topK <= N
  BY ScoringAssumption DEF Ready
<1>2. Ranks(order)
  BY ByCompositeRanks DEF Ready
<1>3. \A i, j \in 1..N : i < j => <<order[j], order[i]>> \notin ScoreOrder(composite)
  BY ByCompositeRanks DEF Ready
<1>4. \A i \in 1..N : order[i] \in Cands
  BY <1>2 DEF Ranks
<1>5. \A i, j \in 1..N : i < j => ~(composite[order[j]] > composite[order[i]])
  BY <1>3, <1>4 DEF ScoreOrder
<1> QED
  BY <1>1, <1>2, <1>5

(* The sorted top is a rearrangement of the top.                           *)
LEMMA TopFinds ==
  ASSUME NEW all, NEW i \in 1..topK, topK \in Nat, Top \in [1..topK -> Cands],
         Order(WinOrder(all), Cands)
  PROVE  Top[i] \in {StableSort(Top, WinOrder(all))[p] : p \in 1..topK}
BY Finds, Zenon

(* Merged is a ranking that leaves the rest where it was.                  *)
LEMMA MergedRanks ==
  ASSUME NEW all, Ready(all)
  PROVE  /\ Ranks(Merged(all))
         /\ \A i \in 1..topK : Merged(all)[i] = StableSort(Top, WinOrder(all))[i]
         /\ \A i \in (topK + 1)..N : Merged(all)[i] = order[i]
<1> DEFINE sorted == StableSort(Top, WinOrder(all))
           merged == Merged(all)
<1>1. N \in Nat /\ topK \in Nat /\ topK <= N /\ Ranks(order) /\ topK \in 2..N
  BY ReadyRanks DEF Ready
<1>2. Top \in [1..topK -> Cands] /\ \A i \in 1..topK : Top[i] = order[i]
  BY <1>1, TopIs
<1>3. Order(WinOrder(all), Cands)
  BY WinOrderIsOrder DEF Ready
<1>4. sorted \in [1..topK -> Cands]
  BY <1>1, <1>2, <1>3, SortKeeps
<1>5. /\ merged \in [1..N -> Cands]
      /\ \A i \in 1..topK : merged[i] = sorted[i]
      /\ \A i \in (topK + 1)..N : merged[i] = order[i]
  BY <1>1, <1>4, MergedIs
<1>6. \A i \in 1..topK : Top[i] \in {sorted[p] : p \in 1..topK}
  BY <1>1, <1>2, <1>3, TopFinds
<1> HIDE DEF sorted, merged
<1>7. ASSUME NEW c \in Cands PROVE \E i \in 1..N : merged[i] = c
  <2>1. PICK i \in 1..N : order[i] = c
    BY <1>1 DEF Ranks
  <2>2. ASSUME i <= topK PROVE \E j \in 1..N : merged[j] = c
    <3>1. i \in 1..topK
      BY <1>1, <2>2
    <3>2. PICK p \in 1..topK : sorted[p] = order[i]
      BY <1>2, <1>6, <3>1
    <3>3. p \in 1..N
      BY <1>1
    <3> QED
      BY <1>5, <2>1, <3>2, <3>3
  <2>3. ASSUME i > topK PROVE \E j \in 1..N : merged[j] = c
    <3>1. i \in (topK + 1)..N
      BY <1>1, <2>3
    <3> QED
      BY <1>5, <2>1, <3>1
  <2> QED
    BY <1>1, <2>2, <2>3
<1> QED
  BY <1>5, <1>7 DEF Ranks, sorted, merged
-----------------------------------------------------------------------------
(* Two ranked positions never hold the same candidate, and None is none.   *)
LEMMA PairDiffers ==
  ASSUME Ranks(order), topK \in 2..N, NEW p \in Pairs
  PROVE  /\ p[1] \in 1..topK /\ p[2] \in 1..topK /\ p[1] < p[2]
         /\ order[p[1]] \in Cands /\ order[p[2]] \in Cands
         /\ order[p[1]] # order[p[2]]
<1>1. p[1] \in 1..topK /\ p[2] \in 1..topK /\ p[1] < p[2]
  BY DEF Pairs
<1>2. p[1] \in 1..N /\ p[2] \in 1..N /\ p[1] # p[2]
  BY <1>1, ScoringAssumption
<1>3. order[p[1]] # order[p[2]]
  BY <1>2, RanksDiffer
<1>4. order[p[1]] \in Cands /\ order[p[2]] \in Cands
  BY <1>2 DEF Ranks
<1> QED
  BY <1>1, <1>3, <1>4

(* A judge that goes by position gives nobody a win.                       *)
LEMMA BiasGivesNoWins ==
  ASSUME NEW all, Ready(all),
         \A p \in Pairs : all[p] # None => all[p].forward = all[p].reversed
  PROVE  \A c \in Cands : Wins(all)[c] = 0
<1>1. Ranks(order) /\ topK \in 2..N
  BY ReadyRanks DEF Ready
<1>2. None \notin Cands
  BY ScoringAssumption DEF Cands
<1>3. ASSUME NEW p \in Pairs PROVE Winner(order[p[1]], order[p[2]], all[p]) = None
  <2>1. order[p[1]] # order[p[2]]
    BY <1>1, PairDiffers
  <2>2. all[p] = None \/ (all[p] \in Said /\ all[p].forward = all[p].reversed)
    BY DEF Ready
  <2> QED
    BY <2>1, <2>2 DEF Winner, Said
<1>4. ASSUME NEW c \in Cands PROVE WonBy(all, c) = {}
  BY <1>2, <1>3 DEF WonBy, Winners
<1> QED
  BY <1>4, FS_EmptySet DEF Wins

(* Without wins the top is sorted by the scores it is sorted by already.   *)
LEMMA BiasSettlesNothing ==
  ASSUME NEW all, Ready(all),
         \A p \in Pairs : all[p] # None => all[p].forward = all[p].reversed
  PROVE  Merged(all) = order
<1>1. N \in Nat /\ topK \in Nat /\ topK <= N /\ Ranks(order) /\ topK \in 2..N
  BY ReadyRanks DEF Ready
<1>2. Top \in [1..topK -> Cands] /\ \A i \in 1..topK : Top[i] = order[i]
  BY <1>1, TopIs
<1>3. Order(WinOrder(all), Cands)
  BY WinOrderIsOrder DEF Ready
<1>4. ASSUME NEW i \in 1..topK, NEW j \in 1..topK, i < j
      PROVE  <<Top[j], Top[i]>> \notin WinOrder(all)
  <2>1. i \in 1..N /\ j \in 1..N
    BY <1>1
  <2>2. ~(composite[order[j]] > composite[order[i]])
    BY <1>4, <2>1, ReadyRanks
  <2>3. Wins(all)[order[i]] = 0 /\ Wins(all)[order[j]] = 0
    BY <1>1, <2>1, BiasGivesNoWins DEF Ranks
  <2>4. Top[i] = order[i] /\ Top[j] = order[j]
    BY <1>2
  <2> QED
    BY <2>2, <2>3, <2>4 DEF WinOrder
<1>5. StableSort(Top, WinOrder(all)) = Top
  BY <1>1, <1>2, <1>3, <1>4, SortOfSorted
<1>6. /\ Merged(all) \in [1..N -> Cands]
      /\ \A i \in 1..topK : Merged(all)[i] = order[i]
      /\ \A i \in (topK + 1)..N : Merged(all)[i] = order[i]
  <2>1. /\ Ranks(Merged(all))
        /\ \A i \in 1..topK : Merged(all)[i] = StableSort(Top, WinOrder(all))[i]
        /\ \A i \in (topK + 1)..N : Merged(all)[i] = order[i]
    BY MergedRanks
  <2>2. \A i \in 1..topK : Merged(all)[i] = order[i]
    BY <1>2, <1>5, <2>1
  <2> QED
    BY <2>1, <2>2 DEF Ranks
<1>7. \A i \in 1..N : Merged(all)[i] = order[i]
  <2>1. \A i \in 1..N : i \in 1..topK \/ i \in (topK + 1)..N
    BY <1>1
  <2> QED
    BY <1>6, <2>1
<1>8. order \in [1..N -> Cands]
  BY <1>1 DEF Ranks
<1>9. order = [i \in 1..N |-> order[i]] /\ Merged(all) = [i \in 1..N |-> Merged(all)[i]]
  BY <1>6, <1>8
<1> QED
  BY <1>7, <1>9
-----------------------------------------------------------------------------
(* Position i of the top beats every other one in both orders.             *)
Champion(all, i) ==
  \A p \in Pairs :
    /\ p[1] = i => all[p] = [forward |-> "A", reversed |-> "B"]
    /\ p[2] = i => all[p] = [forward |-> "B", reversed |-> "A"]

PairOf(i, k) == IF i < k THEN <<i, k>> ELSE <<k, i>>

(* The pair of two positions, in their order.                              *)
LEMMA PairOfIs ==
  ASSUME NEW i \in 1..topK, NEW k \in 1..topK, i # k, topK \in Nat
  PROVE  /\ PairOf(i, k) \in Pairs
         /\ \/ PairOf(i, k)[1] = i /\ PairOf(i, k)[2] = k
            \/ PairOf(i, k)[1] = k /\ PairOf(i, k)[2] = i
<1>1. CASE i < k
  <2>1. PairOf(i, k) = <<i, k>>
    BY <1>1 DEF PairOf
  <2> QED
    BY <1>1, <2>1 DEF Pairs
<1>2. CASE ~(i < k)
  <2>1. PairOf(i, k) = <<k, i>> /\ k < i
    BY <1>2 DEF PairOf
  <2> QED
    BY <2>1 DEF Pairs
<1> QED
  BY <1>1, <1>2

(* The winner of a pair is one of the two.                                 *)
LEMMA WinnerIsOfPair ==
  ASSUME NEW all, Ranks(order), topK \in 2..N, NEW p \in Pairs, NEW c \in Cands,
         Winner(order[p[1]], order[p[2]], all[p]) = c
  PROVE  c = order[p[1]] \/ c = order[p[2]]
<1>1. None \notin Cands
  BY ScoringAssumption DEF Cands
<1> QED
  BY <1>1 DEF Winner

(* The champion wins all of its pairs.                                     *)
LEMMA ChampionWins ==
  ASSUME NEW all, Ranks(order), topK \in 2..N, NEW i \in 1..topK, Champion(all, i),
         NEW p \in Pairs, p[1] = i \/ p[2] = i
  PROVE  Winner(order[p[1]], order[p[2]], all[p]) = order[i]
<1>1. CASE p[1] = i
  <2>1. all[p] = [forward |-> "A", reversed |-> "B"]
    BY <1>1 DEF Champion
  <2>2. all[p] # None
    BY <2>1, NoneIsNoReply DEF Said
  <2> QED
    BY <1>1, <2>1, <2>2 DEF Winner
<1>2. CASE p[2] = i
  <2>1. all[p] = [forward |-> "B", reversed |-> "A"]
    BY <1>2 DEF Champion
  <2>2. all[p] # None
    BY <2>1, NoneIsNoReply DEF Said
  <2> QED
    BY <1>2, <2>1, <2>2 DEF Winner
<1> QED
  BY <1>1, <1>2

(* So it wins at least topK - 1 pairs, and nobody else wins as many.       *)
LEMMA ChampionHasMost ==
  ASSUME NEW all, Ranks(order), topK \in 2..N, NEW i \in 1..topK, Champion(all, i)
  PROVE  Cardinality(WonBy(all, order[i])) >= topK - 1
<1> DEFINE others == (1..topK) \ {i}
           f == [k \in others |-> PairOf(i, k)]
<1>1. N \in Nat /\ topK \in Nat /\ topK <= N
  BY ScoringAssumption
<1>2. \A k \in others : PairOf(i, k) \in WonBy(all, order[i])
  <2> TAKE k \in others
  <2>1. PairOf(i, k) \in Pairs /\ (PairOf(i, k)[1] = i \/ PairOf(i, k)[2] = i)
    BY <1>1, PairOfIs
  <2>2. Winner(order[PairOf(i, k)[1]], order[PairOf(i, k)[2]], all[PairOf(i, k)]) = order[i]
    BY <2>1, ChampionWins
  <2> QED
    BY <2>1, <2>2 DEF WonBy, Winners
<1>3. \A k, l \in others : PairOf(i, k) = PairOf(i, l) => k = l
  <2> TAKE k, l \in others
  <2> HAVE PairOf(i, k) = PairOf(i, l)
  <2>1. /\ \/ PairOf(i, k)[1] = i /\ PairOf(i, k)[2] = k
           \/ PairOf(i, k)[1] = k /\ PairOf(i, k)[2] = i
        /\ \/ PairOf(i, l)[1] = i /\ PairOf(i, l)[2] = l
           \/ PairOf(i, l)[1] = l /\ PairOf(i, l)[2] = i
    BY <1>1, PairOfIs
  <2> QED
    BY <2>1
<1>4. f \in Injection(others, WonBy(all, order[i]))
  <2>1. f \in [others -> WonBy(all, order[i])] /\ \A k, l \in others : f[k] = f[l] => k = l
    BY <1>2, <1>3
  <2> HIDE DEF f, others
  <2> QED
    BY <2>1 DEF Injection, IsInjective
<1>5. IsFiniteSet(WonBy(all, order[i])) /\ Cardinality(WonBy(all, order[i])) \in Nat
  BY PairsFinite DEF WonBy
<1>6. Cardinality(others) = topK - 1
  <2>1. IsFiniteSet(1..topK) /\ Cardinality(1..topK) = topK
    BY <1>1, FS_Interval
  <2> QED
    BY <2>1, FS_RemoveElement
<1>7. Cardinality(others) <= Cardinality(WonBy(all, order[i]))
  <2> HIDE DEF f, others
  <2> QED
    BY <1>4, <1>5, FS_Injection
<1> QED
  BY <1>1, <1>5, <1>6, <1>7

Other(p, j) == IF p[1] = j THEN p[2] ELSE p[1]

(* Any other position loses its pair with the champion.                    *)
LEMMA OthersHaveFewer ==
  ASSUME NEW all, Ranks(order), topK \in 2..N, NEW i \in 1..topK, Champion(all, i),
         NEW j \in 1..topK, j # i
  PROVE  Cardinality(WonBy(all, order[j])) <= topK - 2
<1> DEFINE rest == ((1..topK) \ {i}) \ {j}
           won  == WonBy(all, order[j])
           f == [p \in won |-> Other(p, j)]
<1>1. N \in Nat /\ topK \in Nat /\ topK <= N /\ i \in 1..N /\ j \in 1..N
  BY ScoringAssumption
<1>2. order[i] # order[j] /\ order[j] \in Cands
  BY <1>1, RanksDiffer DEF Ranks
<1>3. ASSUME NEW p \in won
      PROVE  /\ p \in Pairs /\ p[1] # i /\ p[2] # i
             /\ p[1] = j \/ p[2] = j
  <2>1. p \in Pairs /\ Winner(order[p[1]], order[p[2]], all[p]) = order[j]
    BY DEF WonBy, Winners
  <2>2. p[1] # i /\ p[2] # i
    BY <1>2, <2>1, ChampionWins
  <2>3. order[j] = order[p[1]] \/ order[j] = order[p[2]]
    BY <1>2, <2>1, WinnerIsOfPair
  <2>4. p[1] \in 1..N /\ p[2] \in 1..N
    BY <1>1, <2>1 DEF Pairs
  <2>5. p[1] = j \/ p[2] = j
    BY <1>1, <2>3, <2>4, RanksDiffer
  <2> QED
    BY <2>1, <2>2, <2>5
<1>4. \A p \in won : p \in Pairs /\ p[1] # i /\ p[2] # i /\ (p[1] = j \/ p[2] = j)
  BY <1>3
<1> HIDE DEF won
<1>5. \A p \in won : /\ p = <<p[1], p[2]>> /\ p[1] \in 1..topK /\ p[2] \in 1..topK
                     /\ p[1] < p[2]
  BY <1>4 DEF Pairs
<1>6. \A p \in won : Other(p, j) \in rest
  BY <1>1, <1>4, <1>5 DEF Other
<1>7. \A p, q \in won : Other(p, j) = Other(q, j) => p = q
  <2> TAKE p, q \in won
  <2> HAVE Other(p, j) = Other(q, j)
  <2>1. p[1] = q[1] /\ p[2] = q[2]
    BY <1>1, <1>4, <1>5 DEF Other
  <2> QED
    BY <1>5, <2>1
<1>8. f \in Injection(won, rest)
  <2>1. f \in [won -> rest] /\ \A p, q \in won : f[p] = f[q] => p = q
    BY <1>6, <1>7
  <2> HIDE DEF f, rest
  <2> QED
    BY <2>1 DEF Injection, IsInjective
<1>9. IsFiniteSet(rest) /\ Cardinality(rest) = topK - 2
  <2>1. IsFiniteSet(1..topK) /\ Cardinality(1..topK) = topK
    BY <1>1, FS_Interval
  <2>2. IsFiniteSet((1..topK) \ {i}) /\ Cardinality((1..topK) \ {i}) = topK - 1
    BY <2>1, FS_RemoveElement
  <2>3. j \in (1..topK) \ {i}
    OBVIOUS
  <2>4. IsFiniteSet(rest) /\ Cardinality(rest) = topK - 1 - 1
    BY <2>2, <2>3, FS_RemoveElement
  <2> QED
    BY <1>1, <2>4
<1>10. Cardinality(won) <= Cardinality(rest)
  <2> HIDE DEF f, rest
  <2> QED
    BY <1>8, <1>9, FS_Injection
<1> QED
  BY <1>9, <1>10 DEF won

(* So the champion comes first in the sorted top.                          *)
LEMMA ChampionIsFirst ==
  ASSUME NEW all, Ready(all), NEW i \in 1..topK, Champion(all, i)
  PROVE  Merged(all)[1] = order[i]
<1>1. N \in Nat /\ topK \in Nat /\ topK <= N /\ Ranks(order) /\ topK \in 2..N
  BY ReadyRanks DEF Ready
<1>2. Top \in [1..topK -> Cands] /\ \A k \in 1..topK : Top[k] = order[k]
  BY <1>1, TopIs
<1>3. Order(WinOrder(all), Cands)
  BY WinOrderIsOrder DEF Ready
<1>4. ASSUME NEW j \in 1..topK, j # i PROVE <<Top[i], Top[j]>> \in WinOrder(all)
  <2>1. /\ Cardinality(WonBy(all, order[i])) >= topK - 1
        /\ Cardinality(WonBy(all, order[j])) <= topK - 2
    BY <1>1, <1>4, ChampionHasMost, OthersHaveFewer
  <2>2. order[i] \in Cands /\ order[j] \in Cands
    BY <1>1 DEF Ranks
  <2>3. /\ Cardinality(WonBy(all, order[i])) \in Nat
        /\ Cardinality(WonBy(all, order[j])) \in Nat
    BY <1>1, PairsFinite DEF WonBy
  <2>4. Wins(all)[order[i]] > Wins(all)[order[j]]
    BY <1>1, <2>1, <2>2, <2>3 DEF Wins
  <2> QED
    BY <1>2, <2>2, <2>4 DEF WinOrder
<1>5. StableSort(Top, WinOrder(all))[1] = Top[i]
  BY <1>1, <1>2, <1>3, <1>4, SortFirst
<1>6. 1 \in 1..topK
  BY <1>1
<1> QED
  BY <1>2, <1>5, <1>6, MergedRanks
-----------------------------------------------------------------------------
(* What a request keeps: the scores so far are what the last candidate     *)
(* got, and whoever is ranked is ranked by scores until the comparisons.   *)
ScoringInv ==
  /\ topK \in 2..N
  /\ pc \in {"pointwise", "pairwise", "select", "done"}
  /\ scored \in 0..N
  /\ pc = "pointwise" => scored < N
  /\ composite \in [Cands -> Nat]
  /\ results \in Increasing(Len(results))
  /\ results # <<>> => scored >= 1 /\ composite[scored - 1] = TrimmedMean(results)
  /\ pc # "pointwise" => Ranks(order)
  /\ pc = "pairwise" => order = ByComposite(composite)
  /\ PairwiseIsFair
  /\ ChoiceIsBounded

(* The invariant holds at first.                                           *)
LEMMA Starts == SInit => ScoringInv
<1> SUFFICES ASSUME SInit PROVE ScoringInv
  OBVIOUS
<1> USE DEF SInit
<1>1. N \in Nat /\ N >= 2
  BY ScoringAssumption
<1>2. composite \in [Cands -> Nat]
  OBVIOUS
<1>3. results \in Increasing(Len(results))
  BY DEF Increasing
<1>4. PairwiseIsFair /\ ChoiceIsBounded
  BY DEF PairwiseIsFair, ChoiceIsBounded
<1> QED
  BY <1>1, <1>2, <1>3, <1>4 DEF ScoringInv

(* A candidate gets its score, the last one also its place.                *)
LEMMA PointwiseScoreKeeps ==
  ASSUME ScoringInv, PointwiseScore
  PROVE  ScoringInv'
<1> USE DEF ScoringInv, PointwiseScore
<1>1. N \in Nat /\ scored \in 0..(N - 1) /\ scored \in Cands /\ scored' = scored + 1
  BY ScoringAssumption DEF Cands
<1>2. PICK n \in Nat : results' \in Increasing(n)
  <2>1. ASSUME NEW related \in 0..Judges, NEW n \in 0..(Asked(related) * Samples)
        PROVE  n \in Nat
    BY ScoringAssumption DEF Asked
  <2> QED
    BY <2>1
<1>3. TrimmedMean(results') \in Nat
  BY <1>2, TrimmedMeanBounds
<1>4. composite' \in [Cands -> Nat] /\ composite'[scored' - 1] = TrimmedMean(results')
  BY <1>1, <1>3
<1>5. results' \in Increasing(Len(results'))
  BY <1>2 DEF Increasing
<1>6. CASE scored' < N
  <2>1. pc' = "pointwise" /\ scored' \in 0..N /\ scored' >= 1
    BY <1>1, <1>6
  <2>2. PairwiseIsFair' /\ ChoiceIsBounded'
    BY <2>1 DEF PairwiseIsFair, ChoiceIsBounded
  <2> QED
    BY <1>4, <1>5, <1>6, <2>1, <2>2
<1>7. CASE ~(scored' < N)
  <2>1. pc' = "pairwise" /\ scored' \in 0..N /\ scored' >= 1 /\ order' = ByComposite(composite')
    BY <1>1, <1>7
  <2>2. Ranks(order')
    BY <1>4, <2>1, ByCompositeRanks
  <2>3. PairwiseIsFair' /\ ChoiceIsBounded'
    BY <2>1 DEF PairwiseIsFair, ChoiceIsBounded
  <2>4. ByComposite(composite)' = ByComposite(composite')
    BY DEF ByComposite, AsGiven, Cands
  <2> QED
    BY <1>4, <1>5, <2>1, <2>2, <2>3, <2>4 DEF Ranks
<1> QED
  BY <1>6, <1>7

(* The comparisons settle the order of the top and of nothing else.        *)
LEMMA PairwiseKeeps ==
  ASSUME ScoringInv, Pairwise
  PROVE  ScoringInv'
<1> USE DEF ScoringInv, Pairwise
<1>1. Ready(replies')
  BY DEF Ready
<1>2. order' = Merged(replies') /\ topK' = topK /\ composite' = composite
  OBVIOUS
<1>3. /\ Ranks(order')
      /\ \A i \in (topK + 1)..N : order'[i] = order[i]
  BY <1>1, <1>2, MergedRanks
<1>4. (\A p \in Pairs : replies'[p] # None => replies'[p].forward = replies'[p].reversed)
      => order' = order
  BY <1>1, <1>2, BiasSettlesNothing
<1>5. \A i \in 1..topK : Champion(replies', i) => order'[1] = order[i]
  BY <1>1, <1>2, ChampionIsFirst
<1>6. Pairs' = Pairs
  BY <1>2 DEF Pairs
<1>7. PairwiseIsFair'
  <2>1. ByComposite(composite') = order /\ ByComposite(composite)' = ByComposite(composite')
    BY <1>2 DEF ByComposite, AsGiven, Cands
  <2>2. (\A i \in 1..N : order'[i] \in Cands) /\ \A c \in Cands : \E i \in 1..N : order'[i] = c
    BY <1>3 DEF Ranks
  <2> QED
    BY <1>2, <1>3, <1>4, <1>5, <1>6, <2>1
    DEF PairwiseIsFair, OnlyTopIsReordered, BiasIsIgnored, ChampionLeads, Champion, Ranks
<1>8. ChoiceIsBounded'
  BY DEF ChoiceIsBounded
<1>9. results' \in Increasing(Len(results'))
  BY DEF Increasing
<1> QED
  BY <1>2, <1>3, <1>7, <1>8, <1>9

(* What ChoiceIsBounded asks of a selection.                               *)
LimitOf(who, sure) == IF who = "service" /\ sure < Confidence THEN sure ELSE Confidence

Bounded(who, method, cand, sure) ==
  \A c \in Cands :
    /\ method = "scoring_only" => composite[c] - composite[cand] <= 0
    /\ method = "hybrid" =>
         (10 * Confidence - Weight * LimitOf(who, sure)) * 10 * (composite[c] - composite[cand])
           <= Weight * LimitOf(who, sure) * sure * composite[c]

(* A selection keeps everything, if its choice is within bounds.           *)
LEMMA SelectKeeps ==
  ASSUME ScoringInv, NEW who, NEW method, NEW sure, NEW index \in 1..N,
         Select(who, method, index, sure), Bounded(who, method, order[index], sure)
  PROVE  ScoringInv'
<1> USE DEF ScoringInv, Select
<1>1. Ranks(order')
  BY DEF Ranks
<1>2. PairwiseIsFair'
  BY DEF PairwiseIsFair
<1>3. ChoiceIsBounded'
  BY DEF ChoiceIsBounded, Bounded, LimitOf, Cands
<1>4. results' \in Increasing(Len(results'))
  BY DEF Increasing
<1>5. Ranks(order)' /\ pc' = "done"
  BY <1>1 DEF Ranks
<1> QED
  BY <1>2, <1>3, <1>4, <1>5

(* The best score is no smaller than any.                                  *)
LEMMA ScoringKeeps ==
  ASSUME ScoringInv, pc = "select", NEW who, SelectByScoring(who)
  PROVE  ScoringInv'
<1>1. /\ Best(ByPosition) \in 1..N
      /\ \A c \in Cands : composite[c] <= composite[order[Best(ByPosition)]]
  BY Position DEF ScoringInv, ByPosition
<1>2. order[Best(ByPosition)] \in Cands /\ \A c \in Cands : composite[c] \in Nat
  BY <1>1 DEF ScoringInv, Ranks
<1>3. Bounded(who, "scoring_only", order[Best(ByPosition)], 0)
  BY <1>1, <1>2 DEF Bounded
<1> QED
  BY <1>1, <1>3, SelectKeeps DEF SelectByScoring

(* The internal selector: what it trusts the policy with is Trust(p).      *)
LEMMA HybridKeeps ==
  ASSUME ScoringInv, pc = "select", SelectHybrid
  PROVE  ScoringInv'
<1> USE ScoringAssumption
<1>1. PICK p \in Signals : Select("service", "hybrid", Best(Blend(p)), Sure(p))
  BY DEF SelectHybrid
<1>2. p \in [1..N -> Shares] /\ composite \in [Cands -> Nat] /\ Ranks(order)
  BY DEF Signals, ScoringInv
<1>3. Confidence \in 1..10 /\ Weight \in 0..10
  OBVIOUS
<1>4. Sure(p) \in 0..10
  <2>1. p \in [1..N -> Int]
    <3>1. Shares \subseteq Int
      OBVIOUS
    <3> QED
      BY <1>2, <3>1
  <2>2. p[Best(p)] \in 0..10
    BY <1>2, <2>1, BestIs
  <2> QED
    BY <2>2 DEF Sure
<1>5. Trust(p) = Weight * LimitOf("service", Sure(p)) /\ LimitOf("service", Sure(p)) \in 0..Confidence
  BY <1>3, <1>4 DEF Trust, LimitOf
<1> DEFINE trust == Trust(p)
           key == Blend(p)
<1>6. key = Key(Confidence, trust, p)
  BY DEF Blend, Key
<1> HIDE DEF trust, key
<1>7. trust \in 0..(10 * Confidence)
  <2> DEFINE limit == LimitOf("service", Sure(p))
  <2>1. limit \in 0..Confidence /\ trust = Weight * limit
    BY <1>5 DEF trust
  <2> HIDE DEF limit
  <2>2. limit * Weight <= limit * 10
    BY <1>3, <2>1, SmallerTimes
  <2>3. Weight * limit \in Nat /\ Weight * limit = limit * Weight
    BY <1>3, <2>1
  <2> QED
    BY <1>3, <2>1, <2>2, <2>3
<1>8. ASSUME NEW c \in Cands
      PROVE  /\ Best(key) \in 1..N
             /\ Pays(Confidence, trust, Sure(p), composite[c], composite[order[Best(key)]])
  <2>1. Confidence \in Nat \ {0}
    BY <1>3
  <2> QED
    BY <1>2, <1>6, <1>7, <2>1, BlendBound
<1>9. 0 \in Cands
  BY DEF Cands
<1>10. Select("service", "hybrid", Best(key), Sure(p))
  BY <1>1 DEF key
<1>11. Bounded("service", "hybrid", order[Best(key)], Sure(p))
  BY <1>5, <1>8 DEF Bounded, Pays, trust
<1> QED
  BY <1>8, <1>9, <1>10, <1>11, SelectKeeps

(* The public selector: the same bound, with its own fixed weight.         *)
LEMMA FacadeKeeps ==
  ASSUME ScoringInv, pc = "select", FacadeSelect
  PROVE  ScoringInv'
<1> USE ScoringAssumption
<1> DEFINE fixed(p) == [i \in 1..N |-> (10 - Weight) * 10 * ByPosition[i] + Weight * p[i] * Highest]
<1>1. CASE SelectByScoring("facade")
  BY <1>1, ScoringKeeps
<1>2. ASSUME NEW action \in 0..(Actions - 1),
             Select("facade", "rl_only", IF action < N THEN action + 1 ELSE N, 0)
      PROVE  ScoringInv'
  <2> DEFINE index == IF action < N THEN action + 1 ELSE N
  <2>1. index \in 1..N /\ Select("facade", "rl_only", index, 0)
    BY <1>2
  <2> HIDE DEF index
  <2>2. Bounded("facade", "rl_only", order[index], 0)
    BY DEF Bounded
  <2> QED
    BY <2>1, <2>2, SelectKeeps
<1>3. ASSUME NEW p \in Signals, Select("facade", "hybrid", Best(fixed(p)), Sure(p))
      PROVE  ScoringInv'
  <2> DEFINE key == fixed(p)
  <2>1. p \in [1..N -> Shares] /\ composite \in [Cands -> Nat] /\ Ranks(order)
    BY DEF Signals, ScoringInv
  <2>2. key = Key(1, Weight, p)
    <3>1. 10 * 1 = 10
      OBVIOUS
    <3> QED
      BY <3>1 DEF Key
  <2>3. Weight \in 0..(10 * 1) /\ 1 \in Nat \ {0}
    OBVIOUS
  <2>4. Select("facade", "hybrid", Best(key), Sure(p))
    BY <1>3
  <2> HIDE DEF key
  <2>5. ASSUME NEW c \in Cands
        PROVE  /\ Best(key) \in 1..N /\ Sure(p) \in 0..10
               /\ Pays(1, Weight, Sure(p), composite[c], composite[order[Best(key)]])
    BY <2>1, <2>2, <2>3, BlendBound
  <2>6. 0 \in Cands
    BY DEF Cands
  <2>7. Bounded("facade", "hybrid", order[Best(key)], Sure(p))
    <3> SUFFICES ASSUME NEW c \in Cands
                 PROVE  (10 * Confidence - Weight * Confidence) * 10 * (composite[c] - composite[order[Best(key)]])
                          <= Weight * Confidence * Sure(p) * composite[c]
      BY DEF Bounded, LimitOf
    <3> DEFINE x == composite[c]
               y == composite[order[Best(key)]]
               sure == Sure(p)
    <3>1. x \in Nat /\ y \in Nat /\ sure \in 0..10 /\ (10 - Weight) * 10 * (x - y) <= Weight * sure * x
      BY <2>1, <2>5 DEF Ranks, Pays
    <3> HIDE DEF x, y, sure
    <3>2. Confidence * ((10 - Weight) * 10 * (x - y)) <= Confidence * (Weight * sure * x)
      <4>1. (10 - Weight) * 10 * (x - y) \in Int /\ Weight * sure * x \in Int
        BY <3>1
      <4> QED
        BY <3>1, <4>1, SmallerTimes
    <3>3. Confidence * ((10 - Weight) * 10 * (x - y)) = (10 * Confidence - Weight * Confidence) * 10 * (x - y)
      BY <3>1
    <3>4. Confidence * (Weight * sure * x) = Weight * Confidence * sure * x
      BY <3>1
    <3> QED
      BY <3>2, <3>3, <3>4 DEF x, y, sure
  <2> QED
    BY <2>4, <2>5, <2>6, <2>7, SelectKeeps
<1> QED
  BY <1>1, <1>2, <1>3 DEF FacadeSelect

(* The three modes of the internal selector.                               *)
LEMMA SelectionKeeps ==
  ASSUME ScoringInv, HybridSelect
  PROVE  ScoringInv'
<1>1. pc = "select"
  BY DEF HybridSelect, SelectByScoring, SelectByRL, SelectHybrid, Select
<1>2. ASSUME SelectByRL PROVE ScoringInv'
  <2>1. PICK action \in 0..(Actions - 1) : Select("service", "rl_only", (action % N) + 1, 0)
    BY <1>2 DEF SelectByRL
  <2>2. (action % N) + 1 \in 1..N
    BY ScoringAssumption
  <2>3. Bounded("service", "rl_only", order[(action % N) + 1], 0)
    BY DEF Bounded
  <2> QED
    BY <2>1, <2>2, <2>3, SelectKeeps
<1> QED
  BY <1>1, <1>2, ScoringKeeps, HybridKeeps DEF HybridSelect

(* Every step keeps the invariant.                                         *)
LEMMA StepKeeps ==
  ASSUME ScoringInv, [SNext]_svars
  PROVE  ScoringInv'
<1>1. CASE PointwiseScore
  BY <1>1, PointwiseScoreKeeps
<1>2. CASE Pairwise
  BY <1>2, PairwiseKeeps
<1>3. CASE HybridSelect
  BY <1>3, SelectionKeeps
<1>4. CASE FacadeSelect
  <2>1. pc = "select"
    BY <1>4 DEF FacadeSelect, SelectByScoring, Select
  <2> QED
    BY <1>4, <2>1, FacadeKeeps
<1>5. CASE UNCHANGED svars
  <2> USE <1>5 DEF svars
  <2>1. /\ Ranks(order)' = Ranks(order)
        /\ ByComposite(composite)' = ByComposite(composite)
        /\ PairwiseIsFair' = PairwiseIsFair
        /\ ChoiceIsBounded' = ChoiceIsBounded
    BY DEF Ranks, ByComposite, AsGiven, Cands, PairwiseIsFair, ChoiceIsBounded,
           OnlyTopIsReordered, BiasIsIgnored, ChampionLeads, Pairs
  <2> QED
    BY <2>1 DEF ScoringInv, Increasing
<1> QED
  BY <1>1, <1>2, <1>3, <1>4, <1>5 DEF SNext

(* So it holds throughout.                                                 *)
LEMMA ScoringInvHolds == SSpec => []ScoringInv
BY Starts, StepKeeps, PTL DEF SSpec

(* PairwiseIsFair: the comparisons reorder only the top, a judge that goes *)
(* by position alone changes nothing, and whoever wins all of its          *)
(* comparisons leads - for any number of candidates.                       *)
THEOREM PairwiseFair == SSpec => []PairwiseIsFair
<1>1. ScoringInv => PairwiseIsFair
  BY DEF ScoringInv
<1> QED
  BY <1>1, ScoringInvHolds, PTL

(* ChoiceIsBounded: scoring selects a best candidate, and in hybrid mode   *)
(* the score given up for the policy's favourite is at most what its weight*)
(* and its largest share pay for, whatever the weight and the threshold.   *)
THEOREM ChoiceBounded == SSpec => []ChoiceIsBounded
<1>1. ScoringInv => ChoiceIsBounded
  BY DEF ScoringInv
<1> QED
  BY <1>1, ScoringInvHolds, PTL

(* OutlierIsDropped: of four or more scores, the lowest and the highest    *)
(* cannot carry the mean past the others.                                  *)
THEOREM OutlierDropped == SSpec => []OutlierIsDropped
<1>1. ScoringInv => OutlierIsDropped
  <2> SUFFICES ASSUME ScoringInv, Len(results) >= 4
               PROVE  composite[scored - 1] \in
                        (Scale * results[2])..(Scale * results[Len(results) - 1])
    BY DEF OutlierIsDropped
  <2>1. results \in Increasing(Len(results)) /\ Len(results) \in Nat
    BY DEF ScoringInv, Increasing
  <2>2. results # <<>> /\ composite[scored - 1] = TrimmedMean(results)
    BY DEF ScoringInv
  <2> QED
    BY <2>1, <2>2, TrimmedMeanBounds
<1> QED
  BY <1>1, ScoringInvHolds, PTL
-----------------------------------------------------------------------------
(* Some term of a sequence is the least.                                   *)
LEMMA SomeLeast ==
  ASSUME NEW n \in Nat \ {0}, NEW f \in [1..n -> Int]
  PROVE  \E i \in 1..n : \A j \in 1..n : f[i] <= f[j]
<1> DEFINE S == {k \in Nat : k + 1 \in 1..n => \E i \in 1..(k + 1) : \A j \in 1..(k + 1) : f[i] <= f[j]}
<1>1. 0 \in S
  <2>1. 1 \in 1..(0 + 1) /\ \A j \in 1..(0 + 1) : j = 1
    OBVIOUS
  <2>2. f[1] \in Int
    OBVIOUS
  <2> QED
    BY <2>1, <2>2
<1>2. ASSUME NEW k \in Nat, k \in S PROVE k + 1 \in S
  <2> SUFFICES ASSUME (k + 1) + 1 \in 1..n
               PROVE  \E i \in 1..((k + 1) + 1) : \A j \in 1..((k + 1) + 1) : f[i] <= f[j]
    OBVIOUS
  <2>1. PICK i \in 1..(k + 1) : \A j \in 1..(k + 1) : f[i] <= f[j]
    BY <1>2
  <2> DEFINE m == (k + 1) + 1
  <2>2. m \in 1..m /\ i \in 1..m /\ f[m] \in Int /\ f[i] \in Int
    OBVIOUS
  <2>3. \A j \in 1..m : j = m \/ j \in 1..(k + 1)
    OBVIOUS
  <2>4. \A j \in 1..m : f[j] \in Int
    OBVIOUS
  <2>5. CASE f[i] <= f[m]
    BY <2>1, <2>2, <2>3, <2>5
  <2>6. CASE f[m] <= f[i]
    <3>1. ASSUME NEW j \in 1..m PROVE f[m] <= f[j]
      <4>1. CASE j = m
        BY <2>2, <4>1
      <4>2. CASE j \in 1..(k + 1)
        <5>1. f[i] <= f[j] /\ f[j] \in Int
          BY <2>1, <2>4, <4>2
        <5> QED
          BY <2>2, <2>6, <5>1
      <4> QED
        BY <2>3, <4>1, <4>2
    <3> QED
      BY <2>2, <3>1
  <2> QED
    BY <2>2, <2>5, <2>6
<1>3. Nat \subseteq S
  <2> HIDE DEF S
  <2> QED
    BY <1>1, <1>2, NaturalNumbers
<1>4. n - 1 \in Nat /\ (n - 1) + 1 = n /\ n \in 1..n
  OBVIOUS
<1>5. \E i \in 1..((n - 1) + 1) : \A j \in 1..((n - 1) + 1) : f[i] <= f[j]
  <2>1. n - 1 \in S
    <3> HIDE DEF S
    <3> QED
      BY <1>3, <1>4
  <2> QED
    BY <1>4, <2>1
<1> QED
  BY <1>4, <1>5

(* Least and Most of the values of a sequence.                             *)
LEMMA Extremes ==
  ASSUME NEW n \in Nat \ {0}, NEW f \in [1..n -> Int], NEW S, S = {f[i] : i \in 1..n}
  PROVE  /\ Least(S) \in S /\ Least(S) \in Int /\ \A x \in S : Least(S) <= x
         /\ Most(S) \in S /\ Most(S) \in Int /\ \A x \in S : Most(S) >= x
<1>1. \E x \in S : \A y \in S : x <= y
  <2>1. PICK i \in 1..n : \A j \in 1..n : f[i] <= f[j]
    BY SomeLeast
  <2> QED
    BY <2>1
<1>2. \E x \in S : \A y \in S : x >= y
  <2> DEFINE g == [i \in 1..n |-> -f[i]]
  <2>1. g \in [1..n -> Int]
    OBVIOUS
  <2>2. PICK i \in 1..n : \A j \in 1..n : g[i] <= g[j]
    BY <2>1, SomeLeast
  <2>3. ASSUME NEW j \in 1..n PROVE f[i] >= f[j]
    <3>1. -f[i] <= -f[j]
      BY <2>2
    <3> QED
      BY <3>1
  <2> QED
    BY <2>3
<1>3. S \subseteq Int
  OBVIOUS
<1>4. Least(S) \in S /\ \A x \in S : Least(S) <= x
  BY <1>1 DEF Least
<1>5. Most(S) \in S /\ \A x \in S : Most(S) >= x
  BY <1>2 DEF Most
<1> QED
  BY <1>3, <1>4, <1>5

(* A weighted sum lies between the least and the largest of its values     *)
(* times the weights.                                                      *)
LEMMA WeightedBetween ==
  ASSUME NEW n \in Nat, NEW w \in [1..n -> Int], \A i \in 1..n : w[i] >= 0,
         NEW r \in [1..n -> Int], NEW lo \in Int, NEW hi \in Int,
         \A i \in 1..n : lo <= r[i] /\ r[i] <= hi
  PROVE  lo * Total(w) <= Total(Times(n, w, r)) /\ Total(Times(n, w, r)) <= hi * Total(w)
<1> DEFINE a == [i \in 1..n |-> lo * w[i]]  b == [i \in 1..n |-> hi * w[i]]  p == Times(n, w, r)
<1>1. \A k, x \in Int : k * x \in Int
  OBVIOUS
<1>2. /\ a \in [1..n -> Int] /\ \A i \in 1..n : a[i] = lo * w[i]
      /\ b \in [1..n -> Int] /\ \A i \in 1..n : b[i] = hi * w[i]
  BY <1>1
<1>3. p \in [1..n -> Int] /\ \A i \in 1..n : p[i] = w[i] * r[i]
  BY TimesType
<1>4. ASSUME NEW i \in 1..n PROVE a[i] <= p[i] /\ p[i] <= b[i]
  <2> DEFINE x == w[i]  y == r[i]
  <2>1. x \in Nat /\ y \in Int /\ lo <= y /\ y <= hi
    OBVIOUS
  <2>2. a[i] = lo * x /\ p[i] = x * y /\ b[i] = hi * x
    BY <1>2, <1>3
  <2> HIDE DEF x, y, a, b, p
  <2>3. lo * x <= x * y /\ x * y <= hi * x
    <3>1. \A z \in Nat : x * z \in Nat
      BY <2>1
    <3>2. y - lo \in Nat /\ hi - y \in Nat
      BY <2>1
    <3>3. x * (y - lo) \in Nat /\ x * (hi - y) \in Nat
      BY <3>1, <3>2
    <3>4. x * (y - lo) = x * y - lo * x /\ x * (hi - y) = hi * x - x * y
      BY <2>1
    <3>5. x * y \in Int /\ lo * x \in Int /\ hi * x \in Int
      BY <2>1
    <3> QED
      BY <3>3, <3>4, <3>5
  <2> QED
    BY <2>2, <2>3
<1> HIDE DEF a, b, p
<1>5. Total(a) = lo * Total(w) /\ Total(b) = hi * Total(w)
  BY <1>2, Scaled
<1>6. Total(a) <= Total(p) /\ Total(p) <= Total(b)
  BY <1>2, <1>3, <1>4, Monotone
<1> QED
  BY <1>5, <1>6 DEF p

(* The square of a sum lies between the sum of the squares and n times it. *)
LEMMA SquareOfSum ==
  ASSUME NEW n \in Nat, NEW w \in [1..n -> Int]
  PROVE  /\ (\A i \in 1..n : w[i] >= 0) => Total(Times(n, w, w)) <= Total(w) * Total(w)
         /\ Total(w) * Total(w) <= n * Total(Times(n, w, w))
<1>1. Total(w) \in Int
  BY SumsType
<1>2. ASSUME \A i \in 1..n : w[i] >= 0 PROVE Total(Times(n, w, w)) <= Total(w) * Total(w)
  <2>1. ASSUME NEW i \in 1..n PROVE 0 <= w[i] /\ w[i] <= Total(w)
    BY <1>2, TermInTotal
  <2> DEFINE lo == 0  hi == Total(w)
  <2>2. lo \in Int /\ hi \in Int /\ \A i \in 1..n : lo <= w[i] /\ w[i] <= hi
    BY <1>1, <2>1
  <2> HIDE DEF lo, hi
  <2>3. Total(Times(n, w, w)) <= hi * Total(w)
    BY <1>2, <2>2, WeightedBetween
  <2> QED
    BY <2>3 DEF hi
<1>3. Total(w) * Total(w) <= n * Total(Times(n, w, w))
  <2> DEFINE e == [i \in 1..n |-> 1]
  <2>1. e \in [1..n -> Int] /\ \A i \in 1..n : e[i] = 1
    OBVIOUS
  <2>2. Total(e) = n
    BY SumOfOnes
  <2> HIDE DEF e
  <2>3. Times(n, w, e) = w
    <3>1. \A i \in 1..n : w[i] * e[i] = w[i]
      BY <2>1
    <3> QED
      BY <3>1 DEF Times
  <2>4. Times(n, e, e) = e
    <3>1. \A i \in 1..n : e[i] * e[i] = e[i]
      BY <2>1
    <3> QED
      BY <2>1, <3>1 DEF Times
  <2>5. Total(w) * Total(w) <= Total(Times(n, w, w)) * n
    BY <2>1, <2>2, <2>3, <2>4, Cauchy
  <2>6. Total(Times(n, w, w)) \in Int
    BY TimesType
  <2> QED
    BY <2>5, <2>6
<1> QED
  BY <1>2, <1>3

-----------------------------------------------------------------------------
(* How often a value is among the first n of a sequence.                   *)
Often(n, d, a) == Cardinality({i \in 1..n : d[i] = a})

LEMMA OftenIs ==
  ASSUME NEW n \in Nat, NEW d, NEW a
  PROVE  /\ Often(n, d, a) \in Nat
         /\ Often(n, d, a) = Total(Ones(n, {i \in 1..n : d[i] = a}))
         /\ \A i \in 1..n : d[i] = a => Often(n, d, a) > 0
<1> DEFINE I == {i \in 1..n : d[i] = a}
<1>1. IsFiniteSet(I) /\ Cardinality(I) = Total(Ones(n, I))
  BY CountIsSum
<1>2. Cardinality(I) \in Nat
  BY <1>1, FS_CardinalityType
<1>3. ASSUME NEW i \in 1..n, d[i] = a PROVE Cardinality(I) > 0
  <2>1. I # {}
    BY <1>3
  <2>2. Cardinality(I) # 0
    BY <1>1, <2>1, FS_EmptySet
  <2> QED
    BY <1>2, <2>2
<1> QED
  BY <1>1, <1>2, <1>3 DEF Often

(* g are the values of f along d, and h those of f, each as often as it    *)
(* occurs: both have the same sum.                                         *)
Counts(n, m, d, f, g, h) ==
  /\ d \in [1..n -> 1..m] /\ f \in [1..m -> Int]
  /\ g = [i \in 1..n |-> f[d[i]]]
  /\ h = [a \in 1..m |-> Often(n, d, a) * f[a]]

LEMMA ByValue ==
  ASSUME NEW n \in Nat, NEW m \in Nat, NEW d, NEW f, NEW g, NEW h, Counts(n, m, d, f, g, h)
  PROVE  /\ g \in [1..n -> Int] /\ h \in [1..m -> Int]
         /\ Total(g) = Total(h)
<1>0. /\ d \in [1..n -> 1..m] /\ f \in [1..m -> Int]
      /\ g = [i \in 1..n |-> f[d[i]]]
      /\ h = [a \in 1..m |-> Often(n, d, a) * f[a]]
  BY DEF Counts
<1> USE <1>0
<1>1. \A x, y \in Int : x * y \in Int /\ 0 * x = 0 /\ 1 * x = x
  OBVIOUS
<1>2. \A a \in 1..m : Often(n, d, a) \in Nat /\ f[a] \in Int
  BY OftenIs
<1>3. /\ g \in [1..n -> Int] /\ \A i \in 1..n : g[i] = f[d[i]]
      /\ h \in [1..m -> Int] /\ \A a \in 1..m : h[a] = Often(n, d, a) * f[a]
  BY <1>1, <1>2
<1> DEFINE upTo(k) == [i \in 1..n |-> IF d[i] <= k THEN f[d[i]] ELSE 0]
           S == {k \in Nat : k \in 0..m => Total(upTo(k)) = Sums(h)[k]}
<1>4. ASSUME NEW k \in Nat
      PROVE  upTo(k) \in [1..n -> Int] /\ \A i \in 1..n : upTo(k)[i] = IF d[i] <= k THEN f[d[i]] ELSE 0
  OBVIOUS
<1>5. 0 \in S
  <2>1. \A i \in 1..n : upTo(0)[i] = 0
    OBVIOUS
  <2>2. upTo(0) \in [1..n -> Int]
    BY <1>4
  <2> HIDE DEF upTo
  <2>3. Total(upTo(0)) = 0
    BY <2>1, <2>2, SumOfZeros
  <2>4. Sums(h)[0] = 0
    BY <1>3, SumsType
  <2> QED
    BY <2>3, <2>4
<1>6. ASSUME NEW k \in Nat, k \in S PROVE k + 1 \in S
  <2> HIDE DEF upTo
  <2> SUFFICES ASSUME k + 1 \in 1..m PROVE Total(upTo(k + 1)) = Sums(h)[k + 1]
    OBVIOUS
  <2> USE DEF upTo
  <2>1. Total(upTo(k)) = Sums(h)[k]
    BY <1>6
  <2> DEFINE a == k + 1
             o == Ones(n, {i \in 1..n : d[i] = a})
             c == f[a]
             r == upTo(k + 1)
             s == upTo(k)
  <2>2. o \in [1..n -> Int] /\ Total(o) = Often(n, d, a) /\ c \in Int
    <3>1. o \in [1..n -> Int]
      BY DEF Ones
    <3>2. Total(o) = Often(n, d, a)
      BY OftenIs
    <3> QED
      BY <3>1, <3>2
  <2>3. r \in [1..n -> Int] /\ s \in [1..n -> Int]
    BY <1>4
  <2>4. ASSUME NEW i \in 1..n PROVE r[i] = 1 * s[i] + c * o[i] + 0 * s[i] + 0
    <3>1. /\ r[i] = IF d[i] <= k + 1 THEN f[d[i]] ELSE 0
          /\ s[i] = IF d[i] <= k THEN f[d[i]] ELSE 0
          /\ o[i] = IF d[i] = k + 1 THEN 1 ELSE 0
      BY <1>4 DEF Ones
    <3>2. d[i] \in 1..m /\ f[d[i]] \in Int /\ r[i] \in Int /\ s[i] \in Int
      OBVIOUS
    <3>3. r[i] = s[i] + c * o[i]
      <4>1. CASE d[i] = k + 1
        <5>1. r[i] = c /\ s[i] = 0 /\ o[i] = 1
          BY <3>1, <3>2, <4>1
        <5> HIDE DEF r, s, o, c
        <5> QED
          BY <2>2, <5>1
      <4>2. CASE d[i] # k + 1
        <5>1. d[i] <= k + 1 <=> d[i] <= k
          BY <3>2, <4>2
        <5>2. r[i] = s[i] /\ o[i] = 0
          <6> HIDE DEF r, s, o
          <6> QED
            BY <3>1, <4>2, <5>1
        <5> HIDE DEF r, s, o, c
        <5> QED
          BY <2>2, <3>2, <5>2
      <4> QED
        BY <4>1, <4>2
    <3>4. o[i] \in Int
      BY <2>2
    <3> HIDE DEF r, s, o, c
    <3>5. c * o[i] \in Int
      BY <1>1, <2>2, <3>4
    <3> QED
      BY <1>1, <3>2, <3>3, <3>5
  <2>5. Sums(h)[k + 1] = Sums(h)[k] + h[k + 1] /\ Sums(h)[k] \in Int
    BY <1>3, SumsNext
  <2>6. h[k + 1] = Total(o) * c
    BY <1>3, <2>2
  <2> HIDE DEF r, s, o, c
  <2>7. Combines(n, r, s, o, s, 1, c, 0, 0)
    BY <2>2, <2>3, <2>4 DEF Combines
  <2>8. Total(r) = 1 * Total(s) + c * Total(o) + 0 * Total(s) + 0 * n
    BY <2>7, Linear
  <2>9. Total(s) \in Int /\ Total(o) \in Int
    BY <2>2, <2>3, SumsType
  <2>10. Total(r) = Total(s) + c * Total(o) /\ c * Total(o) = Total(o) * c
    BY <1>1, <2>2, <2>8, <2>9
  <2> QED
    BY <2>1, <2>5, <2>6, <2>10 DEF r, s
<1>7. Nat \subseteq S
  <2> HIDE DEF S
  <2> QED
    BY <1>5, <1>6, NaturalNumbers
<1>8. Total(upTo(m)) = Sums(h)[m]
  <2>1. m \in S
    <3> HIDE DEF S
    <3> QED
      BY <1>7
  <2> QED
    BY <2>1
<1>9. upTo(m) = g
  BY <1>3
<1>10. Total(h) = Sums(h)[m]
  BY <1>3, SumsType
<1> QED
  BY <1>3, <1>8, <1>9, <1>10

-----------------------------------------------------------------------------
(* Off-policy evaluation: what is known of the log.                        *)
LogIs ==
  /\ given \in [old : Policies, new : Policies, reward : [Acts -> Rewards]]
  /\ data \in Seq(Acts)
  /\ \A a \in Acts : Often(Len(data), data, a) <= given.old[a]

(* The ratio as a function of the action, zero where the log knows none.   *)
RatioAt == [a \in Acts |-> IF given.old[a] > 0 THEN Ratio(a) ELSE 0]
EarnsAt == [a \in Acts |-> RatioAt[a] * given.reward[a]]

LEMMA LogType ==
  ASSUME LogIs
  PROVE  /\ Arms \in Nat \ {0} /\ Units \in Nat \ {0} /\ Common \in Nat \ {0}
         /\ Len(data) \in Nat /\ data \in [1..Len(data) -> 1..Arms]
         /\ given.old \in [1..Arms -> Int] /\ given.new \in [1..Arms -> Int]
         /\ \A a \in 1..Arms : given.old[a] \in 0..Units /\ given.new[a] \in 0..Units
         /\ Total(given.old) = Units /\ Total(given.new) = Units
         /\ given.reward \in [1..Arms -> Int]
         /\ \A i \in 1..Len(data) : given.old[data[i]] > 0
<1>1. Arms \in Nat \ {0} /\ Units \in Nat \ {0} /\ Common \in Nat \ {0} /\ Rewards \subseteq Int
  BY AssessmentAssumption
<1>2. Len(data) \in Nat /\ data \in [1..Len(data) -> 1..Arms]
  <2>1. data \in Seq(Acts)
    BY DEF LogIs
  <2>2. Len(data) \in Nat /\ data \in [1..Len(data) -> Acts]
    BY <2>1
  <2> QED
    BY <2>2 DEF Acts
<1>3. /\ given.old \in [1..Arms -> 0..Units] /\ given.new \in [1..Arms -> 0..Units]
      /\ Total(given.old) = Units /\ Total(given.new) = Units
      /\ given.reward \in [1..Arms -> Rewards]
  BY DEF LogIs, Policies, Acts
<1>4. ASSUME NEW i \in 1..Len(data) PROVE given.old[data[i]] > 0
  <2>1. data[i] \in Acts
    BY <1>2 DEF Acts
  <2>2. Often(Len(data), data, data[i]) <= given.old[data[i]]
    BY <2>1 DEF LogIs
  <2>3. Often(Len(data), data, data[i]) \in Nat /\ Often(Len(data), data, data[i]) > 0
    BY <1>2, OftenIs
  <2>4. given.old[data[i]] \in 0..Units
    BY <1>3, <2>1 DEF Acts
  <2> QED
    BY <1>1, <2>2, <2>3, <2>4
<1>5. given.reward \in [1..Arms -> Int]
  BY <1>1, <1>3
<1>6. \A p \in [1..Arms -> 0..Units] : p \in [1..Arms -> Int] /\ \A a \in 1..Arms : p[a] \in 0..Units
  BY <1>1
<1> QED
  BY <1>1, <1>2, <1>3, <1>4, <1>5, <1>6

(* A ratio is never negative, and exact: it takes no rounding.             *)
LEMMA RatioIs ==
  ASSUME LogIs, NEW a \in 1..Arms, given.old[a] > 0
  PROVE  Ratio(a) \in Nat /\ given.old[a] * Ratio(a) = Common * given.new[a]
<1> DEFINE b == given.old[a]  c == Common  e == given.new[a]
<1>1. b \in Nat \ {0} /\ c \in Nat /\ e \in Nat
  BY LogType
<1>2. c % b = 0
  <2>1. b \in 1..Units
    BY LogType
  <2> QED
    BY <2>1, AssessmentAssumption
<1>3. Ratio(a) = (c * e) \div b
  BY DEF Ratio
<1> HIDE DEF b, c, e
<1>4. PICK k \in Nat : c = b * k
  <2>1. c = b * (c \div b) + (c % b)
    BY <1>1
  <2>2. b * 0 <= c /\ c <= b * c
    BY <1>1
  <2>3. c \div b \in 0..c
    BY <1>1, <2>2, Division
  <2> DEFINE q == c \div b  r == c % b
  <2>4. c = b * q + r /\ q \in Nat /\ r = 0
    BY <1>1, <1>2, <2>1, <2>3
  <2> HIDE DEF q, r
  <2>5. b * q \in Int
    BY <1>1, <2>4
  <2>6. c = b * q
    BY <2>4, <2>5
  <2> QED
    BY <2>4, <2>6
<1> DEFINE m == k * e
<1>5. m \in Nat
  BY <1>1
<1>6. c * e = b * m
  BY <1>1, <1>4
<1>7. (c * e) \div b = m
  <2> HIDE DEF m
  <2>1. b * m \in Int /\ b * m <= b * m
    BY <1>1, <1>5
  <2>2. (b * m) \div b \in m..m
    BY <1>1, <1>5, <2>1, Division
  <2> QED
    BY <1>5, <1>6, <2>2
<1>8. Ratio(a) = m
  BY <1>3, <1>7
<1> QED
  BY <1>5, <1>6, <1>8 DEF b, c, e

(* The estimates as sums of sequences.                                     *)
LEMMA RatiosType ==
  ASSUME LogIs
  PROVE  /\ RatioAt \in [1..Arms -> Nat] /\ EarnsAt \in [1..Arms -> Int]
         /\ \A a \in 1..Arms : /\ RatioAt[a] = IF given.old[a] > 0 THEN Ratio(a) ELSE 0
                               /\ EarnsAt[a] = RatioAt[a] * given.reward[a]
         /\ Ratios = [i \in 1..Len(data) |-> RatioAt[data[i]]]
         /\ Weighted = [i \in 1..Len(data) |-> EarnsAt[data[i]]]
         /\ Ratios \in [1..Len(data) -> Nat] /\ Weighted \in [1..Len(data) -> Int]
         /\ Total(Ratios) \in Int /\ Total(Weighted) \in Int
<1> DEFINE n == Len(data)
<1>1. /\ n \in Nat /\ data \in [1..n -> 1..Arms] /\ given.reward \in [1..Arms -> Int]
      /\ \A i \in 1..n : given.old[data[i]] > 0
  BY LogType
<1>2. DOMAIN data = 1..n /\ Acts = 1..Arms
  BY <1>1 DEF Acts
<1>3. RatioAt \in [1..Arms -> Nat]
  BY <1>2, RatioIs DEF RatioAt
<1>4. \A a \in 1..Arms : RatioAt[a] = IF given.old[a] > 0 THEN Ratio(a) ELSE 0
  BY <1>2 DEF RatioAt
<1>5. \A x, y \in Int : x * y \in Int
  OBVIOUS
<1>6. ASSUME NEW a \in 1..Arms PROVE RatioAt[a] \in Int /\ given.reward[a] \in Int
  <2>1. RatioAt[a] \in Nat
    BY <1>3
  <2>2. given.reward[a] \in Int
    BY <1>1
  <2> QED
    BY <2>1, <2>2
<1>7. EarnsAt \in [1..Arms -> Int] /\ \A a \in 1..Arms : EarnsAt[a] = RatioAt[a] * given.reward[a]
  BY <1>2, <1>5, <1>6 DEF EarnsAt
<1>8. Ratios = [i \in 1..n |-> RatioAt[data[i]]]
  BY <1>1, <1>2, <1>4 DEF Ratios
<1>9. Ratios \in [1..n -> Nat]
  BY <1>1, <1>3, <1>8
<1>10. Weighted = [i \in 1..n |-> EarnsAt[data[i]]]
  <2>1. \A i \in 1..n : Ratios[i] * given.reward[data[i]] = EarnsAt[data[i]]
    BY <1>1, <1>7, <1>8
  <2> QED
    BY <1>2, <2>1 DEF Weighted
<1>11. Weighted \in [1..n -> Int]
  BY <1>1, <1>7, <1>10
<1>12. Total(Ratios) \in Int /\ Total(Weighted) \in Int
  <2>1. Ratios \in [1..n -> Int]
    BY <1>9
  <2> HIDE DEF n
  <2> QED
    BY <1>1, <1>11, <2>1, SumsType
<1> QED
  BY <1>3, <1>4, <1>7, <1>8, <1>9, <1>10, <1>11, <1>12

(* The weighted estimate is a mean, and the effective sample size too.     *)
LEMMA EstimatesBounded ==
  ASSUME LogIs, data # <<>>, Total(Ratios) > 0, NEW S, S = {given.reward[a] : a \in Range(data)}
  PROVE  /\ Estimate("wis")[1] \in (Least(S) * WIS[2])..(Most(S) * WIS[2])
         /\ ESS[1] \in ESS[2]..(Len(data) * ESS[2])
<1> DEFINE n == Len(data)  w == Ratios  r == [i \in 1..n |-> given.reward[data[i]]]
           lo == Least(S)  hi == Most(S)
<1>1. /\ n \in Nat /\ data \in [1..n -> 1..Arms] /\ given.reward \in [1..Arms -> Int]
  BY LogType
<1>2. n # 0
  BY <1>1 DEF LogIs
<1>3. r \in [1..n -> Int] /\ \A i \in 1..n : r[i] = given.reward[data[i]]
  BY <1>1
<1>4. S = {r[i] : i \in 1..n}
  BY <1>1 DEF Range
<1>5. w \in [1..n -> Int] /\ (\A i \in 1..n : w[i] >= 0) /\ Total(w) \in Int /\ Total(Weighted) \in Int
  <2>1. w \in [1..n -> Nat] /\ Total(w) \in Int /\ Total(Weighted) \in Int
    BY RatiosType
  <2> HIDE DEF w, n
  <2> QED
    BY <2>1
<1>6. Weighted = Times(n, w, r)
  <2>1. DOMAIN data = 1..n
    BY <1>1
  <2> QED
    BY <1>3, <2>1 DEF Weighted, Times
<1>7. ESS[1] = Total(w) * Total(w) /\ ESS[2] = Total(Times(n, w, w))
  <2>1. DOMAIN data = 1..n
    BY <1>1
  <2> QED
    BY <2>1 DEF ESS, Times
<1>8. Estimate("wis")[1] = Total(Weighted) /\ WIS[2] = Total(w)
  BY <1>5 DEF Estimate, WIS
<1> HIDE DEF n, w, r
<1>9. lo \in Int /\ hi \in Int /\ \A i \in 1..n : lo <= r[i] /\ r[i] <= hi
  <2>1. n \in Nat \ {0}
    BY <1>1, <1>2
  <2>2. /\ Least(S) \in Int /\ \A x \in S : Least(S) <= x
        /\ Most(S) \in Int /\ \A x \in S : Most(S) >= x
    BY <1>3, <1>4, <2>1, Extremes
  <2>3. \A i \in 1..n : r[i] \in S /\ r[i] \in Int
    BY <1>3, <1>4
  <2>4. ASSUME NEW i \in 1..n PROVE Least(S) <= r[i] /\ r[i] <= Most(S)
    BY <2>2, <2>3
  <2> QED
    BY <2>2, <2>4
<1> HIDE DEF lo, hi
<1>10. lo * Total(w) <= Total(Weighted) /\ Total(Weighted) <= hi * Total(w)
  BY <1>1, <1>3, <1>5, <1>6, <1>9, WeightedBetween
<1>11. Total(Times(n, w, w)) <= Total(w) * Total(w) /\ Total(w) * Total(w) <= n * Total(Times(n, w, w))
  BY <1>1, <1>5, SquareOfSum
<1>12. \A x, y \in Int : x * y \in Int
  OBVIOUS
<1>13. Total(Times(n, w, w)) \in Int
  BY <1>1, <1>5, TimesType
<1>14. Estimate("wis")[1] \in (lo * WIS[2])..(hi * WIS[2])
  <2>1. lo * Total(w) \in Int /\ hi * Total(w) \in Int
    BY <1>5, <1>9, <1>12
  <2> QED
    BY <1>5, <1>8, <1>10, <2>1
<1>15. ESS[1] \in ESS[2]..(n * ESS[2])
  <2>1. Total(w) * Total(w) \in Int /\ n * Total(Times(n, w, w)) \in Int
    BY <1>1, <1>5, <1>12, <1>13
  <2> QED
    BY <1>7, <1>11, <1>13, <2>1
<1> QED
  BY <1>14, <1>15 DEF lo, hi, n

(* A log as long as the old policy has probabilities shows every action as *)
(* often as it takes it.                                                   *)
LEMMA FullLog ==
  ASSUME LogIs, Len(data) = Units
  PROVE  \A a \in 1..Arms : Often(Len(data), data, a) = given.old[a]
<1> DEFINE n == Len(data)  d == data  m == Arms  u == given.old
           one == [a \in 1..m |-> 1]
           h == [a \in 1..m |-> Often(n, d, a) * one[a]]
           g == [i \in 1..n |-> one[d[i]]]
           z == [a \in 1..m |-> u[a] - Often(n, d, a)]
<1>1. /\ m \in Nat /\ n \in Nat /\ d \in [1..n -> 1..m] /\ u \in [1..m -> Int]
      /\ Total(u) = Units /\ n = Units
  BY LogType
<1>2. \A a \in 1..m : Often(n, d, a) \in Nat /\ Often(n, d, a) <= u[a]
  BY <1>1, OftenIs DEF LogIs, Acts
<1>3. one \in [1..m -> Int] /\ \A a \in 1..m : one[a] = 1
  OBVIOUS
<1>4. g = [i \in 1..n |-> 1]
  BY <1>1
<1>5. Total(g) = n
  BY <1>1, <1>4, SumOfOnes
<1> HIDE DEF n, d, m, u, one
<1>6. h \in [1..m -> Int] /\ Total(g) = Total(h) /\ Total(h) \in Int
  <2>1. Counts(n, m, d, one, g, h)
    BY <1>1, <1>3 DEF Counts
  <2> HIDE DEF g, h
  <2>2. h \in [1..m -> Int] /\ Total(g) = Total(h)
    BY <1>1, <1>3, <2>1, ByValue
  <2> QED
    BY <1>1, <2>2, SumsType
<1>7. \A a \in 1..m : h[a] = Often(n, d, a)
  BY <1>2, <1>3
<1>8. z \in [1..m -> Int] /\ \A a \in 1..m : z[a] = u[a] - Often(n, d, a) /\ z[a] >= 0
  BY <1>1, <1>2
<1> HIDE DEF g, h, z
<1>9. Combines(m, z, u, h, h, 1, -1, 0, 0)
  <2>1. ASSUME NEW a \in 1..m PROVE z[a] = 1 * u[a] + (-1) * h[a] + 0 * h[a] + 0
    <3>1. u[a] \in Int /\ h[a] \in Int /\ z[a] = u[a] - h[a]
      BY <1>1, <1>6, <1>7, <1>8
    <3> QED
      BY <3>1
  <2> QED
    BY <1>1, <1>6, <1>8, <2>1 DEF Combines
<1>10. Total(z) = 1 * Total(u) + (-1) * Total(h) + 0 * Total(h) + 0 * m
  BY <1>1, <1>9, Linear
<1>11. Total(z) = 0
  <2>1. Total(u) = n /\ Total(h) = n
    BY <1>1, <1>5, <1>6
  <2> QED
    BY <1>1, <1>10, <2>1
<1>12. \A a \in 1..m : z[a] = 0
  BY <1>1, <1>8, <1>11, ZeroTotal
<1>13. ASSUME NEW a \in 1..m PROVE Often(n, d, a) = u[a]
  <2>1. u[a] \in Int /\ Often(n, d, a) \in Int /\ u[a] - Often(n, d, a) = 0
    BY <1>1, <1>2, <1>8, <1>12
  <2> QED
    BY <2>1
<1> QED
  BY <1>13 DEF n, d, m, u

(* Such a log weighs what the new policy does as it does it.               *)
LEMMA FullEstimates ==
  ASSUME LogIs, Len(data) = Units
  PROVE  /\ Total(Weighted) = Common * Value(Seen(given.old))
         /\ Value(Seen(given.old)) \in Int
         /\ Seen(given.new) \subseteq Seen(given.old) =>
              /\ Total(Ratios) = Common * Units
              /\ Value(Acts) = Value(Seen(given.old))
<1> DEFINE n == Len(data)  d == data  m == Arms  u == given.old  v == given.new  r == given.reward
           e == RatioAt  f == EarnsAt  c == Common
           p == [a \in 1..m |-> Often(n, d, a) * f[a]]
           q == [a \in 1..m |-> Often(n, d, a) * e[a]]
           x == [a \in 1..m |-> IF a \in Seen(u) THEN v[a] * r[a] ELSE 0]
           y == [a \in 1..m |-> IF a \in Acts THEN v[a] * r[a] ELSE 0]
<1>1. /\ m \in Nat /\ n \in Nat /\ d \in [1..n -> 1..m] /\ c \in Nat /\ Units \in Nat
      /\ u \in [1..m -> Int] /\ v \in [1..m -> Int] /\ r \in [1..m -> Int]
      /\ \A a \in 1..m : u[a] >= 0 /\ v[a] >= 0
      /\ Total(v) = Units
  BY LogType
<1>2. /\ e \in [1..m -> Nat] /\ f \in [1..m -> Int]
      /\ \A a \in 1..m : f[a] = e[a] * r[a]
      /\ Ratios = [i \in 1..n |-> e[d[i]]] /\ Weighted = [i \in 1..n |-> f[d[i]]]
      /\ Total(Ratios) \in Int /\ Total(Weighted) \in Int
  BY RatiosType
<1>3. \A a \in 1..m : Often(n, d, a) = u[a]
  BY FullLog
<1>4. \A a \in 1..m : IF u[a] > 0 THEN u[a] * e[a] = c * v[a] ELSE e[a] = 0
  BY RatiosType, RatioIs
<1>5. Acts = 1..m /\ Seen(u) = {a \in 1..m : u[a] > 0} /\ Seen(v) = {a \in 1..m : v[a] > 0}
  BY DEF Acts, Seen
<1>6. Value(Seen(u)) = Total(x) /\ Value(Acts) = Total(y)
  BY <1>5 DEF Value
<1> DEFINE old == Seen(u)  new == Seen(v)
<1> HIDE DEF n, d, m, u, v, r, e, f, c, old, new
<1>7. \A i, j \in Int : i * j \in Int /\ i * 0 = 0
  OBVIOUS
<1>8. /\ x \in [1..m -> Int] /\ \A a \in 1..m : x[a] = IF u[a] > 0 THEN v[a] * r[a] ELSE 0
      /\ y \in [1..m -> Int] /\ \A a \in 1..m : y[a] = v[a] * r[a]
  <2>1. \A a \in 1..m : v[a] * r[a] \in Int
    BY <1>1, <1>7
  <2> QED
    BY <1>5, <2>1 DEF old
<1>9. /\ p \in [1..m -> Int] /\ Total(Weighted) = Total(p) /\ \A a \in 1..m : p[a] = u[a] * f[a]
  <2>1. \A a \in 1..m : p[a] = u[a] * f[a]
    BY <1>3
  <2> DEFINE g == Weighted
  <2>2. Counts(n, m, d, f, g, p)
    BY <1>1, <1>2 DEF Counts
  <2> HIDE DEF g, p
  <2>3. p \in [1..m -> Int] /\ Total(g) = Total(p)
    BY <1>1, <2>2, ByValue
  <2> QED
    BY <2>1, <2>3 DEF g
<1>10. /\ q \in [1..m -> Int] /\ Total(Ratios) = Total(q) /\ \A a \in 1..m : q[a] = u[a] * e[a]
  <2>1. \A a \in 1..m : q[a] = u[a] * e[a]
    BY <1>3
  <2> DEFINE g == Ratios
  <2>2. Counts(n, m, d, e, g, q)
    <3>1. e \in [1..m -> Int]
      BY <1>2
    <3>2. g = [i \in 1..n |-> e[d[i]]]
      BY <1>2
    <3> QED
      BY <1>1, <3>1, <3>2 DEF Counts
  <2> HIDE DEF g, q
  <2>3. q \in [1..m -> Int] /\ Total(g) = Total(q)
    BY <1>1, <2>2, ByValue
  <2> QED
    BY <2>1, <2>3 DEF g
<1> HIDE DEF x, y, p, q
<1>11. ASSUME NEW a \in 1..m PROVE p[a] = c * x[a]
  <2> DEFINE ua == u[a]  va == v[a]  ra == r[a]  ea == e[a]
  <2>1. ua \in Int /\ va \in Int /\ ra \in Int /\ ea \in Int /\ p[a] = ua * (ea * ra)
    BY <1>1, <1>2, <1>9
  <2>2. IF ua > 0 THEN ua * ea = c * va ELSE ea = 0
    BY <1>4
  <2>3. x[a] = IF ua > 0 THEN va * ra ELSE 0
    BY <1>8
  <2> HIDE DEF ua, va, ra, ea
  <2>4. CASE ua > 0
    <3>1. ua * (ea * ra) = (ua * ea) * ra
      BY <2>1
    <3>2. (c * va) * ra = c * (va * ra)
      BY <1>1, <2>1
    <3> QED
      BY <2>1, <2>2, <2>3, <2>4, <3>1, <3>2
  <2>5. CASE ~(ua > 0)
    <3>1. ea * ra = 0 /\ ua * 0 = 0 /\ c * 0 = 0
      BY <1>1, <2>1, <2>2, <2>5
    <3> QED
      BY <2>1, <2>3, <2>5, <3>1
  <2> QED
    BY <2>4, <2>5
<1>12. Total(p) = c * Total(x)
  <2>1. m \in Nat /\ c \in Int /\ p \in [1..m -> Int] /\ x \in [1..m -> Int]
    BY <1>1, <1>8, <1>9
  <2>2. \A a \in 1..m : p[a] = c * x[a]
    BY <1>11
  <2> QED
    BY <2>1, <2>2, Scaled
<1>13. Total(x) \in Int
  BY <1>1, <1>8, SumsType
<1>14. ASSUME new \subseteq old PROVE Total(Ratios) = c * Units /\ Total(y) = Total(x)
  <2>1. ASSUME NEW a \in 1..m, ~(u[a] > 0) PROVE v[a] = 0
    <3>1. a \notin new
      BY <1>5, <1>14, <2>1 DEF old, new
    <3> QED
      BY <1>1, <1>5, <3>1 DEF old, new
  <2>2. ASSUME NEW a \in 1..m PROVE q[a] = c * v[a]
    <3>1. CASE u[a] > 0
      BY <1>4, <1>10, <3>1
    <3>2. CASE ~(u[a] > 0)
      <4>1. v[a] = 0 /\ e[a] = 0
        BY <1>4, <2>1, <3>2
      <4>2. u[a] \in Int /\ c \in Int
        BY <1>1
      <4>3. u[a] * 0 = 0 /\ c * 0 = 0
        BY <1>7, <4>2
      <4> QED
        BY <1>10, <4>1, <4>3
    <3> QED
      BY <3>1, <3>2
  <2>3. Total(q) = c * Total(v)
    <3>1. m \in Nat /\ c \in Int /\ q \in [1..m -> Int] /\ v \in [1..m -> Int]
      BY <1>1, <1>10
    <3>2. \A a \in 1..m : q[a] = c * v[a]
      BY <2>2
    <3> QED
      BY <3>1, <3>2, Scaled
  <2>4. ASSUME NEW a \in 1..m PROVE y[a] = x[a]
    <3>1. CASE u[a] > 0
      BY <1>8, <3>1
    <3>2. CASE ~(u[a] > 0)
      <4>1. v[a] = 0 /\ r[a] \in Int
        BY <1>1, <2>1, <3>2
      <4>2. 0 * r[a] = 0
        BY <4>1
      <4> QED
        BY <1>8, <3>2, <4>1, <4>2
    <3> QED
      BY <3>1, <3>2
  <2>5. Total(y) = Total(x)
    <3>1. m \in Nat /\ y \in [1..m -> Int] /\ x \in [1..m -> Int]
      BY <1>1, <1>8
    <3>2. \A a \in 1..m : y[a] <= x[a] /\ x[a] <= y[a]
      <4>1. \A a \in 1..m : y[a] \in Int
        BY <3>1
      <4> QED
        BY <2>4, <4>1
    <3>3. Total(y) <= Total(x) /\ Total(x) <= Total(y)
      BY <3>1, <3>2, Monotone
    <3> QED
      BY <3>1, <3>3, SumsType
  <2> QED
    BY <1>1, <1>10, <2>3, <2>5
<1> QED
  BY <1>6, <1>9, <1>12, <1>13, <1>14 DEF c, u, v, old, new

(* So its estimates are exact.                                             *)
LEMMA EstimatesExact ==
  ASSUME LogIs, Len(data) = Units
  PROVE  /\ Estimate("is")[1] * Units = Value(Seen(given.old)) * IS[2]
         /\ Seen(given.new) \subseteq Seen(given.old) =>
              Estimate("wis")[1] * Units = Value(Acts) * WIS[2]
<1> DEFINE v == Value(Seen(given.old))  c == Common  k == Units
<1>1. c \in Nat \ {0} /\ k \in Nat \ {0}
  BY LogType
<1>2. v \in Int /\ Total(Weighted) = c * v
  BY FullEstimates
<1>3. IS[1] = c * v /\ IS[2] = c * k /\ Estimate("is") = IS
  BY <1>2 DEF IS, Estimate
<1> HIDE DEF v, c, k
<1>4. (c * v) * k = v * (c * k)
  BY <1>1, <1>2
<1>5. ASSUME Seen(given.new) \subseteq Seen(given.old)
      PROVE  Estimate("wis")[1] * k = Value(Acts) * WIS[2]
  <2>1. Total(Ratios) = c * k /\ Value(Acts) = v
    BY <1>5, FullEstimates DEF v, c, k
  <2>2. c * k # 0
    BY <1>1
  <2>3. WIS[1] = c * v /\ WIS[2] = c * k /\ Estimate("wis") = WIS
    BY <1>2, <2>1, <2>2 DEF WIS, Estimate
  <2> QED
    BY <1>4, <2>1, <2>3
<1> QED
  BY <1>3, <1>4, <1>5 DEF v, k

LEMMA EstimatesFollow ==
  ASSUME study = "policy" => LogIs
  PROVE  EstimatesAreSound
<1> SUFFICES ASSUME study = "policy", data # <<>>, LogIs, NEW S, S = {given.reward[a] : a \in Range(data)}
             PROVE  /\ Total(Ratios) > 0 =>
                         /\ Estimate("wis")[1] \in (Least(S) * WIS[2])..(Most(S) * WIS[2])
                         /\ ESS[1] \in ESS[2]..(Len(data) * ESS[2])
                    /\ Len(data) = Units =>
                         /\ Estimate("is")[1] * Units = Value(Seen(given.old)) * IS[2]
                         /\ Seen(given.new) \subseteq Seen(given.old) =>
                              Estimate("wis")[1] * Units = Value(Acts) * WIS[2]
  BY DEF EstimatesAreSound
<1> QED
  BY EstimatesBounded, EstimatesExact

-----------------------------------------------------------------------------
(* The batch: squares with the sign of what is squared, up to a bound.     *)
Signed(e, bound) ==
  LET square == IF e * e >= bound THEN bound ELSE e * e IN IF e < 0 THEN -square ELSE square

LEMMA SquareOrder ==
  ASSUME NEW x \in Nat, NEW y \in Nat, x < y
  PROVE  x * x < y * y
<1>1. PICK k \in Nat \ {0} : y = x + k
  <2>1. y - x \in Nat \ {0} /\ y = x + (y - x)
    OBVIOUS
  <2> QED
    BY <2>1
<1>2. (x + k) * (x + k) = x * x + (2 * (x * k) + k * k)
  OBVIOUS
<1>3. x * k \in Nat /\ k * k \in Nat \ {0} /\ x * x \in Nat
  OBVIOUS
<1> QED
  BY <1>1, <1>2, <1>3

LEMMA SignedOrder ==
  ASSUME NEW e \in Int, NEW f \in Int, e < f, NEW bound \in Nat \ {0}
  PROVE  /\ Signed(e, bound) <= Signed(f, bound)
         /\ Signed(e, bound) = Signed(f, bound) => e * e >= bound /\ f * f >= bound
<1> DEFINE x == e * e  y == f * f
<1>1. x \in Nat /\ y \in Nat
  OBVIOUS
<1>2. /\ Signed(e, bound) = IF e < 0 THEN -(IF x >= bound THEN bound ELSE x)
                                     ELSE IF x >= bound THEN bound ELSE x
      /\ Signed(f, bound) = IF f < 0 THEN -(IF y >= bound THEN bound ELSE y)
                                     ELSE IF y >= bound THEN bound ELSE y
  BY DEF Signed
<1>3. CASE e >= 0
  <2>1. x < y
    BY <1>3, SquareOrder
  <2> HIDE DEF x, y
  <2> QED
    BY <1>1, <1>2, <1>3, <2>1 DEF x, y
<1>4. CASE f < 0
  <2>1. (-f) * (-f) < (-e) * (-e)
    BY <1>4, SquareOrder
  <2>2. (-f) * (-f) = y /\ (-e) * (-e) = x
    OBVIOUS
  <2>3. y < x
    BY <2>1, <2>2
  <2> HIDE DEF x, y
  <2> QED
    BY <1>1, <1>2, <1>4, <2>3 DEF x, y
<1>5. CASE e < 0 /\ f >= 0
  <2>1. x > 0
    <3>1. -e \in Nat /\ 0 < -e
      BY <1>5
    <3>2. 0 * 0 < (-e) * (-e)
      BY <3>1, SquareOrder
    <3>3. (-e) * (-e) = x
      OBVIOUS
    <3> QED
      BY <3>2, <3>3
  <2> HIDE DEF x, y
  <2>2. Signed(e, bound) < 0 /\ Signed(f, bound) >= 0
    BY <1>1, <1>2, <1>5, <2>1
  <2>3. Signed(e, bound) \in Int /\ Signed(f, bound) \in Int
    BY <1>1, <1>2
  <2> QED
    BY <2>2, <2>3
<1> QED
  BY <1>3, <1>4, <1>5

(* The sum of the squared distances from the mean.                         *)
LEMMA Variation ==
  ASSUME NEW n \in Nat, NEW s \in [1..n -> Int], NEW r,
         r = [i \in 1..n |-> (n * s[i] - Total(s)) * (n * s[i] - Total(s))]
  PROVE  /\ r \in [1..n -> Int] /\ \A i \in 1..n : r[i] >= 0
         /\ Total(r) = n * (n * Total(Times(n, s, s)) - Total(s) * Total(s))
         /\ n * Total(Times(n, s, s)) - Total(s) * Total(s) \in Nat
<1> DEFINE one == [i \in 1..n |-> 1]  T == Total(s)  Q == Total(Times(n, s, s))
<1>1. one \in [1..n -> Int] /\ \A i \in 1..n : one[i] = 1
  OBVIOUS
<1>2. Total(one) = n
  BY SumOfOnes
<1>3. T \in Int /\ Q \in Int
  BY SumsType, TimesType
<1> HIDE DEF one
<1>4. Times(n, s, one) = s
  <2>1. \A i \in 1..n : s[i] * one[i] = s[i]
    BY <1>1
  <2> QED
    BY <2>1 DEF Times
<1>5. Times(n, one, one) = one
  <2>1. \A i \in 1..n : one[i] * one[i] = one[i]
    BY <1>1
  <2> QED
    BY <1>1, <2>1 DEF Times
<1> HIDE DEF T, Q
<1>6. r = [i \in 1..n |-> (n * s[i] - T * one[i]) * (n * s[i] - T * one[i])]
  <2>1. \A i \in 1..n : T * one[i] = Total(s)
    BY <1>1, <1>3 DEF T
  <2> QED
    BY <2>1
<1>7. /\ r \in [1..n -> Int]
      /\ Total(r) = (n * n) * Q + (-(2 * (n * T))) * Total(Times(n, s, one))
                     + (T * T) * Total(Times(n, one, one))
  <2>1. Squares(n, r, n, s, T, one)
    BY <1>1, <1>3, <1>6 DEF Squares
  <2> QED
    BY <2>1, SumOfSquares DEF Q
<1>8. Total(r) = (n * n) * Q + (-(2 * (n * T))) * T + (T * T) * n
  BY <1>2, <1>4, <1>5, <1>7 DEF T
<1>9. (n * n) * Q + (-(2 * (n * T))) * T + (T * T) * n = n * (n * Q - T * T)
  BY <1>3
<1>10. \A i \in 1..n : r[i] >= 0
  <2>1. ASSUME NEW i \in 1..n PROVE (n * s[i] - T) * (n * s[i] - T) >= 0
    <3> DEFINE z == n * s[i] - T
    <3>1. z \in Int
      BY <1>3
    <3> HIDE DEF z
    <3>2. z * z >= 0
      BY <3>1
    <3> QED
      BY <3>2 DEF z
  <2> QED
    BY <2>1 DEF T
<1>11. n * Q - T * T \in Nat
  <2>1. T * T <= n * Q
    BY SquareOfSum DEF T, Q
  <2>2. T * T \in Int /\ n * Q \in Int
    BY <1>3
  <2> QED
    BY <2>1, <2>2
<1> QED
  BY <1>7, <1>8, <1>9, <1>10, <1>11 DEF T, Q

(* The distances from the mean of the batch, and how they are signed.      *)
LEMMA BatchIs ==
  ASSUME data \in Seq(Grades), data # <<>>
  PROVE  /\ Len(data) \in Nat \ {0} /\ data \in [1..Len(data) -> Int] /\ DOMAIN data = 1..Len(data)
         /\ Variance = Len(data) * Total(Times(Len(data), data, data)) - Total(data) * Total(data)
         /\ Variance \in Nat /\ Total(data) \in Int
         /\ \A i \in 1..Len(data) :
              /\ data[i] \in Int /\ Excess(data[i]) = Len(data) * data[i] - Total(data)
              /\ Excess(data[i]) \in Int
              /\ Variance > 0 =>
                   /\ Normal(data[i]) = Signed(Excess(data[i]), 4 * Variance)
                   /\ Deviates(data[i]) <=> Excess(data[i]) * Excess(data[i]) >= 4 * Variance
              /\ Variance = 0 => Normal(data[i]) = 0 /\ ~Deviates(data[i])
<1> DEFINE n == Len(data)  V == Variance  T == Total(data)
<1>1. n \in Nat /\ data \in [1..n -> Grades] /\ DOMAIN data = 1..n
  OBVIOUS
<1>2. n # 0
  OBVIOUS
<1>3. data \in [1..n -> Int]
  <2>1. Grades \subseteq Int
    BY AssessmentAssumption
  <2> QED
    BY <1>1, <2>1
<1>4. V = n * Total(Times(n, data, data)) - T * T
  BY <1>1 DEF Variance, Times
<1> HIDE DEF n, V
<1>5. T \in Int /\ V \in Nat
  <2>1. n * Total(Times(n, data, data)) - T * T \in Nat
    BY <1>1, <1>3, Variation
  <2>2. T \in Int
    BY <1>1, <1>3, SumsType
  <2> QED
    BY <1>4, <2>1, <2>2
<1> HIDE DEF T
<1>6. ASSUME NEW i \in 1..n
      PROVE  /\ data[i] \in Int /\ Excess(data[i]) = n * data[i] - T
             /\ Excess(data[i]) \in Int
             /\ V > 0 => /\ Normal(data[i]) = Signed(Excess(data[i]), 4 * V)
                         /\ Deviates(data[i]) <=> Excess(data[i]) * Excess(data[i]) >= 4 * V
             /\ V = 0 => Normal(data[i]) = 0 /\ ~Deviates(data[i])
  <2> DEFINE x == data[i]
  <2>1. x \in Int
    BY <1>3
  <2>2. Excess(x) = n * x - T
    BY DEF Excess, n, T
  <2> HIDE DEF x
  <2>3. Excess(x) \in Int
    BY <1>1, <1>5, <2>1, <2>2
  <2>4. Deviates(x) <=> V > 0 /\ Excess(x) * Excess(x) >= 4 * V
    BY DEF Deviates, V
  <2>5. Normal(x) = IF V = 0 THEN 0
                    ELSE IF Excess(x) < 0
                         THEN -(IF Deviates(x) THEN 4 * V ELSE Excess(x) * Excess(x))
                         ELSE IF Deviates(x) THEN 4 * V ELSE Excess(x) * Excess(x)
    BY DEF Normal, V
  <2>6. Signed(Excess(x), 4 * V) =
          IF Excess(x) < 0
          THEN -(IF Excess(x) * Excess(x) >= 4 * V THEN 4 * V ELSE Excess(x) * Excess(x))
          ELSE IF Excess(x) * Excess(x) >= 4 * V THEN 4 * V ELSE Excess(x) * Excess(x)
    BY DEF Signed
  <2> QED
    BY <1>5, <2>1, <2>2, <2>3, <2>4, <2>5, <2>6 DEF x
<1> QED
  BY <1>1, <1>2, <1>3, <1>4, <1>5, <1>6 DEF n, V, T

(* At most a quarter of the scores is cut off.                             *)
LEMMA FewAreCut ==
  ASSUME data \in Seq(Grades), data # <<>>
  PROVE  4 * Cardinality({i \in DOMAIN data : Deviates(data[i])}) <= Len(data)
<1> DEFINE n == Len(data)  V == Variance  I == {i \in DOMAIN data : Deviates(data[i])}
           s == data  k == 4 * V
           r == [i \in 1..n |-> (n * s[i] - Total(s)) * (n * s[i] - Total(s))]
           c == [i \in 1..n |-> k * Ones(n, I)[i]]
<1>1. /\ n \in Nat /\ s \in [1..n -> Int] /\ DOMAIN s = 1..n
      /\ V = n * Total(Times(n, s, s)) - Total(s) * Total(s) /\ V \in Nat
  BY BatchIs
<1>2. \A i \in 1..n : Excess(s[i]) = n * s[i] - Total(s)
  BY BatchIs
<1>3. I \in SUBSET (1..n)
  BY <1>1
<1>4. /\ Cardinality(I) = Total(Ones(n, I)) /\ Ones(n, I) \in [1..n -> Int]
      /\ Cardinality(I) \in Nat
  BY <1>1, <1>3, CountIsSum, FS_CardinalityType
<1>5. \A i \in I : V > 0 /\ Excess(s[i]) * Excess(s[i]) >= k
  BY DEF Deviates
<1>6. \A i \in 1..n : Ones(n, I)[i] = IF i \in I THEN 1 ELSE 0
  BY DEF Ones
<1> HIDE DEF n, V, I, s
<1>7. r \in [1..n -> Int] /\ Total(r) = n * V /\ \A i \in 1..n : r[i] >= 0
  <2>2. PICK f : f = [i \in 1..n |-> (n * s[i] - Total(s)) * (n * s[i] - Total(s))]
    OBVIOUS
  <2> HIDE DEF r
  <2>3. f \in [1..n -> Int] /\ Total(f) = n * V /\ \A i \in 1..n : f[i] >= 0
    BY <1>1, <2>2, Variation
  <2> QED
    BY <2>2, <2>3 DEF r
<1>8. \A i \in 1..n : r[i] = Excess(s[i]) * Excess(s[i])
  BY <1>2
<1>9. \A x \in Int : k * x \in Int /\ k * 1 = k /\ k * 0 = 0 /\ k \in Int
  BY <1>1
<1>10. c \in [1..n -> Int] /\ \A i \in 1..n : c[i] = k * Ones(n, I)[i]
  BY <1>4, <1>9
<1> HIDE DEF r, c, k
<1>11. \A i \in 1..n : c[i] <= r[i]
  <2> SUFFICES ASSUME NEW i \in 1..n PROVE c[i] <= r[i]
    OBVIOUS
  <2>1. CASE i \in I
    BY <1>5, <1>6, <1>8, <1>9, <1>10, <2>1
  <2>2. CASE i \notin I
    BY <1>6, <1>7, <1>9, <1>10, <2>2
  <2> QED
    BY <2>1, <2>2
<1>12. Total(c) <= Total(r)
  BY <1>1, <1>7, <1>10, <1>11, Monotone
<1>13. Total(c) = k * Cardinality(I)
  <2> DEFINE o == Ones(n, I)
  <2>1. k \in Int /\ o \in [1..n -> Int] /\ \A i \in 1..n : c[i] = k * o[i]
    BY <1>4, <1>9, <1>10
  <2> HIDE DEF o
  <2>2. Total(c) = k * Total(o)
    BY <1>1, <1>10, <2>1, Scaled
  <2> QED
    BY <1>4, <2>2 DEF o
<1>14. CASE V > 0
  <2> DEFINE m == Cardinality(I)
  <2>1. m \in Nat
    BY <1>4
  <2>2. (4 * V) * m <= n * V
    BY <1>7, <1>12, <1>13 DEF k
  <2> HIDE DEF m
  <2>3. V * (4 * m) <= V * n
    BY <1>1, <2>1, <2>2
  <2>4. 4 * m <= n
    <3>1. 4 * m \in Int /\ n \in Int /\ V \in Nat \ {0}
      BY <1>1, <1>14, <2>1
    <3> QED
      BY <2>3, <3>1, Cancel
  <2> QED
    BY <2>4 DEF m, n, I, s
<1>15. CASE V = 0
  <2>1. I = {}
    BY <1>3, <1>5, <1>15
  <2>2. 4 * Cardinality(I) <= n
    BY <1>1, <2>1, FS_EmptySet
  <2> QED
    BY <2>2 DEF n, I, s
<1> QED
  BY <1>1, <1>14, <1>15

(* The target keeps the order, and tells equal scores.                     *)
LEMMA BatchFollows ==
  ASSUME study = "batch" => data \in Seq(Grades)
  PROVE  NormalKeepsOrder
<1> SUFFICES ASSUME data \in Seq(Grades), Len(data) >= 2,
                    NEW cut, cut = {i \in DOMAIN data : Deviates(data[i])}
             PROVE  /\ 4 * Cardinality(cut) <= Len(data)
                    /\ \A i, j \in DOMAIN data :
                         /\ data[i] < data[j] => Normal(data[i]) <= Normal(data[j])
                         /\ Normal(data[i]) = Normal(data[j]) => data[i] = data[j] \/ {i, j} \subseteq cut
  BY DEF NormalKeepsOrder
<1>1. data # <<>>
  OBVIOUS
<1> DEFINE n == Len(data)  V == Variance  T == Total(data)  e(i) == Excess(data[i])
<1>2. /\ n \in Nat \ {0} /\ DOMAIN data = 1..n /\ V \in Nat /\ T \in Int
      /\ \A i \in 1..n :
           /\ data[i] \in Int /\ e(i) = n * data[i] - T /\ e(i) \in Int
           /\ V > 0 => /\ Normal(data[i]) = Signed(e(i), 4 * V)
                       /\ Deviates(data[i]) <=> e(i) * e(i) >= 4 * V
           /\ V = 0 => Normal(data[i]) = 0 /\ ~Deviates(data[i])
  BY <1>1, BatchIs
<1>3. \A i \in 1..n : i \in cut <=> Deviates(data[i])
  BY <1>2
<1>4. ASSUME V = 0, NEW i \in 1..n PROVE e(i) = 0
  <2>1. data \in [1..n -> Int] /\ V = n * Total(Times(n, data, data)) - T * T
    BY <1>1, BatchIs
  <2>2. PICK r : r = [j \in 1..n |-> (n * data[j] - T) * (n * data[j] - T)]
    OBVIOUS
  <2>3. r \in [1..n -> Int] /\ Total(r) = n * V /\ \A j \in 1..n : r[j] >= 0
    BY <1>2, <2>1, <2>2, Variation
  <2>4. Total(r) = 0
    BY <1>2, <1>4, <2>3
  <2>5. r[i] = 0
    BY <1>2, <2>3, <2>4, ZeroTotal
  <2>6. r[i] = e(i) * e(i) /\ e(i) \in Int
    BY <1>2, <2>2
  <2> HIDE DEF e
  <2> QED
    BY <2>5, <2>6
<1> HIDE DEF n, V, T, e
<1>5. ASSUME NEW i \in 1..n, NEW j \in 1..n, data[i] < data[j] PROVE e(i) < e(j)
  <2> DEFINE x == data[i]  y == data[j]
  <2>1. x \in Int /\ y \in Int /\ x + 1 <= y /\ e(i) = n * x - T /\ e(j) = n * y - T
    <3>1. x \in Int /\ y \in Int /\ e(i) = n * x - T /\ e(j) = n * y - T
      BY <1>2
    <3>2. x < y
      BY <1>5
    <3> HIDE DEF x, y
    <3> QED
      BY <3>1, <3>2
  <2> HIDE DEF x, y
  <2>2. n * (x + 1) <= n * y /\ n * (x + 1) = n * x + n
    BY <1>2, <2>1, SmallerTimes
  <2>3. n * x \in Int /\ n * y \in Int
    BY <1>2, <2>1
  <2> QED
    BY <1>2, <2>1, <2>2, <2>3
<1>6. ASSUME NEW i \in 1..n, NEW j \in 1..n, data[i] < data[j]
      PROVE  /\ Normal(data[i]) <= Normal(data[j])
             /\ Normal(data[i]) = Normal(data[j]) => {i, j} \subseteq cut
  <2>1. e(i) < e(j) /\ e(i) \in Int /\ e(j) \in Int
    BY <1>2, <1>5, <1>6
  <2>2. CASE V = 0
    <3>1. e(i) = 0 /\ e(j) = 0
      BY <1>4, <2>2
    <3> QED
      BY <2>1, <3>1
  <2>3. CASE V > 0
    <3> DEFINE k == 4 * V
    <3>1. k \in Nat \ {0}
      BY <1>2, <2>3
    <3>2. /\ Normal(data[i]) = Signed(e(i), k) /\ Normal(data[j]) = Signed(e(j), k)
          /\ Deviates(data[i]) <=> e(i) * e(i) >= k
          /\ Deviates(data[j]) <=> e(j) * e(j) >= k
      BY <1>2, <2>3
    <3> HIDE DEF k
    <3>3. /\ Signed(e(i), k) <= Signed(e(j), k)
          /\ Signed(e(i), k) = Signed(e(j), k) => e(i) * e(i) >= k /\ e(j) * e(j) >= k
      BY <2>1, <3>1, SignedOrder
    <3> QED
      BY <1>3, <3>2, <3>3
  <2> QED
    BY <1>2, <2>2, <2>3
<1>7. ASSUME NEW i \in 1..n, NEW j \in 1..n, Normal(data[i]) = Normal(data[j]), data[i] # data[j]
      PROVE  {i, j} \subseteq cut
  <2>1. data[i] < data[j] \/ data[j] < data[i]
    BY <1>2, <1>7
  <2> QED
    BY <1>6, <1>7, <2>1
<1>8. 4 * Cardinality(cut) <= Len(data)
  BY <1>1, FewAreCut
<1> QED
  BY <1>2, <1>6, <1>7, <1>8

-----------------------------------------------------------------------------
(* The session: the covariance of places and scores is what the scores     *)
(* change between any two places, times their distance.                    *)
LEMMA Distances ==
  ASSUME NEW n \in Nat, NEW p \in [1..n -> Int], NEW s \in [1..n -> Int], NEW i \in 1..n,
         NEW r, r = [j \in 1..n |-> (p[j] - p[i]) * (s[j] - s[i])]
  PROVE  Total(r) = n * (p[i] * s[i]) + (-Total(p)) * s[i] + (-Total(s)) * p[i]
                      + Total(Times(n, p, s))
<1> DEFINE x == p[i]  y == s[i]  t == Times(n, p, s)  a == -y  b == -x  d == x * y
<1>1. x \in Int /\ y \in Int /\ a \in Int /\ b \in Int /\ d \in Int
  OBVIOUS
<1>2. t \in [1..n -> Int] /\ (\A j \in 1..n : t[j] = p[j] * s[j]) /\ Total(t) \in Int
  BY TimesType
<1> HIDE DEF x, y, t
<1>3. \A j \in 1..n : r[j] = (p[j] - x) * (s[j] - y)
  BY DEF x, y
<1>4. ASSUME NEW j \in 1..n
      PROVE  r[j] = 1 * t[j] + a * p[j] + b * s[j] + d /\ r[j] \in Int
  <2> DEFINE v == p[j]  w == s[j]
  <2>1. v \in Int /\ w \in Int /\ r[j] = (v - x) * (w - y) /\ t[j] = v * w
    BY <1>2, <1>3
  <2> HIDE DEF v, w
  <2>2. (v - x) * (w - y) = 1 * (v * w) + (-y) * v + (-x) * w + x * y /\ (v - x) * (w - y) \in Int
    BY <1>1, <2>1
  <2> QED
    BY <2>1, <2>2 DEF v, w
<1>5. r \in [1..n -> Int]
  BY <1>4
<1> HIDE DEF a, b, d
<1>6. Combines(n, r, t, p, s, 1, a, b, d)
  BY <1>1, <1>2, <1>4, <1>5 DEF Combines
<1>7. Total(r) = 1 * Total(t) + a * Total(p) + b * Total(s) + d * n
  BY <1>6, Linear
<1> DEFINE P == Total(p)  S == Total(s)  T == Total(t)
<1>8. P \in Int /\ S \in Int /\ T \in Int
  BY <1>2, SumsType
<1> HIDE DEF P, S, T
<1>9. Total(r) = 1 * T + (-y) * P + (-x) * S + (x * y) * n
  BY <1>7 DEF a, b, d, P, S, T
<1>10. 1 * T + (-y) * P + (-x) * S + (x * y) * n = n * (x * y) + (-P) * y + (-S) * x + T
  BY <1>1, <1>8
<1> QED
  BY <1>9, <1>10 DEF x, y, t, P, S, T

AreDistances(n, p, s, r) ==
  /\ p \in [1..n -> Int] /\ s \in [1..n -> Int]
  /\ r = [i \in 1..n |-> Total([j \in 1..n |-> (p[j] - p[i]) * (s[j] - s[i])])]

LEMMA AllDistances ==
  ASSUME NEW n \in Nat, NEW p, NEW s, NEW r, AreDistances(n, p, s, r)
  PROVE  Total(r) = 2 * (n * Total(Times(n, p, s)) - Total(p) * Total(s))
<1>0. /\ p \in [1..n -> Int] /\ s \in [1..n -> Int]
      /\ r = [i \in 1..n |-> Total([j \in 1..n |-> (p[j] - p[i]) * (s[j] - s[i])])]
  BY DEF AreDistances
<1> USE <1>0
<1> DEFINE t == Times(n, p, s)  P == Total(p)  S == Total(s)  T == Total(t)  a == -P  b == -S
<1>1. t \in [1..n -> Int] /\ (\A j \in 1..n : t[j] = p[j] * s[j])
  BY TimesType
<1>2. P \in Int /\ S \in Int /\ T \in Int /\ a \in Int /\ b \in Int
  BY <1>1, SumsType
<1>3. ASSUME NEW i \in 1..n
      PROVE  r[i] = n * t[i] + a * s[i] + b * p[i] + T /\ r[i] \in Int
  <2> DEFINE f == [j \in 1..n |-> (p[j] - p[i]) * (s[j] - s[i])]
  <2>1. r[i] = Total(f)
    OBVIOUS
  <2>2. f = [j \in 1..n |-> (p[j] - p[i]) * (s[j] - s[i])]
    OBVIOUS
  <2> HIDE DEF f
  <2>3. Total(f) = n * (p[i] * s[i]) + (-Total(p)) * s[i] + (-Total(s)) * p[i]
                      + Total(Times(n, p, s))
    BY <2>2, Distances
  <2>4. r[i] = n * t[i] + a * s[i] + b * p[i] + T
    BY <1>1, <2>1, <2>3
  <2>5. t[i] \in Int /\ s[i] \in Int /\ p[i] \in Int
    BY <1>1
  <2> DEFINE x == t[i]  y == s[i]  z == p[i]
  <2> HIDE DEF t, P, S, T, a, b, x, y, z
  <2>6. n * x + a * y + b * z + T \in Int
    <3>1. x \in Int /\ y \in Int /\ z \in Int
      BY <2>5 DEF x, y, z
    <3> QED
      BY <1>2, <3>1
  <2> QED
    BY <2>4, <2>6 DEF x, y, z
<1>4. r \in [1..n -> Int]
  BY <1>3
<1> HIDE DEF t, P, S, T, a, b
<1>5. Combines(n, r, t, s, p, n, a, b, T)
  BY <1>1, <1>2, <1>3, <1>4 DEF Combines
<1>6. Total(r) = n * T + a * S + b * P + T * n
  BY <1>5, Linear DEF T, S, P
<1>7. n * T + (-P) * S + (-S) * P + T * n = 2 * (n * T - P * S)
  BY <1>2
<1> QED
  BY <1>6, <1>7 DEF a, b, t, T, S, P

AreProducts(n, p, s, r) ==
  /\ p \in [1..n -> Int] /\ s \in [1..n -> Int]
  /\ r = [i \in 1..n |-> (n * p[i] - Total(p)) * (n * s[i] - Total(s))]

LEMMA CovarianceIs ==
  ASSUME NEW n \in Nat, NEW p, NEW s, NEW r, AreProducts(n, p, s, r)
  PROVE  Total(r) = n * (n * Total(Times(n, p, s)) - Total(p) * Total(s))
<1>0. /\ p \in [1..n -> Int] /\ s \in [1..n -> Int]
      /\ r = [i \in 1..n |-> (n * p[i] - Total(p)) * (n * s[i] - Total(s))]
  BY DEF AreProducts
<1> USE <1>0
<1> DEFINE t == Times(n, p, s)  P == Total(p)  S == Total(s)  T == Total(t)
           a == n * n  b == -(n * S)  c == -(n * P)  d == P * S
<1>1. t \in [1..n -> Int] /\ (\A j \in 1..n : t[j] = p[j] * s[j])
  BY TimesType
<1>2. P \in Int /\ S \in Int /\ T \in Int
  BY <1>1, SumsType
<1>3. \A i \in 1..n : r[i] = (n * p[i] - P) * (n * s[i] - S)
  OBVIOUS
<1> HIDE DEF t, P, S, T
<1>4. a \in Int /\ b \in Int /\ c \in Int /\ d \in Int
  BY <1>2
<1>5. ASSUME NEW i \in 1..n
      PROVE  r[i] = a * t[i] + b * p[i] + c * s[i] + d /\ r[i] \in Int
  <2> DEFINE x == p[i]  y == s[i]
  <2>1. x \in Int /\ y \in Int /\ r[i] = (n * x - P) * (n * y - S) /\ t[i] = x * y
    BY <1>1, <1>3
  <2> HIDE DEF x, y
  <2>2. /\ (n * x - P) * (n * y - S) \in Int
        /\ (n * x - P) * (n * y - S) = (n * n) * (x * y) + (-(n * S)) * x + (-(n * P)) * y + P * S
    BY <1>2, <2>1
  <2> QED
    BY <2>1, <2>2 DEF x, y
<1>6. r \in [1..n -> Int]
  BY <1>5
<1> HIDE DEF a, b, c, d
<1>7. Combines(n, r, t, p, s, a, b, c, d)
  BY <1>1, <1>4, <1>5, <1>6 DEF Combines
<1>8. Total(r) = a * T + b * P + c * S + d * n
  BY <1>7, Linear DEF T, S, P
<1>9. (n * n) * T + (-(n * S)) * P + (-(n * P)) * S + (P * S) * n = n * (n * T - P * S)
  BY <1>2
<1> QED
  BY <1>8, <1>9 DEF a, b, c, d, t, T, S, P

LEMMA RecentType ==
  ASSUME data \in Seq([score : Grades, length : 1..2]), Len(data) >= Sample
  PROVE  /\ Sample \in Nat /\ Places \in [1..Sample -> Int]
         /\ Recent("score") \in [1..Sample -> Int] /\ Recent("length") \in [1..Sample -> Int]
<1>1. Sample \in Nat \ {0} /\ Grades \subseteq Int
  BY AssessmentAssumption
<1> DEFINE R == [score : Grades, length : 1..2]  n == Len(data)
<1>2. n \in Nat /\ \A i \in 1..n : data[i] \in R
  <2>1. data \in Seq(R)
    OBVIOUS
  <2> HIDE DEF R
  <2> QED
    BY <2>1
<1>3. ASSUME NEW i \in 1..Sample PROVE LastOf(data, Sample)[i] \in R
  <2> HIDE DEF R
  <2>1. /\ n - Sample + 1 \in 1..(n + 1) /\ n - Sample + i \in 1..n
        /\ (n - Sample + 1) + i - 1 = n - Sample + i /\ i \in 1..(n - (n - Sample + 1) + 1)
    BY <1>1, <1>2
  <2>2. LastOf(data, Sample)[i] = data[n - Sample + i]
    BY <1>1, <1>2, <2>1 DEF LastOf
  <2> QED
    BY <1>2, <2>1, <2>2
<1>4. \A x \in R : x["score"] \in Int /\ x["length"] \in Int
  <2> SUFFICES ASSUME NEW x \in R PROVE x["score"] \in Int /\ x["length"] \in Int
    OBVIOUS
  <2>1. x["score"] \in Grades /\ x["length"] \in 1..2
    OBVIOUS
  <2>2. (\A y \in Grades : y \in Int) /\ \A y \in 1..2 : y \in Int
    BY <1>1
  <2> HIDE DEF R
  <2> QED
    BY <2>1, <2>2
<1>5. Recent("score") \in [1..Sample -> Int]
  <2> HIDE DEF R
  <2> QED
    BY <1>3, <1>4 DEF Recent
<1>6. Recent("length") \in [1..Sample -> Int]
  <2> HIDE DEF R
  <2> QED
    BY <1>3, <1>4 DEF Recent
<1>7. Places \in [1..Sample -> Int]
  BY <1>1 DEF Places
<1> QED
  BY <1>1, <1>5, <1>6, <1>7

(* The slope is that of all the changes.                                   *)
LEMMA SlopeIs ==
  ASSUME data \in Seq([score : Grades, length : 1..2]), Len(data) >= Sample,
         NEW changes,
         changes = [i \in 1..Sample |-> Total([j \in 1..Sample |->
                      (j - i) * (LastOf(data, Sample)[j].score - LastOf(data, Sample)[i].score)])]
  PROVE  2 * Leniency = Sample * Total(changes)
<1> DEFINE n == Sample  p == Places  s == Recent("score")
           f == [i \in 1..n |-> (n * p[i] - Total(p)) * (n * s[i] - Total(s))]
           g == [i \in 1..n |-> Total([j \in 1..n |-> (p[j] - p[i]) * (s[j] - s[i])])]
           A == Total(Times(n, p, s))  P == Total(p)  S == Total(s)
<1>1. n \in Nat /\ p \in [1..n -> Int] /\ s \in [1..n -> Int]
  BY RecentType
<1>2. \A i \in 1..n : p[i] = i /\ s[i] = LastOf(data, Sample)[i].score
  BY DEF Places, Recent
<1>3. Leniency = Total(f)
  BY DEF Leniency, Covariance
<1>4. changes = g
  BY <1>2
<1> HIDE DEF n, p, s
<1>5. Total(f) = n * (n * A - P * S)
  <2>1. AreProducts(n, p, s, f)
    BY <1>1 DEF AreProducts
  <2> HIDE DEF f
  <2> QED
    BY <1>1, <2>1, CovarianceIs
<1>6. Total(g) = 2 * (n * A - P * S)
  <2>1. AreDistances(n, p, s, g)
    BY <1>1 DEF AreDistances
  <2> HIDE DEF g
  <2> QED
    BY <1>1, <2>1, AllDistances
<1>7. A \in Int /\ P \in Int /\ S \in Int
  BY <1>1, SumsType, TimesType
<1> HIDE DEF f, g, A, P, S
<1>8. 2 * (n * (n * A - P * S)) = n * (2 * (n * A - P * S))
  BY <1>1, <1>7
<1> QED
  BY <1>3, <1>4, <1>5, <1>6, <1>8 DEF n

(* No correlation is beyond one.                                           *)
LEMMA CorrelationBounded ==
  ASSUME data \in Seq([score : Grades, length : 1..2]), Len(data) >= Sample
  PROVE  Verbosity * Verbosity <= Spread
<1> DEFINE n == Sample  s == Recent("score")  l == Recent("length")
           u == [i \in 1..n |-> n * s[i] - Total(s)]
           v == [i \in 1..n |-> n * l[i] - Total(l)]
<1>1. n \in Nat /\ s \in [1..n -> Int] /\ l \in [1..n -> Int]
  BY RecentType
<1>2. Total(s) \in Int /\ Total(l) \in Int
  BY <1>1, SumsType
<1>3. /\ u \in [1..n -> Int] /\ \A i \in 1..n : u[i] = n * s[i] - Total(s)
      /\ v \in [1..n -> Int] /\ \A i \in 1..n : v[i] = n * l[i] - Total(l)
  <2> HIDE DEF n, s, l
  <2>1. ASSUME NEW x \in Int PROVE n * x - Total(s) \in Int /\ n * x - Total(l) \in Int
    BY <1>1, <1>2
  <2> QED
    BY <1>1, <2>1
<1>4. Verbosity = Total(Times(n, u, v))
  BY DEF Verbosity, Covariance, Times
<1>5. Spread = Total(Times(n, u, u)) * Total(Times(n, v, v))
  BY DEF Spread, Covariance, Times
<1> HIDE DEF n, u, v
<1> QED
  BY <1>1, <1>3, <1>4, <1>5, Cauchy

LEMMA SessionFollows ==
  ASSUME study = "session" => data \in Seq([score : Grades, length : 1..2])
  PROVE  SessionIsMeasured
<1> SUFFICES ASSUME data \in Seq([score : Grades, length : 1..2]), Len(data) >= Sample,
                    NEW changes,
                    changes = [i \in 1..Sample |-> Total([j \in 1..Sample |->
                      (j - i) * (LastOf(data, Sample)[j].score - LastOf(data, Sample)[i].score)])]
             PROVE  2 * Leniency = Sample * Total(changes) /\ Verbosity * Verbosity <= Spread
  BY DEF SessionIsMeasured
<1> QED
  BY SlopeIs, CorrelationBounded

-----------------------------------------------------------------------------
(* Calibration: a calibrated score lies between the score and the scaled   *)
(* score, in units of the denominator j of the scale h / j.                *)
Clamped(y, j) == IF y < j THEN j ELSE IF y > 5 * j THEN 5 * j ELSE y

LEMMA ClampedBetween ==
  ASSUME NEW x \in 1..5, NEW h \in Int, NEW j \in Nat \ {0}
  PROVE  /\ Clamped(h * x, j) \in Int
         /\ h >= j => j * x <= Clamped(h * x, j) /\ Clamped(h * x, j) <= h * x
         /\ h <= j => h * x <= Clamped(h * x, j) /\ Clamped(h * x, j) <= j * x
<1> DEFINE y == h * x  z == j * x
<1>1. y \in Int /\ z \in Int
  OBVIOUS
<1>2. j <= z /\ z <= 5 * j
  BY SmallerTimes
<1>3. (h >= j => y >= z) /\ (h <= j => y <= z)
  <2>1. x * j = z /\ x * h = y /\ x \in Nat
    OBVIOUS
  <2> HIDE DEF y, z
  <2>2. (h >= j => x * j <= x * h) /\ (h <= j => x * h <= x * j)
    BY <2>1, SmallerTimes
  <2> QED
    BY <2>1, <2>2
<1> HIDE DEF y, z
<1>4. Clamped(y, j) = IF y < j THEN j ELSE IF y > 5 * j THEN 5 * j ELSE y
  BY DEF Clamped
<1>5. /\ Clamped(y, j) \in Int
      /\ h >= j => z <= Clamped(y, j) /\ Clamped(y, j) <= y
      /\ h <= j => y <= Clamped(y, j) /\ Clamped(y, j) <= z
  BY <1>1, <1>2, <1>3, <1>4
<1> QED
  BY <1>5 DEF y, z

LEMMA AnchorsType ==
  ASSUME data \in Seq([human : Grades, judge : Grades])
  PROVE  /\ Len(data) \in Nat /\ DOMAIN data = 1..Len(data)
         /\ Human = [i \in 1..Len(data) |-> data[i].human]
         /\ Judge = [i \in 1..Len(data) |-> data[i].judge]
         /\ Human \in [1..Len(data) -> Int] /\ Judge \in [1..Len(data) -> Int]
         /\ \A i \in 1..Len(data) : Judge[i] \in 1..5
<1> DEFINE R == [human : Grades, judge : Grades]  n == Len(data)
<1>1. n \in Nat /\ DOMAIN data = 1..n /\ \A i \in 1..n : data[i] \in R
  <2>1. data \in Seq(R)
    OBVIOUS
  <2> HIDE DEF R
  <2> QED
    BY <2>1
<1>2. \A x \in R : x.human \in 1..5 /\ x.judge \in 1..5
  <2> SUFFICES ASSUME NEW x \in R PROVE x.human \in 1..5 /\ x.judge \in 1..5
    OBVIOUS
  <2>1. x.human \in Grades /\ x.judge \in Grades
    OBVIOUS
  <2>2. \A y \in Grades : y \in 1..5
    BY AssessmentAssumption
  <2> HIDE DEF R
  <2> QED
    BY <2>1, <2>2
<1> HIDE DEF R
<1>3. /\ Human = [i \in 1..n |-> data[i].human] /\ Judge = [i \in 1..n |-> data[i].judge]
  BY <1>1 DEF Human, Judge
<1>4. \A i \in 1..n : data[i].human \in Int /\ data[i].judge \in 1..5 /\ data[i].judge \in Int
  BY <1>1, <1>2
<1> HIDE DEF n
<1>5. Human \in [1..n -> Int] /\ Judge \in [1..n -> Int] /\ \A i \in 1..n : Judge[i] \in 1..5
  BY <1>3, <1>4
<1> QED
  BY <1>1, <1>3, <1>5 DEF n

LEMMA CalibrationFollows ==
  ASSUME study = "anchors" => data \in Seq([human : Grades, judge : Grades])
  PROVE  CalibrationNeverOvershoots
<1> SUFFICES ASSUME data \in Seq([human : Grades, judge : Grades]),
                    NEW before, before = Total(Judge) * ScaleOf[2],
                    NEW after, after = Total([i \in DOMAIN data |-> Calibrated(data[i].judge)]),
                    NEW goal, goal = Total(Human) * ScaleOf[2]
             PROVE  after \in (before..goal) \cup (goal..before)
  BY DEF CalibrationNeverOvershoots
<1> DEFINE n == Len(data)  s == Judge  H == Total(Human)  J == Total(s)
           f == [i \in 1..n |-> Calibrated(s[i])]
<1>1. /\ n \in Nat /\ Human \in [1..n -> Int] /\ s \in [1..n -> Int]
      /\ \A i \in 1..n : s[i] \in 1..5
      /\ H \in Int /\ J \in Int
  <2>1. n \in Nat /\ Human \in [1..n -> Int] /\ s \in [1..n -> Int] /\ \A i \in 1..n : s[i] \in 1..5
    BY AnchorsType
  <2> QED
    BY <2>1, SumsType
<1>2. after = Total(f)
  <2>1. DOMAIN data = 1..n /\ \A i \in 1..n : s[i] = data[i].judge
    BY AnchorsType
  <2>2. [i \in DOMAIN data |-> Calibrated(data[i].judge)] = f
    BY <2>1
  <2> QED
    BY <2>2
<1>3. CASE data = <<>>
  <2>1. n = 0
    BY <1>3
  <2>2. ASSUME NEW g \in [1..n -> Int] PROVE Total(g) = 0
    <3> HIDE DEF n
    <3>1. \A i \in 1..n : g[i] = 0
      BY <2>1
    <3> QED
      BY <1>1, <3>1, SumOfZeros
  <2>3. f \in [1..n -> Int]
    BY <2>1
  <2> HIDE DEF n, s, f
  <2>4. after = 0 /\ H = 0 /\ J = 0
    BY <1>1, <1>2, <2>2, <2>3
  <2>5. ScaleOf[2] = 1
    BY <1>3 DEF ScaleOf
  <2>6. before = 0 /\ goal = 0
    BY <2>4, <2>5 DEF H, J, s
  <2> QED
    BY <2>4, <2>6
<1>4. CASE data # <<>>
  <2>1. ScaleOf[1] = H /\ ScaleOf[2] = J
    BY <1>4 DEF ScaleOf
  <2>2. n \in Nat \ {0}
    BY <1>1, <1>4, AnchorsType
  <2>3. \A i \in 1..n : f[i] = Clamped(H * s[i], J)
    <3> SUFFICES ASSUME NEW i \in 1..n PROVE Calibrated(s[i]) = Clamped(H * s[i], J)
      OBVIOUS
    <3>1. s[i] * H = H * s[i]
      BY <1>1
    <3> QED
      BY <2>1, <3>1 DEF Calibrated, Clamped
  <2>4. before = J * J /\ goal = H * J
    BY <2>1
  <2> DEFINE p == [i \in 1..n |-> J * s[i]]  q == [i \in 1..n |-> H * s[i]]
  <2> HIDE DEF n, s, H, J
  <2>5. \A x, y \in Int : x * y \in Int
    OBVIOUS
  <2>6. /\ p \in [1..n -> Int] /\ \A i \in 1..n : p[i] = J * s[i]
        /\ q \in [1..n -> Int] /\ \A i \in 1..n : q[i] = H * s[i]
    BY <1>1, <2>5
  <2>7. J \in Nat \ {0}
    <3>1. 1 \in 1..n /\ \A i \in 1..n : s[i] >= 0
      <4>1. 1 \in 1..n
        BY <2>2
      <4>2. \A x \in 1..5 : x >= 0
        OBVIOUS
      <4> QED
        BY <1>1, <4>1, <4>2
    <3>2. s[1] <= Total(s)
      BY <1>1, <3>1, TermInTotal
    <3>3. s[1] \in 1..5
      BY <1>1, <3>1
    <3> QED
      BY <1>1, <3>2, <3>3 DEF J
  <2>8. ASSUME NEW i \in 1..n
        PROVE  /\ f[i] \in Int
               /\ H >= J => p[i] <= f[i] /\ f[i] <= q[i]
               /\ H <= J => q[i] <= f[i] /\ f[i] <= p[i]
    <3>1. s[i] \in 1..5
      BY <1>1
    <3> QED
      BY <1>1, <2>3, <2>6, <2>7, <3>1, ClampedBetween
  <2>9. f \in [1..n -> Int]
    BY <2>8
  <2> HIDE DEF f, p, q
  <2>10. Total(p) = J * J
    <3>1. Total(p) = J * Total(s)
      BY <1>1, <2>6, Scaled
    <3> QED
      BY <3>1 DEF J
  <2>11. Total(q) = H * J
    <3>1. Total(q) = H * Total(s)
      BY <1>1, <2>6, Scaled
    <3> QED
      BY <3>1 DEF J
  <2>12. Total(f) \in Int /\ Total(p) \in Int /\ Total(q) \in Int
    BY <1>1, <2>6, <2>9, SumsType
  <2>13. CASE H >= J
    <3>1. \A i \in 1..n : p[i] <= f[i] /\ f[i] <= q[i]
      BY <2>8, <2>13
    <3>2. Total(p) <= Total(f) /\ Total(f) <= Total(q)
      BY <1>1, <2>6, <2>9, <3>1, Monotone
    <3> QED
      BY <1>2, <2>4, <2>10, <2>11, <2>12, <3>2
  <2>14. CASE H <= J
    <3>1. \A i \in 1..n : q[i] <= f[i] /\ f[i] <= p[i]
      BY <2>8, <2>14
    <3>2. Total(q) <= Total(f) /\ Total(f) <= Total(p)
      BY <1>1, <2>6, <2>9, <3>1, Monotone
    <3> QED
      BY <1>2, <2>4, <2>10, <2>11, <2>12, <3>2
  <2> QED
    BY <1>1, <2>13, <2>14
<1> QED
  BY <1>3, <1>4

-----------------------------------------------------------------------------
(* Drift: a sample that has the same share of every grade has the same     *)
(* share of any set of them.                                               *)
Among(n, s, T) == Cardinality({i \in 1..n : s[i] \in T})

AddsUp(n, s, T, h) == h = [a \in 1..5 |-> Often(n, s, a) * (IF a \in T THEN 1 ELSE 0)]

LEMMA AmongIs ==
  ASSUME NEW n \in Nat, NEW s \in [1..n -> 1..5], NEW T, NEW h, AddsUp(n, s, T, h)
  PROVE  h \in [1..5 -> Int] /\ Among(n, s, T) = Total(h) /\ Among(n, s, T) \in Nat
<1> DEFINE f == [a \in 1..5 |-> IF a \in T THEN 1 ELSE 0]
           g == [i \in 1..n |-> f[s[i]]]
           I == {i \in 1..n : s[i] \in T}
<1>1. f \in [1..5 -> Int] /\ \A a \in 1..5 : f[a] = IF a \in T THEN 1 ELSE 0
  OBVIOUS
<1>2. g = Ones(n, I)
  BY DEF Ones
<1>3. Cardinality(I) = Total(g) /\ Cardinality(I) \in Nat
  <2>1. IsFiniteSet(I) /\ Cardinality(I) = Total(Ones(n, I))
    BY CountIsSum
  <2> HIDE DEF g, I
  <2> QED
    BY <1>2, <2>1, FS_CardinalityType
<1>4. h = [a \in 1..5 |-> Often(n, s, a) * f[a]]
  BY DEF AddsUp
<1>5. Counts(n, 5, s, f, g, h)
  BY <1>1, <1>4 DEF Counts
<1> HIDE DEF f, g
<1>6. h \in [1..5 -> Int] /\ Total(g) = Total(h)
  <2> DEFINE k == 5
  <2>1. k \in Nat /\ Counts(n, k, s, f, g, h)
    BY <1>5
  <2> HIDE DEF k, I
  <2>2. h \in [1..k -> Int] /\ Total(g) = Total(h)
    BY <2>1, ByValue
  <2> QED
    BY <2>2 DEF k
<1> QED
  BY <1>3, <1>6 DEF Among

SameShares(n, s, m, c) ==
  /\ s \in [1..n -> 1..5] /\ c \in [1..m -> 1..5]
  /\ \A v \in 1..5 : Often(n, s, v) * m = Often(m, c, v) * n

LEMMA SharesAgree ==
  ASSUME NEW n \in Nat, NEW m \in Nat, NEW s, NEW c, SameShares(n, s, m, c), NEW T
  PROVE  Among(n, s, T) * m = Among(m, c, T) * n
<1> DEFINE f(a) == IF a \in T THEN 1 ELSE 0
           h == [a \in 1..5 |-> Often(n, s, a) * f(a)]
           k == [a \in 1..5 |-> Often(m, c, a) * f(a)]
           r == [a \in 1..5 |-> m * h[a]]
<1>1. s \in [1..n -> 1..5] /\ c \in [1..m -> 1..5]
  BY DEF SameShares
<1>2. /\ AddsUp(n, s, T, h) /\ AddsUp(m, c, T, k)
      /\ \A a \in 1..5 : h[a] = Often(n, s, a) * f(a) /\ k[a] = Often(m, c, a) * f(a)
  BY DEF AddsUp
<1> HIDE DEF h, k
<1>3. h \in [1..5 -> Int] /\ Among(n, s, T) = Total(h) /\ Among(n, s, T) \in Nat
  BY <1>1, <1>2, AmongIs
<1>4. k \in [1..5 -> Int] /\ Among(m, c, T) = Total(k) /\ Among(m, c, T) \in Nat
  BY <1>1, <1>2, AmongIs
<1>5. ASSUME NEW a \in 1..5 PROVE m * h[a] = n * k[a] /\ m * h[a] \in Int
  <2>1. Often(n, s, a) * m = Often(m, c, a) * n
    BY DEF SameShares
  <2>2. Often(n, s, a) \in Nat /\ Often(m, c, a) \in Nat
    BY OftenIs
  <2>3. h[a] = Often(n, s, a) * f(a) /\ k[a] = Often(m, c, a) * f(a)
    BY <1>2
  <2>4. f(a) = 0 \/ f(a) = 1
    OBVIOUS
  <2> HIDE DEF f
  <2>5. CASE f(a) = 0
    BY <2>2, <2>3, <2>5
  <2>6. CASE f(a) = 1
    <3>1. h[a] = Often(n, s, a) /\ k[a] = Often(m, c, a)
      BY <2>2, <2>3, <2>6
    <3>2. m * Often(n, s, a) = Often(n, s, a) * m /\ n * Often(m, c, a) = Often(m, c, a) * n
      BY <2>2
    <3>3. m * Often(n, s, a) \in Int
      BY <2>2
    <3> QED
      BY <2>1, <3>1, <3>2, <3>3
  <2> QED
    BY <2>4, <2>5, <2>6
<1>6. r \in [1..5 -> Int] /\ \A a \in 1..5 : r[a] = m * h[a] /\ r[a] = n * k[a]
  BY <1>5
<1> HIDE DEF r
<1>7. Total(r) = m * Total(h) /\ Total(r) = n * Total(k)
  <2> DEFINE b == 5
  <2>1. /\ b \in Nat /\ h \in [1..b -> Int] /\ k \in [1..b -> Int] /\ r \in [1..b -> Int]
        /\ m \in Int /\ n \in Int
    BY <1>3, <1>4, <1>6
  <2>2. (\A a \in 1..b : r[a] = m * h[a]) /\ \A a \in 1..b : r[a] = n * k[a]
    BY <1>6
  <2> HIDE DEF b
  <2>3. Total(r) = m * Total(h)
    BY <2>1, <2>2, Scaled
  <2>4. Total(r) = n * Total(k)
    BY <2>1, <2>2, Scaled
  <2> QED
    BY <2>3, <2>4
<1> DEFINE x == Among(n, s, T)  y == Among(m, c, T)
<1>9. x \in Nat /\ y \in Nat /\ m * x = n * y
  BY <1>3, <1>4, <1>7
<1> HIDE DEF x, y
<1>10. x * m = y * n
  BY <1>9
<1> QED
  BY <1>10 DEF x, y

(* How many are at most a grade: those at most the one before, and those   *)
(* that are it.                                                            *)
LEMMA OneGrade ==
  ASSUME NEW n \in Nat, NEW s \in [1..n -> 1..5], NEW v \in Int
  PROVE  Among(n, s, {x \in Int : x <= v})
           = Among(n, s, {x \in Int : x <= v - 1}) + Often(n, s, v)
<1> DEFINE A == {i \in 1..n : s[i] \in {x \in Int : x <= v}}
           B == {i \in 1..n : s[i] \in {x \in Int : x <= v - 1}}
           C == {i \in 1..n : s[i] = v}
<1>1. \A i \in 1..n : s[i] \in Int
  OBVIOUS
<1>2. A = B \cup C /\ B \cap C = {}
  BY <1>1
<1>3. IsFiniteSet(B) /\ IsFiniteSet(C)
  <2>1. B \in SUBSET (1..n) /\ C \in SUBSET (1..n)
    OBVIOUS
  <2> HIDE DEF B, C
  <2> QED
    BY <2>1, CountIsSum
<1>4. Cardinality(B) \in Nat /\ Cardinality(C) \in Nat /\ Cardinality({}) = 0
  BY <1>3, FS_CardinalityType, FS_EmptySet
<1> HIDE DEF A, B, C
<1>5. Cardinality(A) = Cardinality(B) + Cardinality(C) - Cardinality(B \cap C)
  BY <1>2, <1>3, FS_Union
<1>6. Cardinality(A) = Cardinality(B) + Cardinality(C)
  <2>1. Cardinality(B \cap C) = 0
    BY <1>2, <1>4
  <2> QED
    BY <1>4, <1>5, <2>1
<1> QED
  BY <1>6 DEF A, B, C, Among, Often

(* All of them, or none.                                                   *)
LEMMA AllOrNone ==
  ASSUME NEW n \in Nat, NEW s \in [1..n -> 1..5], NEW T
  PROVE  /\ Among(n, s, T) \in 0..n
         /\ Among(n, s, T) = n <=> \A i \in 1..n : s[i] \in T
         /\ Among(n, s, T) = 0 <=> \A i \in 1..n : s[i] \notin T
<1> DEFINE I == {i \in 1..n : s[i] \in T}
<1>1. IsFiniteSet(1..n) /\ Cardinality(1..n) = n
  BY FS_Interval
<1>2. I \subseteq 1..n
  OBVIOUS
<1>3. \A i \in 1..n : i \in I <=> s[i] \in T
  OBVIOUS
<1> HIDE DEF I
<1>4. /\ IsFiniteSet(I) /\ Cardinality(I) <= n /\ Cardinality(I) \in Nat
      /\ Cardinality(I) = n => I = 1..n
  <2> DEFINE S == 1..n
  <2>1. IsFiniteSet(S) /\ Cardinality(S) = n /\ I \in SUBSET S
    BY <1>1, <1>2
  <2> HIDE DEF S
  <2>2. /\ IsFiniteSet(I) /\ Cardinality(I) <= Cardinality(S)
        /\ Cardinality(S) = Cardinality(I) => S = I
    BY <2>1, FS_Subset
  <2> QED
    BY <2>1, <2>2, FS_CardinalityType DEF S
<1>5. Cardinality(I) = 0 <=> I = {}
  BY <1>4, FS_EmptySet
<1>6. (I = 1..n <=> \A i \in 1..n : s[i] \in T) /\ (I = {} <=> \A i \in 1..n : s[i] \notin T)
  BY <1>2, <1>3
<1>7. I = 1..n => Cardinality(I) = n
  BY <1>1
<1>8. Among(n, s, T) = Cardinality(I)
  BY DEF Among, I
<1> QED
  BY <1>4, <1>5, <1>6, <1>7, <1>8

(* What the drift tests compare: two samples that are not empty.           *)
TwoSamples ==
  /\ Len(given) \in Nat \ {0} /\ given \in [1..Len(given) -> 1..5]
  /\ Len(Current) \in Nat \ {0} /\ Current \in [1..Len(Current) -> 1..5]

UpTo(v) == {x \in Int : x <= v}

(* How far the two distribution functions are apart at a value.            *)
Away(v) == CountTo(given, v) * Len(Current) - CountTo(Current, v) * Len(given)

LEMMA CountToIs ==
  ASSUME NEW n \in Nat, NEW s \in [1..n -> 1..5], NEW v \in Int
  PROVE  /\ CountTo(s, v) = Among(n, s, UpTo(v))
         /\ CountTo(s, v) \in 0..n
         /\ CountTo(s, v) = n <=> \A i \in 1..n : s[i] <= v
         /\ CountTo(s, v) = 0 <=> \A i \in 1..n : s[i] > v
         /\ CountTo(s, v) = CountTo(s, v - 1) + Often(n, s, v)
<1>1. \A i \in 1..n : s[i] \in Int
  OBVIOUS
<1>2. ASSUME NEW w \in Int PROVE CountTo(s, w) = Among(n, s, UpTo(w))
  <2>1. {i \in DOMAIN s : s[i] <= w} = {i \in 1..n : s[i] \in UpTo(w)}
    BY <1>1 DEF UpTo
  <2> QED
    BY <2>1 DEF CountTo, Among
<1>3. \A i \in 1..n : (s[i] \in UpTo(v) <=> s[i] <= v) /\ (s[i] \notin UpTo(v) <=> s[i] > v)
  BY <1>1 DEF UpTo
<1>4. v - 1 \in Int
  OBVIOUS
<1>5. Among(n, s, UpTo(v)) = Among(n, s, UpTo(v - 1)) + Often(n, s, v)
  BY OneGrade DEF UpTo
<1>6. /\ Among(n, s, UpTo(v)) \in 0..n
      /\ Among(n, s, UpTo(v)) = n <=> \A i \in 1..n : s[i] \in UpTo(v)
      /\ Among(n, s, UpTo(v)) = 0 <=> \A i \in 1..n : s[i] \notin UpTo(v)
  BY AllOrNone
<1> QED
  BY <1>2, <1>3, <1>4, <1>5, <1>6

LEMMA AbsIs ==
  ASSUME NEW x \in Int
  PROVE  Abs(x) \in Nat /\ (Abs(x) = 0 <=> x = 0) /\ (Abs(x) = x \/ Abs(x) = -x)
           /\ x <= Abs(x) /\ -x <= Abs(x)
BY DEF Abs

(* The gap is how far they are apart at some value, and no farther at any. *)
LEMMA GapIs ==
  ASSUME TwoSamples
  PROVE  /\ Range(given \o Current) = Range(given) \cup Range(Current)
         /\ Range(given) = {given[i] : i \in 1..Len(given)}
         /\ Range(Current) = {Current[i] : i \in 1..Len(Current)}
         /\ Range(given \o Current) \subseteq 1..5
         /\ Gap \in Nat
         /\ \E v \in Range(given \o Current) : Gap = Abs(Away(v))
         /\ \A v \in Range(given \o Current) : Abs(Away(v)) <= Gap
<1> DEFINE g == given  c == Current  n == Len(g)  m == Len(c)  b == g \o c
<1>1. n \in Nat \ {0} /\ g \in [1..n -> 1..5] /\ m \in Nat \ {0} /\ c \in [1..m -> 1..5]
  BY DEF TwoSamples
<1>2. g \in Seq(1..5) /\ c \in Seq(1..5)
  <2> DEFINE S == 1..5
  <2>1. g \in [1..n -> S] /\ c \in [1..m -> S] /\ n \in Nat /\ m \in Nat
    BY <1>1
  <2> HIDE DEF S, g, c, n, m
  <2>2. g \in Seq(S) /\ c \in Seq(S)
    BY <2>1
  <2> QED
    BY <2>2 DEF S
<1>3. b \in Seq(1..5) /\ Len(b) = n + m
  BY <1>2
<1>4. /\ DOMAIN b = 1..(n + m) /\ DOMAIN g = 1..n /\ DOMAIN c = 1..m
      /\ \A i \in 1..n : b[i] = g[i]
      /\ \A i \in 1..m : b[n + i] = c[i]
      /\ \A i \in 1..(n + m) : b[i] = IF i <= n THEN g[i] ELSE c[i - n]
  BY <1>1, <1>2, <1>3
<1> HIDE DEF g, c, n, m, b
<1>5. /\ Range(b) = {b[i] : i \in 1..(n + m)} /\ Range(g) = {g[i] : i \in 1..n}
      /\ Range(c) = {c[i] : i \in 1..m}
  BY <1>4 DEF Range
<1>6. \A i \in 1..n : i \in 1..(n + m)
  BY <1>1
<1>7. \A i \in 1..m : n + i \in 1..(n + m)
  BY <1>1
<1>8. \A i \in 1..(n + m) : (i <= n => i \in 1..n) /\ (~(i <= n) => i - n \in 1..m)
  BY <1>1
<1>9. Range(b) = Range(g) \cup Range(c)
  <2>1. Range(g) \subseteq Range(b)
    BY <1>4, <1>5, <1>6
  <2>2. Range(c) \subseteq Range(b)
    BY <1>4, <1>5, <1>7
  <2>3. Range(b) \subseteq Range(g) \cup Range(c)
    BY <1>4, <1>5, <1>8
  <2> QED
    BY <2>1, <2>2, <2>3
<1>10. Range(b) \subseteq 1..5
  <2>1. (\A i \in 1..n : g[i] \in 1..5) /\ \A i \in 1..m : c[i] \in 1..5
    BY <1>1
  <2>2. (\A x \in Range(g) : x \in 1..5) /\ \A x \in Range(c) : x \in 1..5
    BY <1>5, <2>1
  <2> QED
    BY <1>9, <2>2
<1> DEFINE f == [i \in 1..(n + m) |-> Abs(Away(b[i]))]  S == {Abs(Away(v)) : v \in Range(b)}
<1>11. ASSUME NEW v \in 1..5 PROVE Abs(Away(v)) \in Nat
  <2>1. CountTo(g, v) \in Int /\ CountTo(c, v) \in Int
    <3>1. n \in Nat /\ m \in Nat /\ v \in Int
      BY <1>1
    <3>2. CountTo(g, v) \in 0..n /\ CountTo(c, v) \in 0..m
      BY <1>1, <3>1, CountToIs
    <3> QED
      BY <3>1, <3>2
  <2>2. Away(v) = CountTo(g, v) * m - CountTo(c, v) * n
    BY DEF Away, g, c, n, m
  <2> DEFINE x == CountTo(g, v)  y == CountTo(c, v)
  <2> HIDE DEF x, y
  <2>3. x * m - y * n \in Int
    BY <1>1, <2>1 DEF x, y
  <2>4. Away(v) \in Int
    BY <2>2, <2>3 DEF x, y
  <2> QED
    BY <2>4, AbsIs
<1>12. \A i \in 1..(n + m) : b[i] \in 1..5 /\ b[i] \in Range(b)
  BY <1>5, <1>10
<1>13. f \in [1..(n + m) -> Int] /\ \A i \in 1..(n + m) : f[i] = Abs(Away(b[i]))
  BY <1>11, <1>12
<1>14. S = {f[i] : i \in 1..(n + m)}
  BY <1>5, <1>13
<1>15. Gap = Most(S)
  BY DEF Gap, Away, b, g, c, n, m
<1> DEFINE k == n + m
<1>16. k \in Nat \ {0}
  BY <1>1
<1>17. Most(S) \in S /\ \A x \in S : Most(S) >= x
  <2>1. f \in [1..k -> Int] /\ S = {f[i] : i \in 1..k}
    BY <1>13, <1>14
  <2> HIDE DEF f, S, k
  <2> QED
    BY <1>16, <2>1, Extremes
<1>18. PICK v \in Range(b) : Most(S) = Abs(Away(v))
  BY <1>17
<1>19. Most(S) \in Nat
  BY <1>10, <1>11, <1>18
<1>20. ASSUME NEW w \in Range(b) PROVE Abs(Away(w)) <= Most(S)
  <2>1. Abs(Away(w)) \in S /\ Abs(Away(w)) \in Nat
    BY <1>10, <1>11
  <2>2. Most(S) >= Abs(Away(w))
    BY <1>17, <2>1
  <2> HIDE DEF S
  <2> QED
    BY <1>19, <2>1, <2>2
<1> HIDE DEF S
<1> QED
  BY <1>5, <1>9, <1>10, <1>15, <1>18, <1>19, <1>20 DEF b, g, c, n, m

LEMMA AwayIs ==
  ASSUME TwoSamples, NEW v \in Int
  PROVE  /\ Away(v) \in Int
         /\ CountTo(given, v) \in 0..Len(given) /\ CountTo(Current, v) \in 0..Len(Current)
         /\ Away(v) = 0 <=> CountTo(given, v) * Len(Current) = CountTo(Current, v) * Len(given)
<1> DEFINE n == Len(given)  m == Len(Current)  x == CountTo(given, v)  y == CountTo(Current, v)
<1>1. n \in Nat /\ m \in Nat /\ x \in 0..n /\ y \in 0..m
  <2>1. n \in Nat /\ m \in Nat /\ given \in [1..n -> 1..5] /\ Current \in [1..m -> 1..5]
    BY DEF TwoSamples
  <2> QED
    BY <2>1, CountToIs
<1>2. Away(v) = x * m - y * n
  BY DEF Away
<1> HIDE DEF n, m, x, y
<1>3. x * m \in Int /\ y * n \in Int
  BY <1>1
<1> QED
  BY <1>1, <1>2, <1>3 DEF n, m, x, y

LEMMA SameIsNear ==
  ASSUME TwoSamples, SameShares(Len(given), given, Len(Current), Current), NEW v \in Int
  PROVE  Away(v) = 0
<1> DEFINE n == Len(given)  m == Len(Current)
<1>1. n \in Nat /\ m \in Nat /\ given \in [1..n -> 1..5] /\ Current \in [1..m -> 1..5]
  BY DEF TwoSamples
<1>2. Among(n, given, UpTo(v)) * m = Among(m, Current, UpTo(v)) * n
  BY <1>1, SharesAgree
<1>3. CountTo(given, v) = Among(n, given, UpTo(v)) /\ CountTo(Current, v) = Among(m, Current, UpTo(v))
  <2> HIDE DEF n, m
  <2>1. CountTo(given, v) = Among(n, given, UpTo(v))
    BY <1>1, CountToIs
  <2>2. CountTo(Current, v) = Among(m, Current, UpTo(v))
    BY <1>1, CountToIs
  <2> QED
    BY <2>1, <2>2
<1> QED
  BY <1>2, <1>3, AwayIs

LEMMA NeverIs ==
  ASSUME NEW n \in Nat, NEW s, NEW v, \A i \in 1..n : s[i] # v
  PROVE  Often(n, s, v) = 0
<1>1. {i \in 1..n : s[i] = v} = {}
  OBVIOUS
<1> QED
  BY <1>1, FS_EmptySet DEF Often

LEMMA NearIsSame ==
  ASSUME TwoSamples, Gap = 0
  PROVE  SameShares(Len(given), given, Len(Current), Current)
<1> DEFINE n == Len(given)  m == Len(Current)  all == Range(given \o Current)
<1>1. n \in Nat /\ m \in Nat /\ given \in [1..n -> 1..5] /\ Current \in [1..m -> 1..5]
  BY DEF TwoSamples
<1>2. /\ (\A i \in 1..n : given[i] \in all) /\ \A i \in 1..m : Current[i] \in all
      /\ all \subseteq 1..5
  BY GapIs
<1>3. ASSUME NEW v \in all PROVE Away(v) = 0
  <2>1. v \in Int
    BY <1>2
  <2>2. Away(v) \in Int
    BY <2>1, AwayIs
  <2>3. Abs(Away(v)) <= 0
    BY GapIs
  <2>4. Abs(Away(v)) \in Nat /\ (Abs(Away(v)) = 0 <=> Away(v) = 0)
    BY <2>2, AbsIs
  <2> QED
    BY <2>3, <2>4
<1> HIDE DEF n, m, all
<1> DEFINE S == {w \in Nat : Away(w) = 0}
<1>4. ASSUME NEW w \in Int
      PROVE  /\ CountTo(given, w) = CountTo(given, w - 1) + Often(n, given, w)
             /\ CountTo(Current, w) = CountTo(Current, w - 1) + Often(m, Current, w)
             /\ CountTo(given, w) \in Nat /\ CountTo(Current, w) \in Nat
             /\ CountTo(given, w - 1) \in Nat /\ CountTo(Current, w - 1) \in Nat
             /\ Often(n, given, w) \in Nat /\ Often(m, Current, w) \in Nat
             /\ Away(w) = 0 <=> CountTo(given, w) * m = CountTo(Current, w) * n
             /\ Away(w - 1) = 0 <=> CountTo(given, w - 1) * m = CountTo(Current, w - 1) * n
  <2>1. w - 1 \in Int
    OBVIOUS
  <2>2. /\ CountTo(given, w) = CountTo(given, w - 1) + Often(n, given, w)
        /\ CountTo(Current, w) = CountTo(Current, w - 1) + Often(m, Current, w)
        /\ Often(n, given, w) \in Nat /\ Often(m, Current, w) \in Nat
    BY <1>1, CountToIs, OftenIs
  <2>3. ASSUME NEW x \in Int
        PROVE  /\ CountTo(given, x) \in Nat /\ CountTo(Current, x) \in Nat
               /\ Away(x) = 0 <=> CountTo(given, x) * m = CountTo(Current, x) * n
    <3>1. /\ CountTo(given, x) \in 0..n /\ CountTo(Current, x) \in 0..m
          /\ Away(x) = 0 <=> CountTo(given, x) * m = CountTo(Current, x) * n
      BY AwayIs DEF n, m
    <3> QED
      BY <1>1, <3>1
  <2> QED
    BY <2>1, <2>2, <2>3
<1>5. 0 \in S
  <2>1. (\A i \in 1..n : given[i] > 0) /\ \A i \in 1..m : Current[i] > 0
    <3>1. (\A i \in 1..n : given[i] \in 1..5) /\ \A i \in 1..m : Current[i] \in 1..5
      BY <1>1
    <3> QED
      BY <3>1
  <2> DEFINE v == 0
  <2>2. v \in Int /\ (\A i \in 1..n : given[i] > v) /\ \A i \in 1..m : Current[i] > v
    BY <2>1
  <2> HIDE DEF v
  <2>3. CountTo(given, v) = 0 /\ CountTo(Current, v) = 0
    BY <1>1, <2>2, CountToIs
  <2>4. Away(v) = 0
    BY <1>1, <1>4, <2>2, <2>3
  <2> QED
    BY <2>4 DEF v
<1>6. ASSUME NEW u \in Nat, u \in S PROVE u + 1 \in S
  <2> DEFINE w == u + 1
  <2>1. w \in Nat /\ w \in Int /\ w - 1 = u
    OBVIOUS
  <2>2. Away(w - 1) = 0
    BY <1>6, <2>1
  <2>3. CASE w \in all
    BY <1>3, <2>1, <2>3
  <2>4. CASE w \notin all
    <3>1. Often(n, given, w) = 0 /\ Often(m, Current, w) = 0
      BY <1>1, <1>2, <2>4, NeverIs
    <3>2. CountTo(given, w) = CountTo(given, w - 1) /\ CountTo(Current, w) = CountTo(Current, w - 1)
      BY <1>4, <2>1, <3>1
    <3>3. CountTo(given, w - 1) * m = CountTo(Current, w - 1) * n
      BY <1>4, <2>1, <2>2
    <3>4. Away(w) = 0
      BY <1>4, <2>1, <3>2, <3>3
    <3> QED
      BY <2>1, <3>4
  <2> QED
    BY <2>3, <2>4
<1>7. Nat \subseteq S
  <2> HIDE DEF S
  <2> QED
    BY <1>5, <1>6, NaturalNumbers
<1>8. ASSUME NEW v \in 1..5 PROVE Often(n, given, v) * m = Often(m, Current, v) * n
  <2>1. v \in Int /\ v \in S /\ v - 1 \in S
    BY <1>7
  <2> DEFINE a == CountTo(given, v)  b == CountTo(given, v - 1)  e == Often(n, given, v)
             c == CountTo(Current, v)  d == CountTo(Current, v - 1)  f == Often(m, Current, v)
  <2>2. /\ a \in Nat /\ b \in Nat /\ c \in Nat /\ d \in Nat /\ e \in Nat /\ f \in Nat
        /\ a = b + e /\ c = d + f /\ a * m = c * n /\ b * m = d * n
    BY <1>4, <2>1
  <2> HIDE DEF a, b, c, d, e, f
  <2>3. (b + e) * m = b * m + e * m /\ (d + f) * n = d * n + f * n
    BY <1>1, <2>2
  <2>4. b * m \in Int /\ e * m \in Int /\ f * n \in Int /\ d * n \in Int
    BY <1>1, <2>2
  <2>5. e * m = f * n
    <3>1. (b + e) * m = (d + f) * n
      BY <2>2
    <3> DEFINE p == b * m  q == e * m  r == f * n  t == d * n
    <3>2. p + q = t + r /\ p = t
      BY <2>2, <2>3, <3>1
    <3>3. p \in Int /\ q \in Int /\ r \in Int /\ t \in Int
      BY <2>4
    <3> HIDE DEF p, q, r, t
    <3>4. q = r
      BY <3>2, <3>3
    <3> QED
      BY <3>4 DEF q, r
  <2> QED
    BY <2>5 DEF e, f
<1> QED
  BY <1>1, <1>8 DEF SameShares, n, m

(* Equal shares of two numbers differ by no more than the numbers.         *)
LEMMA SharesAreNear ==
  ASSUME NEW n \in Nat, NEW m \in 0..n, NEW a \in 0..n, NEW b \in 0..m, a * m = b * n
  PROVE  a - b \in 0..(n - m)
<1>1. CASE n = 0
  BY <1>1
<1>2. CASE n > 0
  <2>1. n * b <= n * a
    <3>1. a * m <= a * n
      BY SmallerTimes
    <3> QED
      BY <3>1
  <2>2. b <= a
    BY <1>2, <2>1, Cancel
  <2>3. n * (a - b) <= n * (n - m)
    <3>1. (n - m) * a <= (n - m) * n
      BY SmallerTimes
    <3>2. (n - m) * a = n * a - a * m /\ (n - m) * n = n * (n - m) /\ n * (a - b) = n * a - b * n
      OBVIOUS
    <3> QED
      BY <3>1, <3>2
  <2>4. a - b <= n - m
    BY <1>2, <2>3, Cancel
  <2> QED
    BY <2>2, <2>4
<1> QED
  BY <1>1, <1>2

(* Shift, of a of n scores and b of m.                                     *)
ShiftOf(n, m, a, b, bins) ==
  (10000 * a + 1) * (10000 * m + bins) - (10000 * b + 1) * (10000 * n + bins)

(* What the smoothing makes of equal shares.                               *)
LEMMA SmoothingIsSmall ==
  ASSUME NEW n \in Nat, NEW m \in Nat, NEW a \in 0..n, NEW b \in 0..m, a * m = b * n,
         NEW bins \in Nat \ {0}
  PROVE  Abs(ShiftOf(n, m, a, b, bins)) <= 10000 * bins * Abs(n - m)
<1> DEFINE d == a - b
           e == n - m
<1>1. (10000 * a + 1) * (10000 * m + bins) - (10000 * b + 1) * (10000 * n + bins)
        = 10000 * (bins * d - e)
  <2>1. (10000 * a + 1) * (10000 * m + bins)
          = 100000000 * (a * m) + 10000 * (bins * a) + 10000 * m + bins
    OBVIOUS
  <2>2. (10000 * b + 1) * (10000 * n + bins)
          = 100000000 * (b * n) + 10000 * (bins * b) + 10000 * n + bins
    OBVIOUS
  <2>3. bins * d = bins * a - bins * b
    OBVIOUS
  <2> DEFINE p == a * m
             r == bins * a
             s == bins * b
  <2>4. p \in Int /\ r \in Int /\ s \in Int
    OBVIOUS
  <2> HIDE DEF p, r, s
  <2>5. 100000000 * p + 10000 * r + 10000 * m + bins - (100000000 * p + 10000 * s + 10000 * n + bins)
          = 10000 * ((r - s) - (n - m))
    BY <2>4
  <2> QED
    BY <2>1, <2>2, <2>3, <2>5 DEF p, r, s
<1>2. d \in Int /\ e \in Int /\ (d \in 0..e \/ (-d) \in 0..(-e))
  <2>1. CASE m <= n
    BY <2>1, SharesAreNear
  <2>2. CASE n < m
    <3>1. n \in 0..m /\ b * n = a * m
      BY <2>2
    <3>2. b - a \in 0..(m - n)
      BY <3>1, SharesAreNear
    <3> QED
      BY <3>2
  <2> QED
    BY <2>1, <2>2
<1> HIDE DEF d, e
<1>3. Abs(bins * d - e) <= bins * Abs(e) /\ bins * d - e \in Int
  <2>1. CASE d \in 0..e
    <3>1. bins * 0 <= bins * d /\ bins * d <= bins * e /\ e * 1 <= e * bins
      BY <1>2, <2>1, SmallerTimes
    <3>2. bins * d \in Int /\ bins * e \in Int /\ e * bins = bins * e
      BY <1>2
    <3>3. Abs(e) = e
      BY <2>1, <1>2 DEF Abs
    <3> QED
      BY <1>2, <2>1, <3>1, <3>2, <3>3 DEF Abs
  <2>2. CASE (-d) \in 0..(-e)
    <3>1. bins * 0 <= bins * (-d) /\ bins * (-d) <= bins * (-e) /\ (-e) * 1 <= (-e) * bins
      BY <1>2, <2>2, SmallerTimes
    <3>2. bins * d \in Int /\ bins * (-d) = -(bins * d) /\ (-e) * bins = bins * (-e) /\ bins * (-e) \in Int
      BY <1>2
    <3>3. Abs(e) = -e
      BY <2>2, <1>2 DEF Abs
    <3> QED
      BY <1>2, <2>2, <3>1, <3>2, <3>3 DEF Abs
  <2> QED
    BY <1>2, <2>1, <2>2
<1>4. Abs(10000 * (bins * d - e)) <= 10000 * bins * Abs(e)
  <2> DEFINE x == bins * d - e
             y == bins * Abs(e)
  <2>1. Abs(e) \in Nat
    BY <1>2 DEF Abs
  <2>2. x \in Int /\ y \in Int /\ Abs(x) <= y /\ 10000 * bins * Abs(e) = 10000 * y
    BY <1>3, <2>1
  <2> HIDE DEF x, y
  <2>3. Abs(10000 * x) <= 10000 * y
    BY <2>2 DEF Abs
  <2> QED
    BY <2>2, <2>3 DEF x
<1> QED
  BY <1>1, <1>4 DEF e, ShiftOf

(* No bin has moved by more than the smoothing makes of the lengths.        *)
Still ==
  \A k \in 1..Bins : Abs(Shift(k)) <= 10000 * Bins * Abs(Len(given) - Len(Current))

(* Samples with the same shares have the same shares of every bin, up to   *)
(* the smoothing.                                                          *)
LEMMA NothingShifts ==
  ASSUME TwoSamples, SameShares(Len(given), given, Len(Current), Current)
  PROVE  Still
<1> DEFINE n == Len(given)  m == Len(Current)
<1>1. n \in Nat /\ m \in Nat /\ given \in [1..n -> 1..5] /\ Current \in [1..m -> 1..5]
  BY DEF TwoSamples
<1>2. ASSUME NEW k \in 1..Bins PROVE InBin(given, k) * m = InBin(Current, k) * n
  <2> DEFINE T == {x \in 1..5 : Bin(x) = k}
  <2>1. Among(n, given, T) * m = Among(m, Current, T) * n
    BY <1>1, SharesAgree
  <2>2. ASSUME NEW j \in Nat, NEW s \in [1..j -> 1..5] PROVE InBin(s, k) = Among(j, s, T)
    <3>1. {i \in DOMAIN s : Bin(s[i]) = k} = {i \in 1..j : s[i] \in T}
      OBVIOUS
    <3> QED
      BY <3>1 DEF InBin, Among
  <2> HIDE DEF T
  <2> QED
    BY <1>1, <2>1, <2>2
<1> SUFFICES ASSUME NEW k \in 1..Bins
             PROVE  Abs(Shift(k)) <= 10000 * Bins * Abs(n - m)
  BY DEF Still
<1>3. ASSUME NEW j \in Nat, NEW s \in [1..j -> 1..5] PROVE InBin(s, k) \in 0..j
  <2> DEFINE T == {i \in 1..j : Bin(s[i]) = k}
  <2>1. T \subseteq 1..j /\ IsFiniteSet(1..j) /\ Cardinality(1..j) = j
    BY FS_Interval
  <2>2. IsFiniteSet(T) /\ Cardinality(T) <= j /\ Cardinality(T) \in Nat
    BY <2>1, FS_Subset, FS_CardinalityType
  <2>3. InBin(s, k) = Cardinality(T)
    BY DEF InBin
  <2> HIDE DEF T
  <2> QED
    BY <2>2, <2>3
<1>4. InBin(given, k) \in 0..n /\ InBin(Current, k) \in 0..m
  BY <1>1, <1>3
<1>5. Bins \in Nat \ {0}
  BY AssessmentAssumption
<1>6. InBin(given, k) * m = InBin(Current, k) * n
  BY <1>2
<1> DEFINE a == InBin(given, k)
           b == InBin(Current, k)
<1>7. Shift(k) = ShiftOf(n, m, a, b, Bins)
  BY DEF Shift, ShiftOf
<1> HIDE DEF a, b, n, m
<1>8. Abs(ShiftOf(n, m, a, b, Bins)) <= 10000 * Bins * Abs(n - m)
  <2>1. n \in Nat /\ m \in Nat /\ a \in 0..n /\ b \in 0..m /\ a * m = b * n
    BY <1>1, <1>4, <1>6 DEF a, b
  <2> QED
    BY <1>5, <2>1, SmoothingIsSmall
<1> QED
  BY <1>7, <1>8

(* Two counts can differ by no more than the product of what they count.   *)
LEMMA Farthest ==
  ASSUME NEW n \in Nat \ {0}, NEW m \in Nat \ {0}, NEW a \in 0..n, NEW b \in 0..m
  PROVE  /\ a * m - b * n <= n * m /\ -(n * m) <= a * m - b * n
         /\ a * m - b * n = n * m => a = n /\ b = 0
         /\ a * m - b * n = -(n * m) => a = 0 /\ b = m
<1> DEFINE c == n - a  d == m - b  x == a * m  y == b * n  p == c * m  q == d * n  z == n * m
<1>1. c \in Nat /\ d \in Nat /\ a \in Nat /\ b \in Nat
  OBVIOUS
<1>2. x + p = z /\ y + q = z
  <2>1. a * m + (n - a) * m = n * m /\ b * n + (m - b) * n = n * m
    OBVIOUS
  <2> QED
    BY <2>1
<1>3. \A u \in Nat, w \in Nat \ {0} : u * w \in Nat /\ (u * w = 0 => u = 0)
  OBVIOUS
<1>4. /\ x \in Nat /\ y \in Nat /\ p \in Nat /\ q \in Nat /\ z \in Nat
      /\ x = 0 => a = 0
      /\ y = 0 => b = 0
      /\ p = 0 => c = 0
      /\ q = 0 => d = 0
  <2> HIDE DEF c, d
  <2> QED
    BY <1>1, <1>3
<1> HIDE DEF x, y, z, p, q
<1>5. /\ x - y <= z /\ -z <= x - y
      /\ x - y = z => a = n /\ b = 0
      /\ x - y = -z => a = 0 /\ b = m
  <2>1. x - y = z => p = 0 /\ y = 0
    BY <1>2, <1>4
  <2>2. x - y = -z => x = 0 /\ q = 0
    BY <1>2, <1>4
  <2> QED
    BY <1>2, <1>4, <2>1, <2>2
<1> QED
  BY <1>5 DEF x, y, z

LEMMA FarIs ==
  ASSUME TwoSamples, NEW v \in Int
  PROVE  LET n == Len(given)  m == Len(Current) IN
           /\ Abs(Away(v)) <= n * m
           /\ Abs(Away(v)) = n * m =>
                \/ (\A i \in 1..n : given[i] <= v) /\ \A i \in 1..m : Current[i] > v
                \/ (\A i \in 1..n : given[i] > v) /\ \A i \in 1..m : Current[i] <= v
           /\ (\A i \in 1..n : given[i] <= v) /\ (\A i \in 1..m : Current[i] > v)
                => Abs(Away(v)) >= n * m
           /\ (\A i \in 1..n : given[i] > v) /\ (\A i \in 1..m : Current[i] <= v)
                => Abs(Away(v)) >= n * m
<1> DEFINE n == Len(given)  m == Len(Current)  a == CountTo(given, v)  b == CountTo(Current, v)
           x == Away(v)  z == n * m
<1>1. n \in Nat \ {0} /\ m \in Nat \ {0} /\ given \in [1..n -> 1..5] /\ Current \in [1..m -> 1..5]
  BY DEF TwoSamples
<1>2. /\ a \in 0..n /\ b \in 0..m /\ n \in Nat /\ m \in Nat
      /\ a = n <=> \A i \in 1..n : given[i] <= v
      /\ a = 0 <=> \A i \in 1..n : given[i] > v
      /\ b = m <=> \A i \in 1..m : Current[i] <= v
      /\ b = 0 <=> \A i \in 1..m : Current[i] > v
  BY <1>1, CountToIs
<1>3. x = a * m - b * n
  BY DEF Away
<1> HIDE DEF n, m, a, b
<1>4. /\ x <= z /\ -z <= x
      /\ x = z => a = n /\ b = 0
      /\ x = -z => a = 0 /\ b = m
  <2>1. /\ a * m - b * n <= n * m /\ -(n * m) <= a * m - b * n
        /\ a * m - b * n = n * m => a = n /\ b = 0
        /\ a * m - b * n = -(n * m) => a = 0 /\ b = m
    BY <1>1, <1>2, Farthest
  <2> DEFINE y == a * m - b * n
  <2>2. x = y
    BY <1>3
  <2>3. /\ y <= z /\ -z <= y
        /\ y = z => a = n /\ b = 0
        /\ y = -z => a = 0 /\ b = m
    BY <2>1
  <2> HIDE DEF x, y, z
  <2> QED
    BY <2>2, <2>3
<1>5. x \in Int /\ z \in Int
  BY <1>1, <1>2, <1>3
<1>6. a = n /\ b = 0 => x = z
  <2>1. n * m - 0 * n = n * m
    BY <1>1
  <2> QED
    BY <1>3, <2>1
<1>7. a = 0 /\ b = m => x = -z
  <2>1. 0 * m - m * n = -(n * m)
    BY <1>1
  <2> QED
    BY <1>3, <2>1
<1> HIDE DEF x, z
<1>8. Abs(x) \in Nat /\ (Abs(x) = x \/ Abs(x) = -x) /\ x <= Abs(x) /\ -x <= Abs(x)
  BY <1>5, AbsIs
<1>9. /\ Abs(x) <= z
      /\ Abs(x) = z => (a = n /\ b = 0) \/ (a = 0 /\ b = m)
      /\ a = n /\ b = 0 => Abs(x) >= z
      /\ a = 0 /\ b = m => Abs(x) >= z
  BY <1>4, <1>5, <1>6, <1>7, <1>8
<1> QED
  BY <1>2, <1>9 DEF x, z, n, m

LEMMA GapOfApart ==
  ASSUME TwoSamples
  PROVE  Gap = Len(given) * Len(Current) <=>
           \/ \A x \in Range(given), y \in Range(Current) : x < y
           \/ \A x \in Range(given), y \in Range(Current) : y < x
<1> DEFINE n == Len(given)  m == Len(Current)  all == Range(given \o Current)
           A == Range(given)  B == Range(Current)
<1>1. /\ n \in Nat \ {0} /\ m \in Nat \ {0}
      /\ given \in [1..n -> 1..5] /\ Current \in [1..m -> 1..5]
  BY DEF TwoSamples
<1>2. /\ all = A \cup B /\ A = {given[i] : i \in 1..n} /\ B = {Current[i] : i \in 1..m}
      /\ all \subseteq 1..5 /\ Gap \in Nat
  BY GapIs
<1>3. PICK v \in all : Gap = Abs(Away(v))
  BY GapIs
<1>4. \A w \in all : Abs(Away(w)) <= Gap
  BY GapIs
<1>5. \A w \in all : w \in Int
  <2> HIDE DEF all, A, B, n, m
  <2> QED
    BY <1>2
<1>6. ASSUME NEW w \in Int
      PROVE  /\ Abs(Away(w)) <= n * m
             /\ Abs(Away(w)) = n * m =>
                  \/ (\A x \in A : x <= w) /\ \A y \in B : y > w
                  \/ (\A x \in A : x > w) /\ \A y \in B : y <= w
             /\ (\A x \in A : x <= w) /\ (\A y \in B : y > w) => Abs(Away(w)) >= n * m
             /\ (\A x \in A : x > w) /\ (\A y \in B : y <= w) => Abs(Away(w)) >= n * m
  <2>2. /\ (\A x \in A : x <= w) <=> \A i \in 1..n : given[i] <= w
        /\ (\A x \in A : x > w) <=> \A i \in 1..n : given[i] > w
        /\ (\A y \in B : y <= w) <=> \A i \in 1..m : Current[i] <= w
        /\ (\A y \in B : y > w) <=> \A i \in 1..m : Current[i] > w
    <3> HIDE DEF A, B, n, m
    <3> QED
      BY <1>2
  <2> HIDE DEF A, B
  <2> QED
    BY <2>2, FarIs
<1>7. n * m \in Nat
  BY <1>1
<1>8. /\ Most(A) \in A /\ \A x \in A : x <= Most(A)
      /\ Most(B) \in B /\ \A y \in B : y <= Most(B)
  <2>1. ASSUME NEW k \in Nat \ {0}, NEW s \in [1..k -> 1..5], NEW S, S = {s[i] : i \in 1..k}
        PROVE  Most(S) \in S /\ \A x \in S : x <= Most(S)
    <3>1. s \in [1..k -> Int]
      OBVIOUS
    <3>2. Most(S) \in S /\ \A x \in S : Most(S) >= x
      BY <2>1, <3>1, Extremes
    <3>3. \A x \in S : x \in Int
      BY <2>1
    <3> QED
      BY <3>2, <3>3
  <2> HIDE DEF A, B, n, m
  <2> QED
    BY <1>1, <1>2, <2>1
<1> HIDE DEF n, m, all, A, B
<1>9. ASSUME Gap = n * m
      PROVE  (\A x \in A, y \in B : x < y) \/ \A x \in A, y \in B : y < x
  <2>1. v \in Int
    BY <1>5
  <2>2. \/ (\A x \in A : x <= v) /\ \A y \in B : y > v
        \/ (\A x \in A : x > v) /\ \A y \in B : y <= v
    BY <1>3, <1>6, <1>9, <2>1
  <2>3. (\A x \in A : x \in Int) /\ \A y \in B : y \in Int
    BY <1>2, <1>5
  <2> QED
    BY <2>1, <2>2, <2>3
<1>10. ASSUME NEW w \in all, Abs(Away(w)) >= n * m PROVE Gap = n * m
  <2>1. Gap <= n * m
    BY <1>3, <1>5, <1>6
  <2>2. w \in Int
    BY <1>5
  <2>3. Away(w) \in Int
    BY <2>2, AwayIs
  <2>4. Abs(Away(w)) \in Nat
    BY <2>3, AbsIs
  <2> QED
    BY <1>2, <1>4, <1>7, <1>10, <2>1, <2>4
<1>11. ASSUME \A x \in A, y \in B : x < y PROVE Gap = n * m
  <2> DEFINE w == Most(A)
  <2>1. w \in all /\ w \in Int
    BY <1>2, <1>5, <1>8
  <2>2. (\A x \in A : x <= w) /\ \A y \in B : y > w
    <3>1. \A y \in B : y \in Int
      BY <1>2, <1>5
    <3>2. \A y \in B : w < y
      BY <1>8, <1>11
    <3> QED
      BY <1>8, <2>1, <3>1, <3>2
  <2> HIDE DEF w
  <2> QED
    BY <1>6, <1>10, <2>1, <2>2
<1>12. ASSUME \A x \in A, y \in B : y < x PROVE Gap = n * m
  <2> DEFINE w == Most(B)
  <2>1. w \in all /\ w \in Int
    BY <1>2, <1>5, <1>8
  <2>2. (\A x \in A : x > w) /\ \A y \in B : y <= w
    <3>1. \A x \in A : x \in Int
      BY <1>2, <1>5
    <3>2. \A x \in A : w < x
      BY <1>8, <1>12
    <3> QED
      BY <1>8, <2>1, <3>1, <3>2
  <2> HIDE DEF w
  <2> QED
    BY <1>6, <1>10, <2>1, <2>2
<1> QED
  BY <1>9, <1>11, <1>12 DEF n, m, A, B

LEMMA CurrentIs ==
  ASSUME data \in Seq(Grades)
  PROVE  /\ Current = IF Len(data) < History THEN data ELSE LastOf(data, History)
         /\ Current \in Seq(Grades)
<1>1. History \in Nat \ {0} /\ Len(data) \in Nat
  BY AssessmentAssumption
<1>2. CASE Len(data) < History
  <2>1. Len(data) - Len(data) + 1 = 1
    BY <1>1
  <2>2. Current = SubSeq(data, 1, Len(data))
    BY <1>2, <2>1 DEF Current, LastOf
  <2>3. SubSeq(data, 1, Len(data)) = data
    OBVIOUS
  <2> QED
    BY <1>2, <2>2, <2>3
<1>3. CASE ~(Len(data) < History)
  <2>1. Current = LastOf(data, History)
    BY <1>3 DEF Current
  <2> DEFINE a == Len(data) - History + 1
  <2>2. a \in 1..Len(data)
    BY <1>1, <1>3
  <2>3. SubSeq(data, a, Len(data)) \in Seq(Grades)
    <3> HIDE DEF a
    <3> QED
      BY <1>1, <2>2
  <2> QED
    BY <1>3, <2>1, <2>3 DEF LastOf
<1> QED
  BY <1>2, <1>3

LEMMA SamplesAre ==
  ASSUME NEW k \in Nat, given \in [1..k -> Grades], data \in Seq(Grades), HasSufficientData
  PROVE  /\ TwoSamples
         /\ DOMAIN given = 1..Len(given) /\ DOMAIN Current = 1..Len(Current)
         /\ \A v : v \notin Grades => /\ Often(Len(given), given, v) = 0
                                      /\ Often(Len(Current), Current, v) = 0
<1>1. Sample \in Nat \ {0} /\ \A v \in Grades : v \in 1..5
  BY AssessmentAssumption
<1>2. k = Len(given)
  OBVIOUS
<1>3. Current \in Seq(Grades)
  BY CurrentIs
<1>4. Len(Current) \in Nat /\ Current \in [1..Len(Current) -> Grades]
  BY <1>3
<1>5. Len(given) >= Sample /\ Len(Current) >= Sample
  BY DEF HasSufficientData
<1>6. TwoSamples
  <2>1. Len(given) \in Nat \ {0} /\ Len(Current) \in Nat \ {0}
    BY <1>1, <1>2, <1>4, <1>5
  <2>2. \A j \in Nat : \A s \in [1..j -> Grades] : s \in [1..j -> 1..5]
    BY <1>1
  <2> QED
    BY <1>2, <1>4, <2>1, <2>2 DEF TwoSamples
<1>7. ASSUME NEW v, v \notin Grades
      PROVE  Often(Len(given), given, v) = 0 /\ Often(Len(Current), Current, v) = 0
  <2>1. (\A i \in 1..Len(given) : given[i] # v) /\ \A i \in 1..Len(Current) : Current[i] # v
    BY <1>2, <1>4, <1>7
  <2> QED
    BY <1>2, <1>4, <2>1, NeverIs
<1> QED
  BY <1>2, <1>4, <1>6, <1>7

LEMMA DriftFollows ==
  ASSUME study = "drift" => data \in Seq(Grades) /\ \E k \in Nat : given \in [1..k -> Grades]
  PROVE  DriftIsMeasured
<1> SUFFICES ASSUME study = "drift", HasSufficientData PROVE DriftIsMeasured
  BY DEF DriftIsMeasured
<1>1. PICK k \in Nat : given \in [1..k -> Grades]
  OBVIOUS
<1>2. data \in Seq(Grades)
  OBVIOUS
<1>3. Current = IF Len(data) < History THEN data ELSE LastOf(data, History)
  BY <1>2, CurrentIs
<1>4. /\ TwoSamples
      /\ DOMAIN given = 1..Len(given) /\ DOMAIN Current = 1..Len(Current)
      /\ \A v : v \notin Grades => /\ Often(Len(given), given, v) = 0
                                   /\ Often(Len(Current), Current, v) = 0
  BY <1>1, <1>2, SamplesAre
<1> DEFINE n == Len(given)  m == Len(Current)
           share(s, v) == Cardinality({i \in DOMAIN s : s[i] = v})
           same == \A v \in Grades : share(given, v) * m = share(Current, v) * n
           apart == \/ \A x \in Range(given), y \in Range(Current) : x < y
                    \/ \A x \in Range(given), y \in Range(Current) : y < x
<1>5. same <=> SameShares(n, given, m, Current)
  <2>1. \A v : share(given, v) = Often(n, given, v) /\ share(Current, v) = Often(m, Current, v)
    BY <1>4 DEF Often
  <2>2. /\ n \in Nat /\ m \in Nat /\ given \in [1..n -> 1..5] /\ Current \in [1..m -> 1..5]
    BY <1>4 DEF TwoSamples
  <2>3. \A v \in Grades : v \in 1..5
    BY AssessmentAssumption
  <2>4. 0 * m = 0 * n
    <3>1. \A j \in Nat : 0 * j = 0
      OBVIOUS
    <3> HIDE DEF n, m
    <3> QED
      BY <2>2, <3>1
  <2> HIDE DEF share, n, m
  <2>5. ASSUME same, NEW v \in 1..5 PROVE Often(n, given, v) * m = Often(m, Current, v) * n
    <3>1. CASE v \in Grades
      BY <2>1, <2>5, <3>1
    <3>2. CASE v \notin Grades
      <4>1. Often(n, given, v) = 0 /\ Often(m, Current, v) = 0
        BY <1>4, <3>2 DEF n, m
      <4> QED
        BY <2>4, <4>1
    <3> QED
      BY <3>1, <3>2
  <2>6. ASSUME SameShares(n, given, m, Current) PROVE same
    BY <2>1, <2>3, <2>6 DEF SameShares
  <2> QED
    BY <2>2, <2>5, <2>6 DEF SameShares
<1>6. SameShares(n, given, m, Current) => Gap = 0
  <2> SUFFICES ASSUME SameShares(n, given, m, Current) PROVE Gap = 0
    OBVIOUS
  <2>1. PICK v \in Range(given \o Current) : Gap = Abs(Away(v))
    BY <1>4, GapIs
  <2>2. v \in 1..5
    BY <1>4, GapIs
  <2>3. Away(v) = 0
    <3>1. v \in Int
      BY <2>2
    <3> QED
      BY <1>4, <3>1, SameIsNear
  <2> QED
    BY <2>1, <2>3 DEF Abs
<1>7. Gap = 0 => SameShares(n, given, m, Current)
  BY <1>4, NearIsSame
<1>8. SameShares(n, given, m, Current) => Still
  BY <1>4, NothingShifts
<1>9. Gap = n * m <=> apart
  BY <1>4, GapOfApart
<1>10. /\ (Gap = 0) <=> same
       /\ same => Still
       /\ (Gap = n * m) <=> apart
  <2> HIDE DEF same, apart, n, m
  <2> QED
    BY <1>5, <1>6, <1>7, <1>8, <1>9
<1> QED
  BY <1>3, <1>10 DEF DriftIsMeasured, Still
-----------------------------------------------------------------------------
(* What is known of a study.                                               *)
StudyInv ==
  /\ study \in {"policy", "drift", "session", "batch", "anchors"}
  /\ study = "policy"  => LogIs
  /\ study = "drift"   => data \in Seq(Grades) /\ \E k \in Nat : given \in [1..k -> Grades]
  /\ study = "session" => data \in Seq([score : Grades, length : 1..2])
  /\ study = "batch"   => data \in Seq(Grades)
  /\ study = "anchors" => data \in Seq([human : Grades, judge : Grades])

LEMMA StudyStarts == AInit => StudyInv
<1> SUFFICES ASSUME AInit PROVE StudyInv
  OBVIOUS
<1>1. data = <<>> /\ \A S : <<>> \in Seq(S)
  BY DEF AInit
<1>2. /\ DOMAIN SetUps = {"policy", "drift", "session", "batch", "anchors"}
      /\ SetUps["policy"] = [old : Policies, new : Policies, reward : [Acts -> Rewards]]
      /\ SetUps["drift"] = UNION {[1..n -> Grades] : n \in Sample..History}
  BY DEF SetUps
<1>3. study \in {"policy", "drift", "session", "batch", "anchors"} /\ given \in SetUps[study]
  BY <1>2 DEF AInit
<1>4. ASSUME study = "policy" PROVE LogIs
  <2>1. given \in [old : Policies, new : Policies, reward : [Acts -> Rewards]]
    BY <1>2, <1>3, <1>4
  <2>2. ASSUME NEW a \in Acts PROVE Often(Len(data), data, a) <= given.old[a]
    <3>1. Len(data) = 0
      BY <1>1
    <3>2. Often(Len(data), data, a) = 0
      BY <3>1, NeverIs
    <3>3. given.old \in Policies
      BY <2>1
    <3>4. given.old[a] \in 0..Units
      BY <3>3 DEF Policies
    <3> QED
      BY <3>2, <3>4, AssessmentAssumption
  <2> QED
    BY <1>1, <2>1, <2>2 DEF LogIs
<1>5. ASSUME study = "drift" PROVE \E k \in Nat : given \in [1..k -> Grades]
  <2>1. \E k \in Sample..History : given \in [1..k -> Grades]
    BY <1>2, <1>3, <1>5
  <2>2. Sample \in Nat /\ History \in Nat
    BY AssessmentAssumption
  <2> QED
    BY <2>1, <2>2
<1> QED
  BY <1>1, <1>3, <1>4, <1>5 DEF StudyInv

LEMMA StudyKeeps == StudyInv /\ [ANext]_avars => StudyInv'
<1> SUFFICES ASSUME StudyInv, [ANext]_avars PROVE StudyInv'
  OBVIOUS
<1>1. CASE UNCHANGED avars
  BY <1>1 DEF StudyInv, avars, LogIs
<1>2. ASSUME NEW a \in Acts, Log(a) PROVE StudyInv'
  <2>1. study = "policy" /\ study' = study /\ given' = given /\ data' = Append(data, a) /\ LogIs
    BY <1>2 DEF Log, StudyInv
  <2>2. data \in Seq(Acts) /\ data' \in Seq(Acts) /\ Len(data') = Len(data) + 1
    BY <2>1 DEF LogIs
  <2> DEFINE n == Len(data)
  <2>3. n \in Nat /\ (\A i \in 1..n : data'[i] = data[i]) /\ data'[n + 1] = a
    BY <2>1, <2>2
  <2>4. ASSUME NEW b \in Acts PROVE Often(n + 1, data', b) <= given.old[b]
    <3> DEFINE I == {i \in 1..n : data[i] = b}  J == {i \in 1..(n + 1) : data'[i] = b}
    <3>1. IsFiniteSet(I)
      BY <2>3, CountIsSum
    <3>2. Cardinality(I) <= given.old[b]
      BY <2>1 DEF LogIs, Often
    <3>3. CASE b = a
      <4>1. J = I \cup {n + 1} /\ n + 1 \notin I
        BY <2>3, <3>3
      <4>2. DOMAIN data = 1..n
        BY <2>2
      <4>3. Cardinality(I) < given.old[b]
        BY <1>2, <3>3, <4>2 DEF Log
      <4> HIDE DEF I, J
      <4>4. Cardinality(J) = Cardinality(I) + 1 /\ Cardinality(I) \in Nat
        BY <3>1, <4>1, FS_AddElement, FS_CardinalityType
      <4>5. given.old[b] \in Int
        <5>1. given.old \in Policies
          BY <2>1 DEF LogIs
        <5> QED
          BY <5>1 DEF Policies
      <4>6. Cardinality(J) <= given.old[b]
        BY <4>3, <4>4, <4>5
      <4> QED
        BY <4>6 DEF J, Often
    <3>4. CASE b # a
      <4>1. J = I
        BY <2>3, <3>4
      <4> QED
        BY <3>2, <4>1 DEF Often
    <3> QED
      BY <3>3, <3>4
  <2>5. LogIs'
    BY <2>1, <2>2, <2>4 DEF LogIs
  <2> QED
    BY <2>1, <2>5 DEF StudyInv
<1>3. ASSUME NEW x \in Grades, AddScore(x) PROVE StudyInv'
  <2>1. study = "drift" /\ study' = study /\ given' = given /\ data' \in Seq(Grades)
    BY <1>3 DEF AddScore, StudyInv
  <2> QED
    BY <2>1 DEF StudyInv
<1>4. ASSUME NEW x \in Grades, NEW l \in 1..2, RecordScore(x, l) PROVE StudyInv'
  <2> DEFINE R == [score : Grades, length : 1..2]  r == [score |-> x, length |-> l]
  <2>1. study = "session" /\ study' = study /\ data' = Append(data, r) /\ data \in Seq(R)
    BY <1>4 DEF RecordScore, StudyInv
  <2>2. r \in R
    OBVIOUS
  <2>3. data' \in Seq(R)
    <3> HIDE DEF R, r
    <3> QED
      BY <2>1, <2>2
  <2> QED
    BY <2>1, <2>3 DEF StudyInv
<1>5. ASSUME ResetSession PROVE StudyInv'
  BY <1>5 DEF ResetSession, StudyInv
<1>6. ASSUME NEW h \in Grades, NEW j \in Grades, AddAnchor(h, j) PROVE StudyInv'
  <2> DEFINE R == [human : Grades, judge : Grades]  r == [human |-> h, judge |-> j]
  <2>1. study = "anchors" /\ study' = study /\ data' = Append(data, r) /\ data \in Seq(R)
    BY <1>6 DEF AddAnchor, StudyInv
  <2>2. r \in R
    OBVIOUS
  <2>3. data' \in Seq(R)
    <3> HIDE DEF R, r
    <3> QED
      BY <2>1, <2>2
  <2> QED
    BY <2>1, <2>3 DEF StudyInv
<1>7. ASSUME NEW x \in Grades, AddToBatch(x) PROVE StudyInv'
  <2>1. study = "batch" /\ study' = study /\ data' \in Seq(Grades)
    BY <1>7 DEF AddToBatch, StudyInv
  <2> QED
    BY <2>1 DEF StudyInv
<1> QED
  BY <1>1, <1>2, <1>3, <1>4, <1>5, <1>6, <1>7 DEF ANext

LEMMA StudyInvHolds == ASpec => []StudyInv
BY StudyStarts, StudyKeeps, PTL DEF ASpec

(* Off-policy evaluation tells the value of a policy that was never run    *)
(* (rl/evaluation.py): for any number of actions, any policies and rewards *)
(* and any log.                                                            *)
THEOREM EstimatesSound == ASpec => []EstimatesAreSound
<1>1. StudyInv => EstimatesAreSound
  BY EstimatesFollow DEF StudyInv
<1> QED
  BY <1>1, StudyInvHolds, PTL

(* The monitors of the judges say what is true of the scores they saw, for *)
(* any grades, histories and sessions: the drift tests (_drift.py), the    *)
(* session statistics (_bias.py) and both calibrations (_calibration.py).  *)
THEOREM MonitorsSound == ASpec => []MonitorsAreSound
<1>1. StudyInv => MonitorsAreSound
  BY DriftFollows, SessionFollows, CalibrationFollows, BatchFollows DEF StudyInv, MonitorsAreSound
<1> QED
  BY <1>1, StudyInvHolds, PTL
=============================================================================
