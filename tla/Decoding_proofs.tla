---------------------------- MODULE Decoding_proofs ----------------------------
(***************************************************************************)
(* What the helpers of both searches return, for the proofs about them:    *)
(* numbers in their order, and the ranking of the results.                 *)
(***************************************************************************)
EXTENDS Decoding, FiniteSetTheorems, WellFoundedInduction, TLAPS

(* A set of natural numbers has a least one.                               *)
LEMMA LeastNumber == \A T \in SUBSET Nat : T # {} => \E x \in T : \A y \in T : x <= y
<1> SUFFICES ASSUME NEW T \in SUBSET Nat, T # {} PROVE \E x \in T : \A y \in T : x <= y
  OBVIOUS
<1> DEFINE R == OpToRel(<, Nat)
<1>1. \A x, y \in Nat : x < y => <<x, y>> \in R
  BY DEF OpToRel
<1>2. IsWellFoundedOn(R, Nat)
  BY NatLessThanWellFounded
<1> HIDE DEF R
<1>3. PICK x \in T : \A y \in T : <<y, x>> \notin R
  BY <1>2, WFMin
<1>4. ASSUME NEW y \in T PROVE x <= y
  <2>1. x \in Nat /\ y \in Nat
    OBVIOUS
  <2>2. ~(y < x)
    BY <1>1, <1>3, <2>1
  <2> QED
    BY <2>1, <2>2
<1> QED
  BY <1>4

(* A set that has 0 and is closed under the successor up to n has n.       *)
LEMMA Induction ==
  ASSUME NEW n \in Nat, NEW S, 0 \in S, \A m \in 0 .. n - 1 : m \in S => m + 1 \in S
  PROVE  \A m \in 0 .. n : m \in S
<1> DEFINE T == {m \in 0 .. n : m \notin S}
<1> SUFFICES ASSUME T # {} PROVE FALSE
  OBVIOUS
<1>1. T \in SUBSET Nat
  OBVIOUS
<1>2. PICK x \in T : \A y \in T : x <= y
  BY <1>1, LeastNumber
<1>3. x \in 1 .. n /\ x - 1 \in 0 .. n - 1 /\ x \notin S
  BY <1>2
<1>4. x - 1 \in S
  BY <1>2, <1>3
<1> QED
  BY <1>3, <1>4

-----------------------------------------------------------------------------
(* Numbers, and finite sets in an order.                                   *)

Lower(S, before, x) == {y \in S : <<y, x>> \in before}

(* The elements of a finite set that is totally ordered have the ranks     *)
(* 0, 1, ..., and each rank is that of one.                                *)
LEMMA Ranks ==
  ASSUME NEW S, IsFiniteSet(S), NEW before,
         \A x \in S : <<x, x>> \notin before,
         \A x, y \in S : x # y => <<x, y>> \in before \/ <<y, x>> \in before,
         \A x, y, z \in S : <<x, y>> \in before /\ <<y, z>> \in before => <<x, z>> \in before
  PROVE  \A n \in 0 .. Cardinality(S) - 1 :
           \E x \in S : Cardinality(Lower(S, before, x)) = n
<1> DEFINE Below(x) == {y \in S : <<y, x>> \in before}
           f == [x \in S |-> Cardinality(Below(x))]
           C == Cardinality(S)
           R == 0 .. C - 1
<1>1. C \in Nat
  BY FS_CardinalityType
<1>2. IsFiniteSet(R) /\ Cardinality(R) = C
  <2>1. 0 \in Int /\ C - 1 \in Int /\ (IF 0 > C - 1 THEN 0 ELSE (C - 1) - 0 + 1) = C
    BY <1>1
  <2> HIDE DEF C
  <2> QED
    BY <2>1, FS_Interval
<1>3. ASSUME NEW x \in S
      PROVE  IsFiniteSet(Below(x)) /\ Cardinality(Below(x)) \in R
  <2>1. IsFiniteSet(S \ {x}) /\ Cardinality(S \ {x}) = C - 1
    BY FS_RemoveElement
  <2>2. Below(x) \in SUBSET (S \ {x})
    OBVIOUS
  <2>3. IsFiniteSet(Below(x)) /\ Cardinality(Below(x)) <= C - 1
    <3> HIDE DEF Below, C
    <3> QED
      BY <2>1, <2>2, FS_Subset
  <2>4. Cardinality(Below(x)) \in Nat
    BY <2>3, FS_CardinalityType
  <2> QED
    BY <1>1, <2>3, <2>4
<1>4. ASSUME NEW x \in S, NEW y \in S, <<x, y>> \in before
      PROVE  Cardinality(Below(x)) < Cardinality(Below(y))
  <2>1. Below(x) \cup {x} \in SUBSET Below(y)
    BY <1>4
  <2>2. x \notin Below(x)
    OBVIOUS
  <2>3. Cardinality(Below(x) \cup {x}) = Cardinality(Below(x)) + 1
    BY <1>3, <2>2, FS_AddElement
  <2>4. Cardinality(Below(x) \cup {x}) <= Cardinality(Below(y))
    BY <1>3, <2>1, FS_Subset
  <2>5. Cardinality(Below(x)) \in Nat /\ Cardinality(Below(y)) \in Nat
    BY <1>1, <1>3
  <2> QED
    BY <2>3, <2>4, <2>5
<1>5. f \in Injection(S, R)
  <2>1. f \in [S -> R]
    BY <1>3
  <2>2. ASSUME NEW x \in S, NEW y \in S, f[x] = f[y] PROVE x = y
    <3>1. f[x] = Cardinality(Below(x)) /\ f[y] = Cardinality(Below(y))
      OBVIOUS
    <3>2. f[x] \in R /\ f[y] \in R
      BY <1>3
    <3>3. Cardinality(Below(x)) = Cardinality(Below(y)) /\ Cardinality(Below(x)) \in Nat
      BY <1>1, <2>2, <3>1, <3>2
    <3>4. ~(Cardinality(Below(x)) < Cardinality(Below(y)))
      BY <3>3
    <3>5. ~(Cardinality(Below(y)) < Cardinality(Below(x)))
      BY <3>3
    <3> HIDE DEF f, Below, R
    <3> QED
      BY <1>4, <3>4, <3>5
  <2> HIDE DEF f, R
  <2> QED
    BY <2>1, <2>2 DEF Injection, IsInjective
<1>6. f \in Surjection(S, R)
  <2> HIDE DEF f, R
  <2> QED
    BY <1>2, <1>5, FS_Injection
<1> QED
  BY <1>6 DEF Surjection, Lower

(* An element before another one has a lower rank.                         *)
LEMMA RankGrows ==
  ASSUME NEW S, IsFiniteSet(S), NEW before,
         \A x \in S : <<x, x>> \notin before,
         \A x, y, z \in S : <<x, y>> \in before /\ <<y, z>> \in before => <<x, z>> \in before,
         NEW x \in S, NEW y \in S, <<x, y>> \in before
  PROVE  /\ Cardinality(Lower(S, before, x)) \in Nat /\ Cardinality(Lower(S, before, y)) \in Nat
         /\ Cardinality(Lower(S, before, x)) < Cardinality(Lower(S, before, y))
<1> DEFINE Below(a) == {b \in S : <<b, a>> \in before}
<1>1. Below(x) \cup {x} \in SUBSET Below(y) /\ x \notin Below(x)
  OBVIOUS
<1>2. Below(x) \in SUBSET S /\ Below(y) \in SUBSET S
  OBVIOUS
<1>3. Lower(S, before, x) = Below(x) /\ Lower(S, before, y) = Below(y)
  BY DEF Lower
<1> HIDE DEF Below
<1>4. IsFiniteSet(Below(x)) /\ IsFiniteSet(Below(y))
  BY <1>2, FS_Subset
<1>5. Cardinality(Below(x) \cup {x}) = Cardinality(Below(x)) + 1
  BY <1>1, <1>4, FS_AddElement
<1>6. Cardinality(Below(x) \cup {x}) <= Cardinality(Below(y))
  BY <1>1, <1>4, FS_Subset
<1>7. Cardinality(Below(x)) \in Nat /\ Cardinality(Below(y)) \in Nat
  BY <1>4, FS_CardinalityType
<1> QED
  BY <1>3, <1>5, <1>6, <1>7

(* A finite set of numbers has a greatest one.                             *)
LEMMA GreatestNumber ==
  ASSUME NEW S \in SUBSET Int, IsFiniteSet(S), S # {}
  PROVE  Max(S) \in S /\ \A y \in S : y <= Max(S)
<1> DEFINE before == {x \in S \X S : x[1] > x[2]}
<1>1. \A x \in S : x \in Int
  OBVIOUS
<1>2. \A x, y \in S : <<x, y>> \in before <=> x > y
  OBVIOUS
<1> HIDE DEF before
<1>3. \A x \in S : <<x, x>> \notin before
  BY <1>1, <1>2
<1>4. \A x, y \in S : x # y => <<x, y>> \in before \/ <<y, x>> \in before
  BY <1>1, <1>2
<1>5. \A x, y, z \in S : <<x, y>> \in before /\ <<y, z>> \in before => <<x, z>> \in before
  BY <1>1, <1>2
<1>6. \A n \in 0 .. Cardinality(S) - 1 : \E x \in S : Cardinality(Lower(S, before, x)) = n
  BY <1>3, <1>4, <1>5, Ranks
<1>7. 0 \in 0 .. Cardinality(S) - 1
  <2>1. Cardinality(S) \in Nat /\ Cardinality(S) # 0
    BY FS_CardinalityType, FS_EmptySet
  <2> QED
    BY <2>1
<1>8. PICK x \in S : Cardinality(Lower(S, before, x)) = 0
  BY <1>6, <1>7
<1>9. Lower(S, before, x) = {}
  <2>1. Lower(S, before, x) \in SUBSET S
    BY DEF Lower
  <2>2. IsFiniteSet(Lower(S, before, x))
    BY <2>1, FS_Subset
  <2> QED
    BY <1>8, <2>2, FS_EmptySet
<1>10. ASSUME NEW y \in S PROVE x >= y
  <2>1. <<y, x>> \notin before
    BY <1>9 DEF Lower
  <2>2. ~(y > x)
    BY <1>2, <2>1
  <2> QED
    BY <1>1, <2>2
<1>11. Max(S) \in S /\ \A y \in S : Max(S) >= y
  BY <1>10 DEF Max
<1> QED
  BY <1>1, <1>11

(* The numbers of a finite set in their order are its numbers, each once.  *)
LEMMA AscendingIs ==
  ASSUME NEW S \in SUBSET Int, IsFiniteSet(S)
  PROVE  /\ Cardinality(S) \in Nat
         /\ Ascending(S) \in [1 .. Cardinality(S) -> S]
         /\ \A x \in S : \E n \in 1 .. Cardinality(S) : Ascending(S)[n] = x
         /\ \A m, n \in 1 .. Cardinality(S) : Ascending(S)[m] = Ascending(S)[n] => m = n
<1> DEFINE before == {x \in S \X S : x[1] < x[2]}
           Upto(i) == {j \in S : j <= i}
           Below(i) == {j \in S : <<j, i>> \in before}
<1>1. Cardinality(S) \in Nat
  BY FS_CardinalityType
<1>a. \A x, y \in S : <<x, y>> \in before <=> x < y
  OBVIOUS
<1>b. \A x \in S : x \in Int
  OBVIOUS
<1> HIDE DEF before
<1>2. \A n \in 0 .. Cardinality(S) - 1 : \E x \in S : Cardinality(Below(x)) = n
  <2>1. \A x \in S : <<x, x>> \notin before
    BY <1>a, <1>b
  <2>2. \A x, y \in S : x # y => <<x, y>> \in before \/ <<y, x>> \in before
    BY <1>a, <1>b
  <2>3. \A x, y, z \in S : <<x, y>> \in before /\ <<y, z>> \in before => <<x, z>> \in before
    BY <1>a, <1>b
  <2>4. IsFiniteSet(S)
    OBVIOUS
  <2> HIDE DEF Upto
  <2>5. \A n \in 0 .. Cardinality(S) - 1 :
          \E x \in S : Cardinality(Lower(S, before, x)) = n
    BY <2>1, <2>2, <2>3, <2>4, Ranks
  <2> QED
    BY <2>5 DEF Lower
<1>3. ASSUME NEW i \in S
      PROVE  /\ Cardinality(Upto(i)) = Cardinality(Below(i)) + 1
             /\ IsFiniteSet(Upto(i))
             /\ Cardinality(Upto(i)) \in 1 .. Cardinality(S)
  <2>1. \A j \in S : <<j, i>> \in before <=> j < i
    BY <1>a
  <2>2. \A j \in S : j <= i <=> j < i \/ j = i
    BY <1>b
  <2>3. i \notin Below(i)
    BY <2>1, <1>b
  <2>4. Upto(i) = Below(i) \cup {i}
    BY <2>1, <2>2
  <2>5. Below(i) \in SUBSET S /\ Upto(i) \in SUBSET S
    OBVIOUS
  <2> HIDE DEF Upto, Below
  <2>6. IsFiniteSet(Below(i)) /\ IsFiniteSet(Upto(i)) /\ Cardinality(Upto(i)) <= Cardinality(S)
    BY <2>5, FS_Subset
  <2>7. Cardinality(Upto(i)) = Cardinality(Below(i)) + 1
    BY <2>3, <2>4, <2>6, FS_AddElement
  <2>8. Cardinality(Below(i)) \in Nat
    BY <2>6, FS_CardinalityType
  <2> QED
    BY <1>1, <2>6, <2>7, <2>8
<1>4. ASSUME NEW n \in 1 .. Cardinality(S)
      PROVE  \E i \in S : Cardinality(Upto(i)) = n
  <2>1. n - 1 \in 0 .. Cardinality(S) - 1
    BY <1>1
  <2>2. PICK i \in S : Cardinality(Below(i)) = n - 1
    BY <1>2, <2>1
  <2> QED
    BY <1>1, <1>3, <2>2
<1>5. \A n \in 1 .. Cardinality(S) :
        /\ Ascending(S)[n] \in S
        /\ Cardinality(Upto(Ascending(S)[n])) = n
  BY <1>4 DEF Ascending
<1>6. ASSUME NEW i \in S, NEW j \in S, i < j
      PROVE  Cardinality(Upto(i)) < Cardinality(Upto(j))
  <2>a. i \in Int /\ j \in Int /\ j \in Upto(j) /\ j \notin Upto(i)
    BY <1>6, <1>b
  <2>b. \A x \in Upto(i) : x \in Upto(j)
    BY <1>6, <1>b
  <2>1. j \notin Upto(i) /\ Upto(i) \cup {j} \in SUBSET Upto(j)
    <3> HIDE DEF Upto
    <3> QED
      BY <2>a, <2>b
  <2>2. IsFiniteSet(Upto(i)) /\ IsFiniteSet(Upto(j))
    BY <1>3
  <2> HIDE DEF Upto
  <2>3. Cardinality(Upto(i) \cup {j}) = Cardinality(Upto(i)) + 1
    BY <2>1, <2>2, FS_AddElement
  <2>4. Cardinality(Upto(i) \cup {j}) <= Cardinality(Upto(j))
    BY <2>1, <2>2, FS_Subset
  <2>5. Cardinality(Upto(i)) \in Nat /\ Cardinality(Upto(j)) \in Nat
    BY <2>2, FS_CardinalityType
  <2> QED
    BY <2>3, <2>4, <2>5
<1>7. Ascending(S) \in [1 .. Cardinality(S) -> S]
  BY <1>5 DEF Ascending
<1> HIDE DEF Upto, Below
<1>8. ASSUME NEW i \in S PROVE \E n \in 1 .. Cardinality(S) : Ascending(S)[n] = i
  <2>1. PICK n \in 1 .. Cardinality(S) : n = Cardinality(Upto(i))
    BY <1>3
  <2>2. PICK j \in S : j = Ascending(S)[n] /\ Cardinality(Upto(j)) = n
    BY <1>5, <2>1
  <2>3. n \in Int
    BY <1>1
  <2>4. ~(i < j) /\ ~(j < i)
    BY <1>6, <2>1, <2>2, <2>3
  <2>5. i \in Int /\ j \in Int
    BY <1>b
  <2>6. i = j
    BY <2>4, <2>5
  <2> QED
    BY <2>2, <2>6
<1>9. \A m, n \in 1 .. Cardinality(S) : Ascending(S)[m] = Ascending(S)[n] => m = n
  BY <1>5
<1> QED
  BY <1>1, <1>7, <1>8, <1>9

(* Those of an interval are where they were.                              *)
LEMMA AscendingInterval == \A n \in Nat : Ascending(1 .. n) = [i \in 1 .. n |-> i]
<1> SUFFICES ASSUME NEW n \in Nat PROVE Ascending(1 .. n) = [i \in 1 .. n |-> i]
  OBVIOUS
<1>1. \A i \in 0 .. n : Cardinality(1 .. i) = i
  <2> SUFFICES ASSUME NEW i \in 0 .. n PROVE Cardinality(1 .. i) = i
    OBVIOUS
  <2>1. 1 \in Int /\ i \in Int /\ (IF 1 > i THEN 0 ELSE (i - 1) + 1) = i
    OBVIOUS
  <2> QED
    BY <2>1, FS_Interval
<1>2. \A i \in 1 .. n : {j \in 1 .. n : j <= i} = 1 .. i
  OBVIOUS
<1>3. ASSUME NEW i \in 1 .. n PROVE Cardinality({j \in 1 .. n : j <= i}) = i
  <2>1. {j \in 1 .. n : j <= i} = 1 .. i /\ i \in 0 .. n
    BY <1>2
  <2> QED
    BY <1>1, <2>1
<1>4. \A m \in 1 .. n : (CHOOSE i \in 1 .. n : Cardinality({j \in 1 .. n : j <= i}) = m) = m
  BY <1>3
<1>5. Cardinality(1 .. n) = n
  BY <1>1
<1> QED
  BY <1>4, <1>5 DEF Ascending

-----------------------------------------------------------------------------
(* The order of the results.                                               *)

(* Products by a positive number can be compared without it.               *)
LEMMA CancelFactor ==
  ASSUME NEW a \in Int, NEW b \in Int, NEW c \in Nat \ {0}, a * c <= b * c
  PROVE  a <= b
<1> SUFFICES ASSUME b < a PROVE FALSE
  OBVIOUS
<1>1. PICK d \in Nat \ {0} : a = b + d
  <2>1. a - b \in Nat \ {0} /\ a = b + (a - b)
    OBVIOUS
  <2> QED
    BY <2>1
<1>2. a * c = b * c + d * c
  BY <1>1
<1>3. d * c \in Nat \ {0} /\ b * c \in Int
  OBVIOUS
<1> QED
  BY <1>2, <1>3

LEMMA GrowFactor ==
  ASSUME NEW a \in Int, NEW b \in Int, NEW c \in Nat, a <= b
  PROVE  a * c <= b * c
<1>1. PICK d \in Nat : b = a + d
  <2>1. b - a \in Nat /\ b = a + (b - a)
    OBVIOUS
  <2> QED
    BY <2>1
<1>2. b * c = a * c + d * c
  BY <1>1
<1>3. d * c \in Nat /\ a * c \in Int
  OBVIOUS
<1> QED
  BY <1>2, <1>3

LEMMA CompareRatios ==
  ASSUME NEW a \in Int, NEW b \in Int, NEW c \in Int,
         NEW l \in Nat \ {0}, NEW m \in Nat \ {0}, NEW n \in Nat \ {0},
         a * m <= b * l, b * n <= c * m
  PROVE  a * n <= c * l
<1>1. (a * m) * n <= (b * l) * n
  <2>1. a * m \in Int /\ b * l \in Int
    OBVIOUS
  <2> QED
    BY <2>1, GrowFactor
<1>2. (b * n) * l <= (c * m) * l
  <2>1. b * n \in Int /\ c * m \in Int
    OBVIOUS
  <2> QED
    BY <2>1, GrowFactor
<1>3. (a * m) * n = (a * n) * m /\ (b * l) * n = (b * n) * l /\ (c * m) * l = (c * l) * m
  OBVIOUS
<1>4. PICK x \in Int : x = a * n
  OBVIOUS
<1>5. PICK y \in Int : y = c * l
  OBVIOUS
<1>6. PICK z \in Int : z = (b * n) * l
  OBVIOUS
<1>7. x * m \in Int /\ y * m \in Int /\ x * m <= z /\ z <= y * m
  BY <1>1, <1>2, <1>3, <1>4, <1>5, <1>6
<1>8. x * m <= y * m
  BY <1>6, <1>7
<1> QED
  BY <1>4, <1>5, <1>8, CancelFactor

(* A result of the search: tokens and their score.                         *)
IsResult(x) == x.score \in Int /\ x.tokens \in Seq(Int)

(* Being the better hypothesis is a strict weak order.                     *)
LEMMA BetterIsAnOrder ==
  ASSUME NEW lp
  PROVE  /\ \A x : IsResult(x) => ~BetterScore(x, x, lp)
         /\ \A x, y : IsResult(x) /\ IsResult(y) =>
              ~(BetterScore(x, y, lp) /\ BetterScore(y, x, lp))
         /\ \A x, y, z : IsResult(x) /\ IsResult(y) /\ IsResult(z) =>
              (~BetterScore(x, y, lp) /\ ~BetterScore(y, z, lp) => ~BetterScore(x, z, lp))
<1>0. \A x : IsResult(x) => x.score \in Int /\ Len(x.tokens) \in Nat /\ (x.tokens = <<>> <=> Len(x.tokens) = 0)
  BY DEF IsResult
<1>1. CASE lp = 0
  BY <1>0, <1>1 DEF BetterScore
<1>2. CASE lp # 0
  <2>1. \A x, y : BetterScore(x, y, lp) <=>
          /\ x.tokens # <<>>
          /\ y.tokens # <<>> => x.score * Len(y.tokens) > y.score * Len(x.tokens)
    BY <1>2 DEF BetterScore
  <2>2. ASSUME NEW x, IsResult(x) PROVE ~BetterScore(x, x, lp)
    <3>1. x.score \in Int /\ Len(x.tokens) \in Nat
      BY <1>0, <2>2
    <3>2. ~(x.score * Len(x.tokens) > x.score * Len(x.tokens))
      BY <3>1
    <3> QED
      BY <2>1, <3>2
  <2>3. ASSUME NEW x, NEW y, IsResult(x), IsResult(y), BetterScore(x, y, lp), BetterScore(y, x, lp)
        PROVE  FALSE
    <3>1. PICK a \in Int, l \in Nat : a = x.score /\ l = Len(x.tokens)
      BY <1>0, <2>3
    <3>2. PICK b \in Int, m \in Nat : b = y.score /\ m = Len(y.tokens)
      BY <1>0, <2>3
    <3>3. a * m > b * l /\ b * l > a * m
      BY <2>1, <2>3, <3>1, <3>2
    <3>4. a * m \in Int /\ b * l \in Int
      OBVIOUS
    <3> QED
      BY <3>3, <3>4
  <2>4. ASSUME NEW x, NEW y, NEW z, IsResult(x), IsResult(y), IsResult(z),
               ~BetterScore(x, y, lp), ~BetterScore(y, z, lp), x.tokens # <<>>
        PROVE  z.tokens # <<>> /\ ~(x.score * Len(z.tokens) > z.score * Len(x.tokens))
    <3>1. PICK a \in Int, l \in Nat \ {0} : a = x.score /\ l = Len(x.tokens)
      BY <1>0, <2>4
    <3>2. y.tokens # <<>> /\ ~(x.score * Len(y.tokens) > y.score * Len(x.tokens))
      BY <2>1, <2>4
    <3>3. PICK b \in Int, m \in Nat \ {0} : b = y.score /\ m = Len(y.tokens)
      BY <1>0, <2>4, <3>2
    <3>4. z.tokens # <<>> /\ ~(y.score * Len(z.tokens) > z.score * Len(y.tokens))
      BY <2>1, <2>4, <3>2
    <3>5. PICK c \in Int, n \in Nat \ {0} : c = z.score /\ n = Len(z.tokens)
      BY <1>0, <2>4, <3>4
    <3>6. ~(a * m > b * l) /\ ~(b * n > c * m)
      BY <3>1, <3>2, <3>3, <3>4, <3>5
    <3>7. a * m \in Int /\ b * l \in Int /\ b * n \in Int /\ c * m \in Int
      OBVIOUS
    <3>8. a * m <= b * l /\ b * n <= c * m
      BY <3>6, <3>7
    <3>9. a * n <= c * l
      BY <3>8, CompareRatios
    <3>10. a * n \in Int /\ c * l \in Int
      OBVIOUS
    <3>11. ~(a * n > c * l)
      BY <3>9, <3>10
    <3> QED
      BY <3>1, <3>4, <3>5, <3>11
  <2>5. ASSUME NEW x, NEW y, NEW z, IsResult(x), IsResult(y), IsResult(z),
               ~BetterScore(x, y, lp), ~BetterScore(y, z, lp)
        PROVE  ~BetterScore(x, z, lp)
    <3>1. CASE x.tokens = <<>>
      BY <2>1, <3>1
    <3>2. CASE x.tokens # <<>>
      BY <2>1, <2>4, <2>5, <3>2
    <3> QED
      BY <3>1, <3>2
  <2> QED
    BY <2>2, <2>3, <2>5
<1> QED
  BY <1>1, <1>2

(* What the ranking of some hypotheses is: each of their places once, a    *)
(* better hypothesis before a worse one.                                   *)
IsRanking(r, hyps, size, lp) ==
  /\ r \in [1 .. size -> 1 .. size]
  /\ \A m, n \in 1 .. size : r[m] = r[n] => m = n
  /\ \A p \in 1 .. size : \E n \in 1 .. size : r[n] = p
  /\ \A m, n \in 1 .. size : m < n => ~BetterScore(hyps[r[n]], hyps[r[m]], lp)

LEMMA RankingIs ==
  ASSUME NEW size \in Nat, NEW hyps, DOMAIN hyps = 1 .. size, NEW lp,
         \A n \in 1 .. size : IsResult(hyps[n])
  PROVE  IsRanking(Ranking(hyps, lp), hyps, size, lp)
<1> DEFINE S == 1 .. size
           B(m, n) == BetterScore(hyps[m], hyps[n], lp)
           P(m, n) == Precedes(hyps, m, n, lp)
           before == {x \in S \X S : P(x[1], x[2])}
           r == Ranking(hyps, lp)
<1>1. IsFiniteSet(S) /\ Cardinality(S) = size
  <2>1. 1 \in Int /\ size \in Int /\ (IF 1 > size THEN 0 ELSE (size - 1) + 1) = size
    OBVIOUS
  <2> QED
    BY <2>1, FS_Interval
<1>2. /\ \A m \in S : ~B(m, m)
      /\ \A m, n \in S : ~(B(m, n) /\ B(n, m))
      /\ \A m, n, p \in S : ~B(m, n) /\ ~B(n, p) => ~B(m, p)
  BY BetterIsAnOrder
<1>3. \A m, n : P(m, n) <=> B(m, n) \/ (m < n /\ ~B(n, m))
  BY DEF Precedes
<1>4. \A m, n \in S : <<m, n>> \in before <=> P(m, n)
  OBVIOUS
<1> HIDE DEF P, B, before
<1>5. \A m \in S : <<m, m>> \notin before
  <2>1. \A m \in S : ~(m < m)
    OBVIOUS
  <2> QED
    BY <1>2, <1>3, <1>4, <2>1
<1>6. \A m, n \in S : m # n => <<m, n>> \in before \/ <<n, m>> \in before
  <2>1. \A m, n \in S : m # n => m < n \/ n < m
    OBVIOUS
  <2> QED
    BY <1>3, <1>4, <2>1
<1>7. \A m, n, p \in S : <<m, n>> \in before /\ <<n, p>> \in before => <<m, p>> \in before
  <2> SUFFICES ASSUME NEW m \in S, NEW n \in S, NEW p \in S, P(m, n), P(n, p) PROVE P(m, p)
    BY <1>4
  <2>1. ~B(n, m) /\ ~B(p, n)
    BY <1>2, <1>3
  <2>2. ~B(p, m)
    BY <1>2, <2>1
  <2>3. CASE B(m, n) \/ B(n, p)
    <3>1. B(m, p)
      BY <1>2, <2>1, <2>3
    <3> QED
      BY <1>3, <3>1
  <2>4. CASE ~B(m, n) /\ ~B(n, p)
    <3>1. m < n /\ n < p
      BY <1>3, <2>4
    <3>2. m < p
      BY <3>1
    <3> QED
      BY <1>3, <2>2, <3>2
  <2> QED
    BY <2>3, <2>4
<1>8. \A n \in S : Lower(S, before, n) = {m \in S : P(m, n)}
  BY <1>4 DEF Lower
<1>9. r = [k \in S |-> CHOOSE n \in S : Cardinality(Lower(S, before, n)) = k - 1]
  <2>1. r = [k \in S |-> CHOOSE n \in S : Cardinality({m \in S : P(m, n)}) = k - 1]
    BY DEF Ranking, P
  <2> QED
    BY <1>8, <2>1
<1> HIDE DEF r
<1>10. \A k \in S : \E n \in S : Cardinality(Lower(S, before, n)) = k - 1
  <2>1. \A k \in 0 .. size - 1 : \E n \in S : Cardinality(Lower(S, before, n)) = k
    <3> HIDE DEF S
    <3> QED
      BY <1>1, <1>5, <1>6, <1>7, Ranks
  <2>2. \A k \in S : k - 1 \in 0 .. size - 1
    OBVIOUS
  <2> QED
    BY <2>1, <2>2
<1>11. \A k \in S : r[k] \in S /\ Cardinality(Lower(S, before, r[k])) = k - 1
  <2> HIDE DEF S
  <2> QED
    BY <1>9, <1>10
<1>12. r \in [S -> S]
  BY <1>9, <1>11
<1>13. \A m, n \in S : r[m] = r[n] => m = n
  <2>1. \A m, n \in S : m - 1 = n - 1 => m = n
    OBVIOUS
  <2> QED
    BY <1>11, <2>1
<1>14. \A p \in S : \E n \in S : r[n] = p
  <2>1. r \in Injection(S, S)
    BY <1>12, <1>13 DEF Injection, IsInjective
  <2>2. r \in Surjection(S, S)
    <3> HIDE DEF S
    <3> QED
      BY <1>1, <2>1, FS_Injection
  <2> QED
    BY <2>2 DEF Surjection
<1>15. ASSUME NEW m \in S, NEW n \in S, m < n PROVE ~B(r[n], r[m])
  <2> SUFFICES ASSUME B(r[n], r[m]) PROVE FALSE
    OBVIOUS
  <2>1. r[n] \in S /\ r[m] \in S
    BY <1>11
  <2>2. <<r[n], r[m]>> \in before
    BY <1>3, <1>4, <2>1
  <2>3. Cardinality(Lower(S, before, r[n])) < Cardinality(Lower(S, before, r[m]))
    <3> HIDE DEF S
    <3> QED
      BY <1>1, <1>5, <1>7, <2>1, <2>2, RankGrows
  <2>4. n - 1 < m - 1
    BY <1>11, <2>3
  <2> QED
    BY <1>15, <2>4
<1> QED
  BY <1>12, <1>13, <1>14, <1>15 DEF IsRanking, B, r
=============================================================================
