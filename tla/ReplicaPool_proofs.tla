-------------------------- MODULE ReplicaPool_proofs --------------------------
(***************************************************************************)
(* Proofs about Batching and ReplicaPool.  For examples of any number and  *)
(* length rebatch_input puts every example in exactly one batch: the loops *)
(* are recursive functions, and what they compute is proved by induction   *)
(* on the numbers, in the form of a least counterexample.  And whatever    *)
(* the number of callers and replicas and the sizes of the batches, every  *)
(* result that consume_batches writes is that of its own example, in the   *)
(* order of the input.  The last part is about BatchReader: the batches of *)
(* get_next are as large as max_batch_size allows.                         *)
(***************************************************************************)
EXTENDS ReplicaPool, BatchReader, FiniteSetTheorems, SequenceTheorems,
        WellFoundedInduction, TLAPS

(* A set of natural numbers has a least one.                               *)
LEMMA LeastNumber == \A T \in SUBSET Nat : T # {} => \E x \in T : \A y \in T : x <= y
<1> SUFFICES ASSUME NEW T \in SUBSET Nat, T # {} PROVE \E x \in T : \A y \in T : x <= y
  OBVIOUS
<1> DEFINE R == OpToRel(<, Nat)
<1>1. \A x, y \in Nat : x < y => <<x, y>> \in R
  BY DEF OpToRel
<1>2. IsWellFoundedOn(R, Nat)
  BY NatLessThanWellFounded
<1> HIDE DEF R
<1>3. PICK x \in T : \A y \in T : <<y, x>> \notin R
  BY <1>2, WFMin
<1>4. ASSUME NEW y \in T PROVE x <= y
  <2>1. x \in Nat /\ y \in Nat
    OBVIOUS
  <2>2. ~(y < x)
    BY <1>1, <1>3, <2>1
  <2> QED
    BY <2>1, <2>2
<1> QED
  BY <1>4

(* A set that has 0 and is closed under the successor up to n has n.       *)
LEMMA Induction ==
  ASSUME NEW n \in Nat, NEW S, 0 \in S, \A m \in 0 .. n - 1 : m \in S => m + 1 \in S
  PROVE  \A m \in 0 .. n : m \in S
<1> DEFINE T == {m \in 0 .. n : m \notin S}
<1> SUFFICES ASSUME T # {} PROVE FALSE
  OBVIOUS
<1>1. T \in SUBSET Nat
  OBVIOUS
<1>2. PICK x \in T : \A y \in T : x <= y
  BY <1>1, LeastNumber
<1>3. x \in 1 .. n /\ x - 1 \in 0 .. n - 1 /\ x \notin S
  BY <1>2
<1>4. x - 1 \in S
  BY <1>2, <1>3
<1> QED
  BY <1>3, <1>4

-----------------------------------------------------------------------------
(* The loops of get_next.                                                  *)

(* A loop that counts from k to the first number at which it stops.        *)
LEMMA LoopExists ==
  ASSUME NEW n \in Nat, NEW S \in SUBSET (0 .. n), n \in S
  PROVE  \E f : f = [k \in 0 .. n |-> IF k \in S THEN k ELSE f[k + 1]]
<1> DEFINE First(k, j) == j \in S /\ k <= j /\ \A i \in k .. j - 1 : i \notin S
<1> DEFINE f == [k \in 0 .. n |-> CHOOSE j \in 0 .. n : First(k, j)]
<1>1. ASSUME NEW k \in 0 .. n PROVE \E j \in 0 .. n : First(k, j)
  <2> DEFINE T == {j \in S : k <= j}
  <2>1. T \in SUBSET Nat /\ T # {}
    <3>1. \A i \in T : i \in Nat
      OBVIOUS
    <3>2. n \in T
      OBVIOUS
    <3> HIDE DEF T
    <3> QED
      BY <3>1, <3>2
  <2>2. PICK j \in T : \A i \in T : j <= i
    BY <2>1, LeastNumber
  <2> QED
    BY <2>2
<1>2. ASSUME NEW k \in 0 .. n PROVE f[k] \in 0 .. n /\ First(k, f[k])
  BY <1>1
<1>3. ASSUME NEW k \in 0 .. n, NEW i \in 0 .. n, NEW j \in 0 .. n, First(k, i), First(k, j)
      PROVE i = j
  BY <1>3
<1>4. ASSUME NEW k \in 0 .. n PROVE f[k] = IF k \in S THEN k ELSE f[k + 1]
  <2>1. CASE k \in S
    <3>1. First(k, k)
      BY <2>1
    <3> QED
      BY <1>2, <1>3, <2>1, <3>1
  <2>2. CASE k \notin S
    <3>1. k + 1 \in 0 .. n
      BY <2>2
    <3>2. First(k, f[k + 1])
      BY <1>2, <2>2, <3>1
    <3> QED
      BY <1>2, <1>3, <2>2, <3>1, <3>2
  <2> QED
    BY <2>1, <2>2
<1>5. f = [k \in 0 .. n |-> IF k \in S THEN k ELSE f[k + 1]]
  BY <1>4
<1> QED
  BY <1>5

(* What such a loop returns.                                               *)
LEMMA LoopStops ==
  ASSUME NEW n \in Nat, NEW S \in SUBSET (0 .. n), n \in S,
         NEW f, f = [k \in 0 .. n |-> IF k \in S THEN k ELSE f[k + 1]]
  PROVE  f[0] \in S /\ \A i \in 0 .. f[0] - 1 : i \notin S
<1>1. PICK j \in S : \A i \in S : j <= i
  <2>1. S \in SUBSET Nat /\ S # {}
    OBVIOUS
  <2> QED
    BY <2>1, LeastNumber
<1> DEFINE E == {m \in 0 .. j : f[j - m] = j}
<1>2. 0 \in E
  BY <1>1
<1>3. ASSUME NEW m \in 0 .. j - 1, m \in E PROVE m + 1 \in E
  <2>1. j - (m + 1) \in 0 .. n /\ j - (m + 1) \notin S /\ (j - (m + 1)) + 1 = j - m
    BY <1>1
  <2> QED
    BY <1>3, <2>1
<1>4. j \in E
  <2> HIDE DEF E
  <2>1. j \in Nat
    OBVIOUS
  <2>2. \A m \in 0 .. j : m \in E
    BY ONLY <1>2, <1>3, <2>1, Induction
  <2> QED
    BY <2>1, <2>2
<1>5. f[0] = j
  BY <1>4
<1> QED
  BY <1>1, <1>5

(* The number of examples that get_next takes with padding: one at least,  *)
(* if there is one, until there is none left or the next one would exceed  *)
(* the maximum; no smaller number would have stopped the loop.             *)
LEMMA FixedIncrementStops ==
  ASSUME NEW lengths \in Seq(Nat), NEW max, NEW type
  PROVE  LET n == FillWithFixedIncrement(lengths, max, type)
         IN  /\ n \in 0 .. Len(lengths) /\ (lengths # <<>> => n > 0)
             /\ n = Len(lengths) \/ FixedSize(lengths, n, type) > max
             /\ \A k \in 1 .. n - 1 : ~(FixedSize(lengths, k, type) > max)
<1> DEFINE L == Len(lengths)
<1> DEFINE Loop == CHOOSE Loop : Loop = [k \in 0 .. Len(lengths) |->
              IF k = Len(lengths) \/ (k > 0 /\ FixedSize(lengths, k, type) > max)
                THEN k
                ELSE Loop[k + 1]]
<1> DEFINE S == {k \in 0 .. L : k = L \/ (k > 0 /\ FixedSize(lengths, k, type) > max)}
<1>1. L \in Nat /\ S \in SUBSET (0 .. L) /\ L \in S /\ (lengths # <<>> => 0 \notin S)
  OBVIOUS
<1>2. \A f : [k \in 0 .. L |-> IF k \in S THEN k ELSE f[k + 1]] =
             [k \in 0 .. L |-> IF k = L \/ (k > 0 /\ FixedSize(lengths, k, type) > max)
                                THEN k ELSE f[k + 1]]
  OBVIOUS
<1>3. \E f : f = [k \in 0 .. L |-> IF k \in S THEN k ELSE f[k + 1]]
  <2> HIDE DEF L, S
  <2> QED
    BY <1>1, LoopExists
<1>4. Loop = [k \in 0 .. L |-> IF k \in S THEN k ELSE Loop[k + 1]]
  <2>1. \E f : f = [k \in 0 .. L |-> IF k = L \/ (k > 0 /\ FixedSize(lengths, k, type) > max)
                                     THEN k ELSE f[k + 1]]
    BY <1>2, <1>3, Zenon
  <2>2. Loop = [k \in 0 .. L |-> IF k = L \/ (k > 0 /\ FixedSize(lengths, k, type) > max)
                                THEN k ELSE Loop[k + 1]]
    BY <2>1, Zenon
  <2> QED
    BY <1>2, <2>2, Zenon
<1>5. FillWithFixedIncrement(lengths, max, type) = Loop[0]
  BY DEF FillWithFixedIncrement
<1>6. Loop[0] \in S /\ \A i \in 0 .. Loop[0] - 1 : i \notin S
  <2> HIDE DEF L, S, Loop
  <2> QED
    BY <1>1, <1>4, LoopStops
<1> HIDE DEF Loop
<1> QED
  BY <1>1, <1>5, <1>6

(* And without padding.                                                    *)
LEMMA VariableIncrementStops ==
  ASSUME NEW lengths \in Seq(Nat), NEW max, NEW type
  PROVE  LET n == FillWithVariableIncrement(lengths, max, type)
         IN  /\ n \in 0 .. Len(lengths) /\ (lengths # <<>> => n > 0)
             /\ n = Len(lengths) \/ VariableSize(lengths, n, type) > max
             /\ \A k \in 1 .. n - 1 : ~(VariableSize(lengths, k, type) > max)
<1> DEFINE L == Len(lengths)
<1> DEFINE Loop == CHOOSE Loop : Loop = [k \in 0 .. Len(lengths) |->
              IF k = Len(lengths) \/ (k > 0 /\ VariableSize(lengths, k, type) > max)
                THEN k
                ELSE Loop[k + 1]]
<1> DEFINE S == {k \in 0 .. L : k = L \/ (k > 0 /\ VariableSize(lengths, k, type) > max)}
<1>1. L \in Nat /\ S \in SUBSET (0 .. L) /\ L \in S /\ (lengths # <<>> => 0 \notin S)
  OBVIOUS
<1>2. \A f : [k \in 0 .. L |-> IF k \in S THEN k ELSE f[k + 1]] =
             [k \in 0 .. L |-> IF k = L \/ (k > 0 /\ VariableSize(lengths, k, type) > max)
                                THEN k ELSE f[k + 1]]
  OBVIOUS
<1>3. \E f : f = [k \in 0 .. L |-> IF k \in S THEN k ELSE f[k + 1]]
  <2> HIDE DEF L, S
  <2> QED
    BY <1>1, LoopExists
<1>4. Loop = [k \in 0 .. L |-> IF k \in S THEN k ELSE Loop[k + 1]]
  <2>1. \E f : f = [k \in 0 .. L |-> IF k = L \/ (k > 0 /\ VariableSize(lengths, k, type) > max)
                                     THEN k ELSE f[k + 1]]
    BY <1>2, <1>3, Zenon
  <2>2. Loop = [k \in 0 .. L |-> IF k = L \/ (k > 0 /\ VariableSize(lengths, k, type) > max)
                                THEN k ELSE Loop[k + 1]]
    BY <2>1, Zenon
  <2> QED
    BY <1>2, <2>2, Zenon
<1>5. FillWithVariableIncrement(lengths, max, type) = Loop[0]
  BY DEF FillWithVariableIncrement
<1>6. Loop[0] \in S /\ \A i \in 0 .. Loop[0] - 1 : i \notin S
  <2> HIDE DEF L, S, Loop
  <2> QED
    BY <1>1, <1>4, LoopStops
<1> HIDE DEF Loop
<1> QED
  BY <1>1, <1>5, <1>6

-----------------------------------------------------------------------------
(* The loop of rebatch_input.  A sequence of L examples is cut into        *)
(* chunks: piece[i] begins behind the first i examples, takes size[i] of   *)
(* them, and is followed by the chunks of the others.                      *)

Follows(B, L, piece, size) ==
  B = [i \in 0 .. L |-> IF i = L THEN <<>> ELSE <<piece[i]>> \o B[i + size[i]]]

LEMMA ChunksExist ==
  ASSUME NEW L \in Nat, NEW piece, NEW size, \A i \in 0 .. L - 1 : size[i] \in 1 .. L - i
  PROVE  \E B : Follows(B, L, piece, size)
<1> DEFINE From(B, l) ==
      B = [i \in l .. L |-> IF i = L THEN <<>> ELSE <<piece[i]>> \o B[i + size[i]]]
<1> DEFINE E == {m \in 0 .. L : \E B : From(B, L - m)}
<1>1. 0 \in E
  <2> DEFINE B == [i \in L .. L |-> <<>>]
  <2>1. From(B, L)
    OBVIOUS
  <2>2. L - 0 = L /\ 0 \in 0 .. L
    OBVIOUS
  <2> HIDE DEF B, From
  <2> QED
    BY <2>1, <2>2
<1>2. ASSUME NEW m \in 0 .. L - 1, m \in E PROVE m + 1 \in E
  <2> DEFINE l == L - m
             k == L - (m + 1)
  <2>1. l \in 1 .. L /\ k = l - 1 /\ k \in 0 .. L - 1 /\ m + 1 \in 0 .. L
    OBVIOUS
  <2>2. PICK B : From(B, l)
    BY <1>2
  <2> HIDE DEF l, k
  <2> DEFINE C == [i \in k .. L |-> IF i = k THEN <<piece[k]>> \o B[k + size[k]] ELSE B[i]]
  <2>3. ASSUME NEW i \in l .. L PROVE C[i] = B[i]
    BY <2>1
  <2>4. k + size[k] \in l .. L
    BY <2>1
  <2>5. ASSUME NEW i \in k .. L
        PROVE C[i] = IF i = L THEN <<>> ELSE <<piece[i]>> \o C[i + size[i]]
    <3>1. CASE i = k
      <4>1. C[i + size[i]] = B[k + size[k]]
        BY <2>3, <2>4, <3>1
      <4>2. C[i] = <<piece[k]>> \o B[k + size[k]] /\ i # L
        BY <2>1, <3>1
      <4> QED
        BY <3>1, <4>1, <4>2, Zenon
    <3>2. CASE i # k /\ i # L
      <4>1. i \in l .. L /\ i \in 0 .. L - 1
        BY <2>1, <3>2
      <4>2. i + size[i] \in l .. L
        BY <2>1, <4>1
      <4>3. B[i] = <<piece[i]>> \o B[i + size[i]]
        BY <2>2, <3>2, <4>1, Zenon
      <4> HIDE DEF C
      <4> QED
        BY <2>3, <3>2, <4>1, <4>2, <4>3, Zenon
    <3>3. CASE i = L
      <4>1. i \in l .. L /\ i # k
        BY <2>1, <3>3
      <4>2. B[i] = <<>>
        BY <2>2, <3>3, <4>1, Zenon
      <4> HIDE DEF C
      <4> QED
        BY <2>3, <3>3, <4>1, <4>2, Zenon
    <3> QED
      BY <3>1, <3>2, <3>3
  <2>6. C = [i \in k .. L |-> C[i]]
    OBVIOUS
  <2> HIDE DEF C
  <2>7. C = [i \in k .. L |-> IF i = L THEN <<>> ELSE <<piece[i]>> \o C[i + size[i]]]
    BY <2>5, <2>6, Zenon
  <2> QED
    BY <2>1, <2>7 DEF k
<1>3. L \in E
  <2> HIDE DEF E
  <2>1. \A m \in 0 .. L : m \in E
    BY ONLY <1>1, <1>2, L \in Nat, Induction
  <2> QED
    BY <2>1
<1>4. PICK B : From(B, L - L)
  BY <1>3
<1>5. From(B, 0)
  <2>1. L - L = 0
    OBVIOUS
  <2> QED
    BY <1>4, <2>1, Zenon
<1> QED
  BY <1>5 DEF Follows

(* The chunks of B, which begin behind the first at[k] examples, follow    *)
(* each other from o to L.                                                 *)
Chunks(B, at, o, L, piece, size) ==
  /\ at \in [1 .. Len(B) -> o .. L - 1]
  /\ \A k \in 1 .. Len(B) : B[k] = piece[at[k]]
  /\ \A j, k \in 1 .. Len(B) : j < k => at[j] + size[at[j]] <= at[k]
  /\ \A i \in o + 1 .. L : \E k \in 1 .. Len(B) : i \in at[k] + 1 .. at[k] + size[at[k]]

LEMMA ChunksCover ==
  ASSUME NEW L \in Nat, NEW piece, NEW size, \A i \in 0 .. L - 1 : size[i] \in 1 .. L - i,
         NEW T, \A i \in 0 .. L - 1 : piece[i] \in T,
         NEW B, Follows(B, L, piece, size)
  PROVE  B[0] \in Seq(T) /\ \E at : Chunks(B[0], at, 0, L, piece, size)
<1> DEFINE Q(o) == B[o] \in Seq(T) /\ \E at : Chunks(B[o], at, o, L, piece, size)
<1> DEFINE E == {m \in 0 .. L : \A o \in L - m .. L : Q(o)}
<1>1. 0 \in E
  <2>1. B[L] = <<>>
    BY DEF Follows
  <2>2. B[L] \in Seq(T) /\ Len(B[L]) = 0
    BY <2>1
  <2>3. Chunks(B[L], <<>>, L, L, piece, size)
    BY <2>2 DEF Chunks
  <2>4. Q(L)
    BY <2>2, <2>3
  <2>5. \A o \in L - 0 .. L : o = L
    OBVIOUS
  <2> HIDE DEF Q
  <2> QED
    BY <2>4, <2>5
<1>2. ASSUME NEW m \in 0 .. L - 1, m \in E PROVE m + 1 \in E
  <2> DEFINE o == L - (m + 1)
  <2>1. o \in 0 .. L - 1 /\ o + size[o] \in L - m .. L /\ size[o] \in 1 .. L - o
    OBVIOUS
  <2> DEFINE rest == B[o + size[o]]
  <2>2. rest \in Seq(T) /\ \E at : Chunks(rest, at, o + size[o], L, piece, size)
    BY <1>2, <2>1
  <2>3. B[o] = <<piece[o]>> \o rest /\ piece[o] \in T
    <3>1. o \in 0 .. L /\ o # L /\ piece[o] \in T
      BY <2>1
    <3> HIDE DEF o
    <3> QED
      BY <3>1, Zenon DEF Follows
  <2>4. \A i \in L - m .. L : Q(i)
    BY <1>2
  <2>5. \A i \in L - (m + 1) .. L : i = o \/ i \in L - m .. L
    OBVIOUS
  <2> HIDE DEF o, rest
  <2>6. PICK at : Chunks(rest, at, o + size[o], L, piece, size)
    BY <2>2
  <2>7. /\ B[o] \in Seq(T) /\ Len(B[o]) = Len(rest) + 1 /\ B[o][1] = piece[o]
        /\ \A k \in 1 .. Len(rest) : B[o][k + 1] = rest[k]
        /\ Len(rest) \in Nat
    BY <2>2, <2>3
  <2> DEFINE new == [k \in 1 .. Len(rest) + 1 |-> IF k = 1 THEN o ELSE at[k - 1]]
  <2>8. new[1] = o /\ \A k \in 1 .. Len(rest) : new[k + 1] = at[k]
    BY <2>7
  <2>9. \A k \in 1 .. Len(rest) + 1 : k = 1 \/ (k - 1 \in 1 .. Len(rest) /\ k = (k - 1) + 1)
    BY <2>7
  <2>10. new \in [1 .. Len(B[o]) -> o .. L - 1]
    <3>1. \A k \in 1 .. Len(rest) : at[k] \in o + size[o] .. L - 1
      BY <2>6 DEF Chunks
    <3>2. \A k \in 1 .. Len(rest) + 1 : new[k] \in o .. L - 1
      BY <2>1, <2>8, <2>9, <3>1
    <3> QED
      BY <2>7, <3>2
  <2> HIDE DEF new
  <2>11. \A k \in 1 .. Len(B[o]) : B[o][k] = piece[new[k]]
    <3>1. \A k \in 1 .. Len(rest) : rest[k] = piece[at[k]]
      BY <2>6 DEF Chunks
    <3>2. ASSUME NEW k \in 1 .. Len(rest) + 1 PROVE B[o][k] = piece[new[k]]
      <4>1. CASE k = 1
        BY <2>7, <2>8, <4>1, Zenon
      <4>2. CASE k # 1
        <5>1. k - 1 \in 1 .. Len(rest) /\ k = (k - 1) + 1
          BY <2>9, <4>2
        <5>2. B[o][k] = rest[k - 1] /\ new[k] = at[k - 1] /\ rest[k - 1] = piece[at[k - 1]]
          BY <2>7, <2>8, <3>1, <5>1, Zenon
        <5> QED
          BY <5>2, Zenon
      <4> QED
        BY <4>1, <4>2
    <3> QED
      BY <2>7, <3>2
  <2>12. \A j, k \in 1 .. Len(B[o]) : j < k => new[j] + size[new[j]] <= new[k]
    <3> SUFFICES ASSUME NEW j \in 1 .. Len(rest) + 1, NEW k \in 1 .. Len(rest) + 1, j < k
                 PROVE  new[j] + size[new[j]] <= new[k]
      BY <2>7
    <3>1. k - 1 \in 1 .. Len(rest) /\ new[k] = at[k - 1]
      BY <2>7, <2>8, <2>9
    <3>2. CASE j = 1
      <4>1. at[k - 1] \in o + size[o] .. L - 1
        BY <2>6, <3>1 DEF Chunks
      <4> QED
        BY <2>1, <2>8, <3>1, <3>2, <4>1
    <3>3. CASE j # 1
      <4>1. j - 1 \in 1 .. Len(rest) /\ new[j] = at[j - 1] /\ j - 1 < k - 1
        <5>1. Len(rest) \in Nat
          BY <2>7
        <5>2. j - 1 \in 1 .. Len(rest) /\ j - 1 < k - 1
          BY ONLY <5>1, <3>3, j \in 1 .. Len(rest) + 1, k \in 1 .. Len(rest) + 1, j < k
        <5> QED
          BY <2>8, <2>9, <5>2
      <4> QED
        BY <2>6, <3>1, <4>1 DEF Chunks
    <3> QED
      BY <3>2, <3>3
  <2>13. ASSUME NEW i \in o + 1 .. L
         PROVE \E k \in 1 .. Len(B[o]) : i \in new[k] + 1 .. new[k] + size[new[k]]
    <3>1. CASE i <= o + size[o]
      <4>1. 1 \in 1 .. Len(B[o])
        BY <2>7
      <4>2. i \in new[1] + 1 .. new[1] + size[new[1]]
        BY <2>1, <2>8, <3>1
      <4> QED
        BY <4>1, <4>2
    <3>2. CASE i > o + size[o]
      <4>1. i \in o + size[o] + 1 .. L
        BY <2>1, <3>2
      <4>2. PICK k \in 1 .. Len(rest) : i \in at[k] + 1 .. at[k] + size[at[k]]
        BY <2>6, <4>1 DEF Chunks
      <4>3. k + 1 \in 1 .. Len(B[o])
        BY <2>7
      <4> QED
        BY <2>8, <4>2, <4>3
    <3> QED
      BY <2>1, <3>1, <3>2
  <2>14. Chunks(B[o], new, o, L, piece, size)
    BY <2>10, <2>11, <2>12, <2>13 DEF Chunks
  <2>15. Q(o)
    BY <2>7, <2>14
  <2> HIDE DEF Q
  <2>16. \A i \in L - (m + 1) .. L : Q(i)
    BY <2>4, <2>5, <2>15
  <2> QED
    BY <2>16
<1>3. L \in E
  <2> HIDE DEF E
  <2>1. \A m \in 0 .. L : m \in E
    BY ONLY <1>1, <1>2, L \in Nat, Induction
  <2> QED
    BY <2>1
<1>4. 0 \in L - L .. L
  OBVIOUS
<1> HIDE DEF Q
<1>5. Q(0)
  BY <1>3, <1>4
<1> QED
  BY <1>5 DEF Q

-----------------------------------------------------------------------------
(* n elements of a sequence from the one behind o on.                      *)
LEMMA Slice ==
  ASSUME NEW S, NEW s \in Seq(S), NEW o \in Nat, NEW n \in Nat, o + n <= Len(s)
  PROVE  /\ \A i \in 1 .. n : SubSeq(s, o + 1, o + n)[i] = s[o + i]
         /\ SubSeq(s, o + 1, o + n) \in Seq(S)
         /\ Len(SubSeq(s, o + 1, o + n)) = n
<1> DEFINE t == SubSeq(s, o + 1, o + n)
<1>1. \A i \in o + 1 .. o + n : s[i] \in S
  <2>1. \A i \in o + 1 .. o + n : i \in 1 .. Len(s)
    OBVIOUS
  <2> QED
    BY <2>1, ElementOfSeq
<1>2. /\ t \in Seq(S)
      /\ Len(t) = IF o + 1 <= o + n THEN o + n - (o + 1) + 1 ELSE 0
      /\ \A i \in 1 .. o + n - (o + 1) + 1 : t[i] = s[o + 1 + i - 1]
  <2>1. o + 1 \in Int /\ o + n \in Int
    OBVIOUS
  <2> QED
    BY <1>1, <2>1, SubSeqProperties
<1>3. o + n - (o + 1) + 1 = n /\ \A i \in 1 .. n : o + 1 + i - 1 = o + i
  OBVIOUS
<1> HIDE DEF t
<1>4. t \in Seq(S) /\ Len(t) = n /\ \A i \in 1 .. n : t[i] = s[o + i]
  <2>1. Len(t) = n
    BY ONLY <1>2, <1>3, o \in Nat, n \in Nat
  <2>2. ASSUME NEW i \in 1 .. n PROVE t[i] = s[o + i]
    BY ONLY <1>2, <1>3, i \in 1 .. n
  <2> QED
    BY ONLY <1>2, <2>1, <2>2
<1> QED
  BY <1>4 DEF t

(* Of two chunks, the examples of the one come before those of the other.  *)
LEMMA Apart ==
  ASSUME NEW L \in Nat, NEW a \in 0 .. L - 1, NEW b \in 0 .. L - 1,
         NEW c \in 1 .. L - a, NEW d \in 1 .. L - b, a + c <= b,
         NEW m \in a + 1 .. a + c, NEW n \in b + 1 .. b + d
  PROVE  m \in 1 .. L /\ n \in 1 .. L /\ m < n
OBVIOUS

(* The sorted indices are a permutation of the indices.                    *)
LEMMA OrderIsPermutation ==
  ASSUME NEW lengths \in Seq(Nat), NEW order \in SortedOrders(lengths), NEW L, L = Len(lengths)
  PROVE  /\ L \in Nat /\ DOMAIN lengths = 1 .. L /\ lengths \in [1 .. L -> Nat]
         /\ order \in [1 .. L -> 1 .. L] /\ DOMAIN order = 1 .. L
         /\ order \in Seq(1 .. L) /\ Len(order) = L
         /\ \A i, j \in 1 .. L : order[i] = order[j] => i = j
         /\ \A t \in 1 .. L : \E i \in 1 .. L : order[i] = t
<1>1. L \in Nat /\ DOMAIN lengths = 1 .. L /\ lengths \in [1 .. L -> Nat]
  OBVIOUS
<1>2. order \in Bijection(1 .. L, 1 .. L)
  BY <1>1, Zenon DEF SortedOrders
<1>3. order \in [1 .. L -> 1 .. L] /\ IsInjective(order)
      /\ \A t \in 1 .. L : \E i \in 1 .. L : order[i] = t
  BY <1>2, Zenon DEF Bijection, Injection, Surjection
<1>4. \A i, j \in 1 .. L : order[i] = order[j] => i = j
  BY <1>3, Zenon DEF IsInjective
<1>5. order \in Seq(1 .. L) /\ Len(order) = L /\ DOMAIN order = 1 .. L
  <2>1. order = [i \in 1 .. L |-> order[i]]
    BY <1>3
  <2>2. \A i \in 1 .. L : order[i] \in 1 .. L
    BY <1>3
  <2> HIDE <1>2, <1>3
  <2> QED
    BY <1>1, <2>1, <2>2
<1> QED
  BY <1>1, <1>3, <1>4, <1>5

(* rebatch_input: no batch is empty, result i of a batch goes to the place *)
(* of its example i (example_index), no two batches have an example in     *)
(* common, and every example is in one of them.  This holds for any number *)
(* of examples, any lengths, any order of equal lengths, and any maximum.  *)
THEOREM BatchesPartitionTheInput ==
  ASSUME NEW lengths \in Seq(Nat), NEW order \in SortedOrders(lengths),
         NEW limit, NEW kind
  PROVE  LET batches == RebatchInput(lengths, order, limit, kind)
             places == Seq(DOMAIN lengths)
         IN  /\ batches \in Seq([examples : places, exampleIndex : places])
             /\ \A k \in DOMAIN batches :
                  /\ batches[k].examples = batches[k].exampleIndex
                  /\ batches[k].examples # <<>>
             /\ \A j, k \in DOMAIN batches : j # k =>
                  Range(batches[j].exampleIndex) \cap Range(batches[k].exampleIndex) = {}
             /\ \A i \in DOMAIN lengths :
                  \E k \in DOMAIN batches : i \in Range(batches[k].exampleIndex)
<1>0. PICK L : L = Len(lengths)
  OBVIOUS
<1> DEFINE max == IF limit = 0 THEN Len(lengths) ELSE limit
           type == IF limit = 0 THEN "examples" ELSE kind
           sorted == [i \in DOMAIN order |-> lengths[order[i]]]
           size == [o \in 0 .. L - 1 |->
                      FillWithFixedIncrement(SubSeq(sorted, o + 1, Len(lengths)), max, type)]
           piece == [o \in 0 .. L - 1 |->
                       [examples |-> [i \in 1 .. size[o] |-> order[o + i]],
                        exampleIndex |-> IndexSlice(order, o, size[o])]]
           Batches == CHOOSE Batches : Batches = [offset \in 0 .. Len(lengths) |->
             IF offset = Len(lengths)
               THEN <<>>
               ELSE LET rest == SubSeq(sorted, offset + 1, Len(lengths))
                        n == FillWithFixedIncrement(rest, max, type)
                    IN  <<[examples |-> [i \in 1 .. n |-> order[offset + i]],
                           exampleIndex |-> IndexSlice(order, offset, n)]>>
                        \o Batches[offset + n]]
           Places == Seq(DOMAIN lengths)
           Records == [examples : Places, exampleIndex : Places]
<1> HIDE DEF max, type, sorted, size, piece, Batches, Places, Records
<1>1. L \in Nat /\ DOMAIN lengths = 1 .. L /\ DOMAIN order = 1 .. L
  BY <1>0, OrderIsPermutation
<1>2. order \in [1 .. L -> 1 .. L] /\ order \in Seq(1 .. L) /\ Len(order) = L
  BY <1>0, OrderIsPermutation
<1>3. /\ \A i, j \in 1 .. L : order[i] = order[j] => i = j
      /\ \A t \in 1 .. L : \E i \in 1 .. L : order[i] = t
  BY <1>0, OrderIsPermutation
<1>4. sorted \in Seq(Nat) /\ Len(sorted) = L
  <2>1. sorted = [i \in 1 .. L |-> lengths[order[i]]]
    BY <1>1 DEF sorted
  <2>2. \A i \in 1 .. L : lengths[order[i]] \in Nat
    BY <1>1, <1>2, SMTT(30)
  <2> QED
    BY <1>1, <2>1, <2>2
<1>5. ASSUME NEW o \in 0 .. L - 1 PROVE size[o] \in 1 .. L - o
  <2>1. L - o \in Nat /\ o \in Nat /\ o + (L - o) = L /\ L - o > 0
    BY <1>1
  <2>2. SubSeq(sorted, o + 1, L) \in Seq(Nat) /\ Len(SubSeq(sorted, o + 1, L)) = L - o
    <3>1. /\ SubSeq(sorted, o + 1, o + (L - o)) \in Seq(Nat)
          /\ Len(SubSeq(sorted, o + 1, o + (L - o))) = L - o
      BY <1>4, <2>1, Slice
    <3> QED
      BY <2>1, <3>1
  <2>3. SubSeq(sorted, o + 1, L) # <<>>
    <3> DEFINE s == SubSeq(sorted, o + 1, L)
    <3>1. Len(s) > 0
      BY <2>1, <2>2
    <3> HIDE DEF s
    <3>2. s # <<>>
      BY <3>1
    <3> QED
      BY <3>2 DEF s
  <2>4. PICK rest : rest = SubSeq(sorted, o + 1, L)
    OBVIOUS
  <2>5. rest \in Seq(Nat) /\ Len(rest) = L - o /\ rest # <<>>
    BY <2>2, <2>3, <2>4, Zenon
  <2>6. size[o] = FillWithFixedIncrement(rest, max, type)
    BY <1>0, <2>4 DEF size
  <2>7. /\ FillWithFixedIncrement(rest, max, type) \in 0 .. Len(rest)
        /\ rest # <<>> => FillWithFixedIncrement(rest, max, type) > 0
    BY ONLY <2>5, FixedIncrementStops
  <2>8. size[o] \in 0 .. L - o /\ size[o] > 0
    BY <2>5, <2>6, <2>7, Zenon
  <2> QED
    BY <2>1, <2>8
<1>6. ASSUME NEW o \in 0 .. L - 1, NEW i \in 1 .. size[o]
      PROVE  o + i \in 1 .. L
  BY <1>1, <1>5
<1>7. ASSUME NEW o \in 0 .. L - 1
      PROVE  /\ piece[o].examples = piece[o].exampleIndex
             /\ piece[o].examples \in Places
             /\ DOMAIN piece[o].examples = 1 .. size[o]
             /\ \A i \in 1 .. size[o] : piece[o].examples[i] = order[o + i]
  <2>1. size[o] \in 1 .. L - o
    BY <1>5
  <2>2. o \in Nat /\ size[o] \in Nat /\ o + size[o] <= L
    BY <1>1, <2>1
  <2> DEFINE t == IndexSlice(order, o, size[o])
  <2>3. t = [i \in 1 .. size[o] |-> order[o + i]] /\ t \in Seq(1 .. L)
    <3>1. order \in Seq(1 .. L) /\ o \in Nat /\ size[o] \in Nat /\ o + size[o] <= Len(order)
      BY <1>2, <2>2
    <3>2. /\ \A i \in 1 .. size[o] : SubSeq(order, o + 1, o + size[o])[i] = order[o + i]
          /\ SubSeq(order, o + 1, o + size[o]) \in Seq(1 .. L)
          /\ Len(SubSeq(order, o + 1, o + size[o])) = size[o]
      <4>1. PICK S, n : S = 1 .. L /\ n = size[o]
        OBVIOUS
      <4>2. order \in Seq(S) /\ o \in Nat /\ n \in Nat /\ o + n <= Len(order)
        BY <3>1, <4>1
      <4>3. /\ \A i \in 1 .. n : SubSeq(order, o + 1, o + n)[i] = order[o + i]
            /\ SubSeq(order, o + 1, o + n) \in Seq(S)
            /\ Len(SubSeq(order, o + 1, o + n)) = n
        BY ONLY <4>2, Slice
      <4> QED
        BY <4>1, <4>3, Zenon
    <3>3. /\ \A i \in 1 .. size[o] : t[i] = order[o + i]
          /\ t \in Seq(1 .. L)
          /\ Len(t) = size[o]
      BY <3>2, Zenon DEF IndexSlice
    <3> HIDE DEF t
    <3> QED
      BY <3>3
  <2>4. piece[o].examples = [i \in 1 .. size[o] |-> order[o + i]]
        /\ piece[o].exampleIndex = IndexSlice(order, o, size[o])
    BY DEF piece
  <2> QED
    BY <1>1, <2>3, <2>4 DEF Places
<1>8. \A o \in 0 .. L - 1 : piece[o] \in Records
  <2> SUFFICES ASSUME NEW o \in 0 .. L - 1 PROVE piece[o] \in Records
    OBVIOUS
  <2>1. piece[o].examples \in Places /\ piece[o].exampleIndex \in Places
    BY <1>7
  <2>2. piece[o] = [examples |-> piece[o].examples, exampleIndex |-> piece[o].exampleIndex]
    BY DEF piece
  <2> QED
    BY <2>1, <2>2 DEF Records
<1>9. Follows(Batches, L, piece, size)
  <2> DEFINE Body(B) == [offset \in 0 .. Len(lengths) |->
               IF offset = Len(lengths)
                 THEN <<>>
                 ELSE LET rest == SubSeq(sorted, offset + 1, Len(lengths))
                          n == FillWithFixedIncrement(rest, max, type)
                      IN  <<[examples |-> [i \in 1 .. n |-> order[offset + i]],
                             exampleIndex |-> IndexSlice(order, offset, n)]>>
                          \o B[offset + n]]
  <2>1. ASSUME NEW B
        PROVE Body(B) = [i \in 0 .. L |-> IF i = L THEN <<>> ELSE <<piece[i]>> \o B[i + size[i]]]
    <3>1. ASSUME NEW o \in 0 .. L, o # L
          PROVE Body(B)[o] = <<piece[o]>> \o B[o + size[o]]
      <4>1. o \in 0 .. L - 1
        BY <1>1, <3>1
      <4>2. Body(B)[o] = <<piece[o]>> \o B[o + size[o]]
        BY <1>0, <3>1, <4>1, Zenon DEF size, piece
      <4> HIDE DEF Body
      <4> QED
        BY <4>1, <4>2, Zenon
    <3>2. Body(B) = [o \in 0 .. L |-> Body(B)[o]]
      BY <1>0, Zenon
    <3>3. ASSUME NEW o \in 0 .. L, o = L PROVE Body(B)[o] = <<>>
      BY <1>0, <3>3, Zenon
    <3> HIDE DEF Body
    <3> QED
      BY <3>1, <3>2, <3>3, Zenon
  <2>2. \E B : Follows(B, L, piece, size)
    BY <1>1, <1>5, ChunksExist
  <2>3. \E B : B = Body(B)
    <3> HIDE DEF Body
    <3> QED
      BY <2>1, <2>2, Zenon DEF Follows
  <2>4. Batches = Body(Batches)
    BY <2>3, Zenon DEF Batches
  <2> HIDE DEF Body
  <2> QED
    BY <2>1, <2>4, Zenon DEF Follows
<1>10. RebatchInput(lengths, order, limit, kind) = Batches[0]
  BY Zenon DEF RebatchInput, Batches, max, type, sorted
<1>11. Batches[0] \in Seq(Records) /\ \E at : Chunks(Batches[0], at, 0, L, piece, size)
  BY <1>1, <1>5, <1>8, <1>9, ChunksCover
<1> DEFINE batches == Batches[0]
<1> HIDE DEF batches
<1>12. PICK at : Chunks(batches, at, 0, L, piece, size)
  BY <1>11 DEF batches
<1>13. ASSUME NEW k \in DOMAIN batches
       PROVE  /\ at[k] \in 0 .. L - 1 /\ batches[k] = piece[at[k]]
              /\ Range(batches[k].exampleIndex) =
                    {order[i] : i \in at[k] + 1 .. at[k] + size[at[k]]}
  <2>1. at[k] \in 0 .. L - 1 /\ batches[k] = piece[at[k]]
    BY <1>11, <1>12 DEF Chunks, batches
  <2>2. DOMAIN batches[k].exampleIndex = 1 .. size[at[k]]
        /\ \A i \in 1 .. size[at[k]] : batches[k].exampleIndex[i] = order[at[k] + i]
    BY <1>7, <2>1
  <2>3. size[at[k]] \in 1 .. L - at[k]
    BY <1>5, <2>1
  <2>4. \A i \in 1 .. size[at[k]] : at[k] + i \in at[k] + 1 .. at[k] + size[at[k]]
    BY <2>1, <2>3
  <2>5. \A i \in at[k] + 1 .. at[k] + size[at[k]] :
          i - at[k] \in 1 .. size[at[k]] /\ at[k] + (i - at[k]) = i
    BY <2>1, <2>3
  <2> DEFINE s == batches[k].exampleIndex
             a == at[k]
             n == size[at[k]]
  <2>6. DOMAIN s = 1 .. n /\ \A i \in 1 .. n : s[i] = order[a + i]
    BY <2>2
  <2> HIDE DEF s, a, n
  <2>7. \A x : x \in Range(s) => x \in {order[i] : i \in a + 1 .. a + n}
    BY <2>4, <2>6, Zenon DEF Range, a, n
  <2>8. \A x : x \in {order[i] : i \in a + 1 .. a + n} => x \in Range(s)
    <3> SUFFICES ASSUME NEW i \in a + 1 .. a + n PROVE order[i] \in Range(s)
      OBVIOUS
    <3>1. i - a \in 1 .. n /\ a + (i - a) = i
      BY <2>5 DEF a, n
    <3>2. s[i - a] = order[i]
      BY <2>6, <3>1, Zenon
    <3> QED
      BY <2>6, <3>1, <3>2, Zenon DEF Range
  <2>9. Range(s) = {order[i] : i \in a + 1 .. a + n}
    BY <2>7, <2>8
  <2> QED
    BY <2>1, <2>9 DEF s, a, n
<1>14. batches \in Seq([examples : Places, exampleIndex : Places]) /\
      DOMAIN batches = 1 .. Len(batches)
  BY <1>11 DEF batches, Records
<1>15. ASSUME NEW k \in DOMAIN batches
       PROVE  batches[k].examples = batches[k].exampleIndex /\ batches[k].examples # <<>>
  <2>1. at[k] \in 0 .. L - 1 /\ batches[k] = piece[at[k]]
    BY <1>13
  <2>2. DOMAIN batches[k].examples = 1 .. size[at[k]]
        /\ batches[k].examples = batches[k].exampleIndex
    BY <1>7, <2>1
  <2>3. 1 \in 1 .. size[at[k]]
    BY <1>1, <1>5, <2>1
  <2>4. DOMAIN <<>> = {}
    OBVIOUS
  <2> QED
    BY <2>2, <2>3, <2>4, Zenon
<1>16. ASSUME NEW j \in DOMAIN batches, NEW k \in DOMAIN batches, j < k
       PROVE  Range(batches[j].exampleIndex) \cap Range(batches[k].exampleIndex) = {}
  <2>1. at[j] + size[at[j]] <= at[k] /\ at[j] \in 0 .. L - 1 /\ at[k] \in 0 .. L - 1
        /\ size[at[j]] \in 1 .. L - at[j] /\ size[at[k]] \in 1 .. L - at[k]
    BY <1>5, <1>12, <1>13, <1>14, <1>16 DEF Chunks
  <2>2. ASSUME NEW m \in at[j] + 1 .. at[j] + size[at[j]],
        NEW n \in at[k] + 1 .. at[k] + size[at[k]]
        PROVE  order[m] # order[n]
    <3>1. m \in 1 .. L /\ n \in 1 .. L /\ m < n
      BY <1>1, <2>1, Apart
    <3> QED
      BY <1>3, <3>1
  <2>3. Range(batches[j].exampleIndex) = {order[i] : i \in at[j] + 1 .. at[j] + size[at[j]]}
    BY <1>13, Zenon
  <2>4. Range(batches[k].exampleIndex) = {order[i] : i \in at[k] + 1 .. at[k] + size[at[k]]}
    BY <1>13, Zenon
  <2>5. \A x : ~(x \in Range(batches[j].exampleIndex) /\ x \in Range(batches[k].exampleIndex))
    BY <2>2, <2>3, <2>4, Zenon
  <2> QED
    BY <2>5, Zenon
<1>17. ASSUME NEW t \in DOMAIN lengths
       PROVE  \E k \in DOMAIN batches : t \in Range(batches[k].exampleIndex)
  <2>1. PICK i \in 1 .. L : order[i] = t
    BY <1>1, <1>3
  <2>2. PICK k \in DOMAIN batches : i \in at[k] + 1 .. at[k] + size[at[k]]
    <3>1. i \in 0 + 1 .. L
      OBVIOUS
    <3> QED
      BY <1>12, <1>14, <3>1, Zenon DEF Chunks
  <2> QED
    BY <1>13, <2>1, <2>2
<1>18. ASSUME NEW j \in DOMAIN batches, NEW k \in DOMAIN batches, j # k
       PROVE  Range(batches[j].exampleIndex) \cap Range(batches[k].exampleIndex) = {}
  <2>1. j < k \/ k < j
    BY <1>14, <1>18
  <2> QED
    BY <1>16, <2>1
<1> QED
  BY <1>10, <1>14, <1>15, <1>17, <1>18 DEF batches, Places

-----------------------------------------------------------------------------
(* The pool.                                                               *)

Stages == {"reading", "posting", "popping", "draining", "done", "failed"}
Kinds == {"running", "value", "exception"}

(* Types; and the jobs that were started are the first accepted ones.      *)
Shape ==
  /\ lens \in [Callers -> Seq(Nat)]
  /\ torn \in [Callers -> BOOLEAN]
  /\ stage \in [Callers -> Stages]
  /\ read \in [Callers -> Nat]
  /\ toPost \in [Callers -> Seq(BatchJobs)]
  /\ chunk \in [Callers -> Seq(Nat)]
  /\ results \in [Callers -> Seq(Nat)]
  /\ written \in [Callers -> Seq(Int)]
  /\ promise \in [Callers -> Seq(Int)]
  /\ accepted \in Seq(BatchJobs)
  /\ started \in Seq(BatchJobs)
  /\ \A c \in Callers : read[c] <= Len(lens[c]) /\ Len(promise[c]) = Len(lens[c])

(* The pool underneath: a job is accepted once; the jobs that were started *)
(* are the first ones, and the replicas run those that are not finished.   *)
PoolFollows ==
  /\ \A m, n \in 1 .. Len(accepted) : accepted[m] = accepted[n] => m = n
  /\ Len(started) <= Len(accepted)
  /\ \A k \in 1 .. Len(started) : started[k] = accepted[k]
  /\ finished \subseteq Range(started)
  /\ DOMAIN execution = Range(started) \ finished
  /\ threw \subseteq Range(started)
  /\ \A job \in DOMAIN execution : execution[job] \in [kind : Kinds, set : Nat]

Apart2(job, other) == Range(job.promises) \cap Range(other.promises) = {}

(* Whatever is read from the input is in one batch, whose results have the *)
(* places of its examples.                                                 *)
ReadJobs ==
  {job \in BatchJobs :
     /\ job.examples = job.promises
     /\ \A i \in Range(job.promises) : i \in 1 .. read[job.caller]}

JobsAreApart ==
  /\ \A m \in 1 .. Len(accepted) : accepted[m] \in ReadJobs
  /\ \A m, n \in 1 .. Len(accepted) :
       m # n /\ accepted[m].caller = accepted[n].caller => Apart2(accepted[m], accepted[n])
  /\ \A c \in Callers :
       /\ stage[c] # "posting" => toPost[c] = <<>>
       /\ \A k \in 1 .. Len(toPost[c]) : toPost[c][k].caller = c /\ toPost[c][k] \in ReadJobs
       /\ \A k, l \in 1 .. Len(toPost[c]) : k # l => Apart2(toPost[c][k], toPost[c][l])
       /\ \A k \in 1 .. Len(toPost[c]), m \in 1 .. Len(accepted) :
            accepted[m].caller = c => Apart2(toPost[c][k], accepted[m])

(* What a promise of the job holds in the end.                             *)
Outcome(job, i) == IF job \in threw THEN Exception ELSE i

(* The promises of a job, up to the one that is set next, hold its outcome. *)
JobsSetTheirPromises ==
  /\ \A job \in DOMAIN execution :
       /\ execution[job].set <= Len(job.promises)
       /\ execution[job].kind = "running" => execution[job].set = 0
       /\ execution[job].kind = "exception" <=> job \in threw
       /\ \A k \in 1 .. execution[job].set :
            promise[job.caller][job.promises[k]] = Outcome(job, job.promises[k])
  /\ \A job \in finished : \A i \in Range(job.promises) :
       promise[job.caller][i] = Outcome(job, i)

(* A promise that is set holds its own result, or an exception of a batch  *)
(* of its caller.                                                          *)
PromisesFollow ==
  \A c \in Callers : \A i \in 1 .. Len(lens[c]) :
    \/ promise[c][i] \in {Unset, i}
    \/ promise[c][i] = Exception /\ \E job \in threw : job.caller = c

(* The results that were written, those in the queue and those of the      *)
(* chunk that is being posted are those of the examples that were read.    *)
Queued(c) == Len(written[c]) + Len(results[c])

ResultsInOrder ==
  \A c \in Callers :
    /\ \A i \in 1 .. Len(written[c]) : written[c][i] = i
    /\ \A i \in 1 .. Len(results[c]) : results[c][i] = Len(written[c]) + i
    /\ stage[c] = "posting" =>
         /\ Queued(c) + Len(chunk[c]) = read[c]
         /\ \A i \in 1 .. Len(chunk[c]) : chunk[c][i] = Queued(c) + i
    /\ stage[c] # "posting" => Queued(c) = read[c]
    /\ stage[c] \in {"draining", "done"} => ~torn[c] /\ read[c] = Len(lens[c])
    /\ stage[c] = "done" => results[c] = <<>>
    /\ stage[c] = "failed" => torn[c] \/ \E job \in threw : job.caller = c

IInv ==
  Shape /\ PoolFollows /\ JobsAreApart /\ JobsSetTheirPromises /\ PromisesFollow /\ ResultsInOrder

-----------------------------------------------------------------------------
(* What the operations change.                                             *)

(* get_next of consume_batches takes one example at least, if there is one *)
(* left, and no more than are left.                                        *)
LEMMA NextReadStops ==
  ASSUME NEW c \in Callers, Shape
  PROVE  /\ read[c] \in Nat /\ Len(lens[c]) \in Nat /\ lens[c] \in Seq(Nat)
         /\ NextRead(c) \in 0 .. Len(lens[c]) - read[c]
         /\ read[c] < Len(lens[c]) => NextRead(c) > 0
<1>1. /\ read[c] \in Nat /\ Len(lens[c]) \in Nat /\ lens[c] \in Seq(Nat)
      /\ read[c] <= Len(lens[c])
  BY DEF Shape
<1>2. PICK m, l, r : m = Len(lens[c]) - read[c] /\ l = lens[c] /\ r = read[c]
  OBVIOUS
<1>3. /\ m \in Nat /\ r \in Nat /\ r + m = Len(l) /\ l \in Seq(Nat)
      /\ r + m <= Len(l) /\ m = Len(l) - r
  BY <1>1, <1>2
<1>4. PICK rest : rest = SubSeq(l, r + 1, r + m)
  OBVIOUS
<1>5. rest \in Seq(Nat) /\ Len(rest) = m
  <2>1. PICK S : S = Nat
    OBVIOUS
  <2>2. l \in Seq(S) /\ r \in Nat /\ m \in Nat /\ r + m <= Len(l)
    BY <1>3, <2>1
  <2>3. SubSeq(l, r + 1, r + m) \in Seq(S) /\ Len(SubSeq(l, r + 1, r + m)) = m
    BY ONLY <2>2, Slice
  <2> QED
    BY <1>4, <2>1, <2>3, Zenon
<1>6. PICK max, type : max = ReadBatchSize(ReadSize, MaxBatchSize) /\ type = BatchTypeUsed
  OBVIOUS
<1>7. NextRead(c) = FillWithVariableIncrement(rest, max, type)
  <2>1. rest = SubSeq(lens[c], read[c] + 1, Len(lens[c]))
    BY <1>2, <1>3, <1>4
  <2> QED
    BY <1>6, <2>1 DEF NextRead
<1>8. /\ FillWithVariableIncrement(rest, max, type) \in 0 .. Len(rest)
      /\ rest # <<>> => FillWithVariableIncrement(rest, max, type) > 0
  BY ONLY <1>5, VariableIncrementStops
<1>9. NextRead(c) \in 0 .. m /\ (rest # <<>> => NextRead(c) > 0)
  BY <1>5, <1>7, <1>8, Zenon
<1>10. r < Len(l) => rest # <<>>
  BY <1>3, <1>5
<1> QED
  BY <1>1, <1>2, <1>9, <1>10

(* The jobs of a chunk: their promises are those of the n examples behind  *)
(* the first `read`, and no two of them have a promise in common.          *)
JobsOfChunk(jobs, c, r, n) ==
  /\ jobs \in Seq(BatchJobs)
  /\ \A k \in 1 .. Len(jobs) :
       /\ jobs[k].caller = c
       /\ jobs[k].examples = jobs[k].promises
       /\ \A i \in Range(jobs[k].promises) : i \in r + 1 .. r + n
  /\ \A k, l \in 1 .. Len(jobs) : k # l => Apart2(jobs[k], jobs[l])

LEMMA ChunkIsPosted ==
  ASSUME NEW c \in Callers, Shape, NEW n \in Nat, read[c] + n <= Len(lens[c]),
         NEW order \in SortedOrders(SubSeq(lens[c], read[c] + 1, read[c] + n)),
         NEW batches,
         batches = RebatchInput(SubSeq(lens[c], read[c] + 1, read[c] + n), order,
                                MaxBatchSize, BatchTypeUsed)
  PROVE  JobsOfChunk([b \in DOMAIN batches |-> JobOf(c, batches[b])], c, read[c], n)
<1>1. read[c] \in Nat /\ lens[c] \in Seq(Nat)
  BY DEF Shape
<1>2. PICK l, r, s : l = lens[c] /\ r = read[c] /\ s = SubSeq(l, r + 1, r + n)
  OBVIOUS
<1>3. r \in Nat /\ l \in Seq(Nat) /\ r + n <= Len(l)
  BY <1>1, <1>2
<1>4. s \in Seq(Nat) /\ Len(s) = n
  <2>1. PICK S : S = Nat
    OBVIOUS
  <2>2. l \in Seq(S) /\ r \in Nat /\ n \in Nat /\ r + n <= Len(l)
    BY <1>3, <2>1
  <2>3. SubSeq(l, r + 1, r + n) \in Seq(S) /\ Len(SubSeq(l, r + 1, r + n)) = n
    BY ONLY <2>2, Slice
  <2> QED
    BY <1>2, <2>1, <2>3, Zenon
<1>5. DOMAIN s = 1 .. n
  BY <1>4
<1> DEFINE Places == Seq(1 .. n)
<1>6. order \in SortedOrders(s) /\ batches = RebatchInput(s, order, MaxBatchSize, BatchTypeUsed)
  BY <1>2, Zenon
<1>7. /\ batches \in Seq([examples : Places, exampleIndex : Places])
      /\ \A k \in DOMAIN batches : batches[k].examples = batches[k].exampleIndex
      /\ \A j, k \in DOMAIN batches : j # k =>
           Range(batches[j].exampleIndex) \cap Range(batches[k].exampleIndex) = {}
  <2>1. PICK max, type : max = MaxBatchSize /\ type = BatchTypeUsed
    OBVIOUS
  <2>2. order \in SortedOrders(s) /\ batches = RebatchInput(s, order, max, type)
    BY <1>6, <2>1, Zenon
  <2>3. LET bs == RebatchInput(s, order, max, type)
            places == Seq(DOMAIN s)
        IN  /\ bs \in Seq([examples : places, exampleIndex : places])
            /\ \A k \in DOMAIN bs :
                 /\ bs[k].examples = bs[k].exampleIndex
                 /\ bs[k].examples # <<>>
            /\ \A j, k \in DOMAIN bs : j # k =>
                 Range(bs[j].exampleIndex) \cap Range(bs[k].exampleIndex) = {}
            /\ \A i \in DOMAIN s :
                 \E k \in DOMAIN bs : i \in Range(bs[k].exampleIndex)
    BY ONLY <1>4, <2>2, BatchesPartitionTheInput
  <2> QED
    BY <1>5, <2>2, <2>3, Zenon
<1> DEFINE jobs == [b \in DOMAIN batches |-> JobOf(c, batches[b])]
<1>8. PICK N \in Nat : DOMAIN batches = 1 .. N
  BY <1>7
<1>9. ASSUME NEW b \in 1 .. N
      PROVE  /\ batches[b] \in [examples : Places, exampleIndex : Places]
             /\ batches[b].examples \in Places /\ batches[b].exampleIndex \in Places
             /\ batches[b].examples = batches[b].exampleIndex
  <2>1. b \in DOMAIN batches
    BY <1>8, Zenon
  <2>2. PICK Records : Records = [examples : Places, exampleIndex : Places]
    OBVIOUS
  <2>3. batches \in Seq(Records)
    BY <1>7, <2>2, Zenon
  <2>4. batches[b] \in Records
    BY ONLY <2>1, <2>3
  <2> HIDE DEF Places
  <2>5. batches[b] \in [examples : Places, exampleIndex : Places]
    BY <2>2, <2>4, Zenon
  <2> QED
    BY <1>7, <2>1, <2>5
<1>10. ASSUME NEW b \in 1 .. N
       PROVE  /\ jobs[b].caller = c
              /\ jobs[b].examples = jobs[b].promises
              /\ DOMAIN jobs[b].promises = DOMAIN batches[b].exampleIndex
              /\ \A k \in DOMAIN batches[b].exampleIndex :
                   jobs[b].promises[k] = r + batches[b].exampleIndex[k]
              /\ jobs[b].promises \in Seq(Nat)
              /\ jobs[b] \in BatchJobs
              /\ \A i \in Range(jobs[b].promises) : i \in r + 1 .. r + n
  <2> DEFINE p == [k \in DOMAIN batches[b].exampleIndex |-> r + batches[b].exampleIndex[k]]
  <2>1. jobs[b] = [caller |-> c, examples |-> p, promises |-> p]
    <3>1. jobs[b] = JobOf(c, batches[b])
      BY <1>8
    <3> QED
      BY <1>2, <1>9, <3>1, Zenon DEF JobOf
  <2>2. p \in Seq(Nat) /\ \A k \in DOMAIN p : p[k] \in r + 1 .. r + n
    <3>1. PICK index : index = batches[b].exampleIndex
      OBVIOUS
    <3>2. index \in Seq(1 .. n)
      BY <1>9, <3>1
    <3>3. PICK m \in Nat : DOMAIN index = 1 .. m
      BY <3>2
    <3>4. \A k \in 1 .. m : index[k] \in 1 .. n
      BY <3>2, <3>3
    <3>5. \A k \in 1 .. m : r + index[k] \in r + 1 .. r + n /\ r + index[k] \in Nat
      BY <1>3, <3>4
    <3>6. [k \in 1 .. m |-> r + index[k]] \in Seq(Nat)
      BY <3>5
    <3> QED
      BY <3>1, <3>3, <3>5, <3>6, Zenon
  <2> HIDE DEF jobs
  <2>3. \A k \in DOMAIN batches[b].exampleIndex : p[k] = r + batches[b].exampleIndex[k]
    OBVIOUS
  <2>4. DOMAIN p = DOMAIN batches[b].exampleIndex
    OBVIOUS
  <2> HIDE DEF p
  <2>5. jobs[b].caller = c /\ jobs[b].examples = p /\ jobs[b].promises = p
    BY <2>1
  <2>6. jobs[b] \in BatchJobs
    BY <2>1, <2>2 DEF BatchJobs
  <2>7. \A i \in Range(p) : i \in r + 1 .. r + n
    BY <2>2, Zenon DEF Range
  <2> QED
    BY <2>2, <2>3, <2>4, <2>5, <2>6, <2>7, Zenon
<1>11. jobs \in Seq(BatchJobs) /\ Len(jobs) = N
  <2>1. jobs = [b \in 1 .. N |-> jobs[b]]
    BY <1>8
  <2>2. \A b \in 1 .. N : jobs[b] \in BatchJobs
    BY <1>10
  <2> HIDE DEF jobs
  <2> QED
    BY <2>1, <2>2
<1>12. ASSUME NEW j \in 1 .. N, NEW k \in 1 .. N, j # k
       PROVE  Apart2(jobs[j], jobs[k])
  <2> SUFFICES ASSUME NEW i, i \in Range(jobs[j].promises), i \in Range(jobs[k].promises)
               PROVE  FALSE
    BY Zenon DEF Apart2
  <2> HIDE DEF jobs
  <2>1. PICK a \in DOMAIN batches[j].exampleIndex : i = r + batches[j].exampleIndex[a]
    BY <1>10, Zenon DEF Range
  <2>2. PICK b \in DOMAIN batches[k].exampleIndex : i = r + batches[k].exampleIndex[b]
    BY <1>10, Zenon DEF Range
  <2>3. batches[j].exampleIndex[a] \in 1 .. n /\ batches[k].exampleIndex[b] \in 1 .. n
    <3>1. ASSUME NEW index \in Places, NEW x \in DOMAIN index PROVE index[x] \in 1 .. n
      OBVIOUS
    <3> QED
      BY <1>9, <2>1, <2>2, <3>1, Zenon
  <2>4. batches[j].exampleIndex[a] = batches[k].exampleIndex[b]
    <3>1. PICK x, y : x = batches[j].exampleIndex[a] /\ y = batches[k].exampleIndex[b]
      OBVIOUS
    <3>2. x \in Nat /\ y \in Nat /\ r + x = r + y
      BY <2>1, <2>2, <2>3, <3>1
    <3> QED
      BY <1>3, <3>1, <3>2, SMTT(30)
  <2>5. /\ batches[j].exampleIndex[a] \in Range(batches[j].exampleIndex)
        /\ batches[k].exampleIndex[b] \in Range(batches[k].exampleIndex)
    BY <2>1, <2>2, Zenon DEF Range
  <2> QED
    BY <1>7, <1>8, <1>12, <2>4, <2>5, Zenon
<1> HIDE DEF jobs
<1>13. JobsOfChunk(jobs, c, r, n)
  BY <1>10, <1>11, <1>12, Zenon DEF JobsOfChunk
<1> QED
  BY <1>2, <1>13, Zenon DEF jobs

(* The members of a batch job, and the jobs in a queue.                    *)
LEMMA MembersOfJob ==
  ASSUME NEW job \in BatchJobs
  PROVE  /\ job.caller \in Callers
         /\ job.examples \in Seq(Nat) /\ job.promises \in Seq(Nat)
         /\ DOMAIN job.promises = 1 .. Len(job.promises) /\ Len(job.promises) \in Nat
         /\ \A i : i \in Range(job.promises) <=>
                     \E k \in 1 .. Len(job.promises) : i = job.promises[k]
<1>1. job.caller \in Callers /\ job.examples \in Seq(Nat) /\ job.promises \in Seq(Nat)
  BY DEF BatchJobs
<1>2. DOMAIN job.promises = 1 .. Len(job.promises) /\ Len(job.promises) \in Nat
  BY <1>1
<1> QED
  BY <1>1, <1>2, Zenon DEF Range

LEMMA JobsInQueue ==
  ASSUME NEW jobs \in Seq(BatchJobs)
  PROVE  /\ Len(jobs) \in Nat /\ DOMAIN jobs = 1 .. Len(jobs)
         /\ \A k \in 1 .. Len(jobs) : jobs[k] \in BatchJobs /\ jobs[k] \in Range(jobs)
         /\ \A job \in Range(jobs) : job \in BatchJobs /\ \E k \in 1 .. Len(jobs) : job = jobs[k]
<1>1. Len(jobs) \in Nat /\ DOMAIN jobs = 1 .. Len(jobs)
  OBVIOUS
<1>2. \A k \in 1 .. Len(jobs) : jobs[k] \in BatchJobs
  OBVIOUS
<1> QED
  BY <1>1, <1>2, Zenon DEF Range

(* A job that is added to a queue is its last one.                         *)
LEMMA JobsAfterAppend ==
  ASSUME NEW jobs \in Seq(BatchJobs), NEW job \in BatchJobs, NEW more, more = Append(jobs, job)
  PROVE  /\ more \in Seq(BatchJobs) /\ Len(more) = Len(jobs) + 1 /\ Len(jobs) \in Nat
         /\ more[Len(jobs) + 1] = job
         /\ \A k \in 1 .. Len(jobs) : more[k] = jobs[k]
         /\ \A k \in 1 .. Len(more) : k \in 1 .. Len(jobs) \/ k = Len(jobs) + 1
         /\ Range(more) = Range(jobs) \cup {job}
<1>1. /\ more \in Seq(BatchJobs) /\ Len(more) = Len(jobs) + 1 /\ Len(jobs) \in Nat
      /\ more[Len(jobs) + 1] = job
      /\ \A k \in 1 .. Len(jobs) : more[k] = jobs[k]
  OBVIOUS
<1>2. \A k \in 1 .. Len(more) : k \in 1 .. Len(jobs) \/ k = Len(jobs) + 1
  BY <1>1
<1>3. /\ \A k \in 1 .. Len(jobs) : k \in 1 .. Len(more)
      /\ Len(jobs) + 1 \in 1 .. Len(more)
  BY <1>1
<1>4. /\ \A j : j \in Range(jobs) <=> \E k \in 1 .. Len(jobs) : j = jobs[k]
      /\ \A j : j \in Range(more) <=> \E k \in 1 .. Len(more) : j = more[k]
  BY <1>1, JobsInQueue
<1>5. ASSUME NEW j PROVE j \in Range(more) <=> j \in Range(jobs) \cup {job}
  <2>1. ASSUME j \in Range(more) PROVE j \in Range(jobs) \cup {job}
    <3>1. PICK k \in 1 .. Len(more) : j = more[k]
      BY <1>4, <2>1
    <3>2. CASE k \in 1 .. Len(jobs)
      BY <1>1, <1>4, <3>1, <3>2, Zenon
    <3>3. CASE k = Len(jobs) + 1
      BY <1>1, <3>1, <3>3, Zenon
    <3> QED
      BY <1>2, <3>2, <3>3
  <2>2. ASSUME j \in Range(jobs) PROVE j \in Range(more)
    <3>1. PICK k \in 1 .. Len(jobs) : j = jobs[k]
      BY <1>4, <2>2
    <3>2. k \in 1 .. Len(more) /\ j = more[k]
      BY <1>1, <1>3, <3>1, Zenon
    <3> QED
      BY <1>4, <3>2, Zenon
  <2>3. ASSUME j = job PROVE j \in Range(more)
    <3>1. \E k \in 1 .. Len(more) : job = more[k]
      BY <1>1, <1>3
    <3>2. job \in Range(more)
      BY <1>4, <3>1, Zenon
    <3> QED
      BY <2>3, <3>2
  <2> QED
    BY <2>1, <2>2, <2>3
<1> QED
  BY <1>1, <1>2, <1>5

(* post_batch appends the first batch to the jobs of the pool.             *)
LEMMA FirstBatchIsAccepted ==
  ASSUME NEW c \in Callers, Shape, PostBatch(c), NEW jobs, jobs = toPost[c]
  PROVE  /\ stage[c] = "posting"
         /\ jobs \in Seq(BatchJobs) /\ Len(jobs) \in Nat /\ Len(jobs) > 0
         /\ jobs[1] \in BatchJobs /\ jobs[1] \notin Range(accepted)
         /\ accepted' = Append(accepted, jobs[1])
         /\ toPost' = [toPost EXCEPT ![c] = Tail(jobs)]
         /\ Tail(jobs) \in Seq(BatchJobs) /\ Len(Tail(jobs)) = Len(jobs) - 1
         /\ \A k \in 1 .. Len(jobs) - 1 : Tail(jobs)[k] = jobs[k + 1]
         /\ UNCHANGED <<started, finished, execution, threw, lens, torn, stage, read, chunk,
                        results, written, promise>>
<1>1. jobs \in Seq(BatchJobs)
  BY DEF Shape
<1>2. /\ stage[c] = "posting" /\ jobs # <<>> /\ Pool!Accept(Head(jobs))
      /\ toPost' = [toPost EXCEPT ![c] = Tail(jobs)]
      /\ UNCHANGED <<execution, threw, lens, torn, stage, read, chunk, results, written, promise>>
  BY DEF PostBatch
<1>3. /\ Head(jobs) \notin Range(accepted)
      /\ accepted' = Append(accepted, Head(jobs))
      /\ UNCHANGED <<started, finished>>
  BY <1>2, Zenon DEF Pool!Accept, Pool!Range, Range
<1>4. /\ Len(jobs) \in Nat /\ Len(jobs) > 0 /\ Head(jobs) = jobs[1] /\ jobs[1] \in BatchJobs
      /\ Tail(jobs) \in Seq(BatchJobs) /\ Len(Tail(jobs)) = Len(jobs) - 1
      /\ \A k \in 1 .. Len(jobs) - 1 : Tail(jobs)[k] = jobs[k + 1]
  BY <1>1, <1>2
<1> QED
  BY <1>1, <1>2, <1>3, <1>4, Zenon

(* A replica takes the first job that was not started.                     *)
LEMMA NextJobIsTaken ==
  ASSUME Shape, PoolFollows, Take, NEW n, n = Len(started) + 1
  PROVE  /\ n \in 1 .. Len(accepted)
         /\ accepted[n] \in BatchJobs
         /\ accepted[n] \notin Range(started)
         /\ started' = Append(started, accepted[n])
         /\ DOMAIN execution' = DOMAIN execution \cup {accepted[n]}
         /\ execution'[accepted[n]] = [kind |-> "running", set |-> 0]
         /\ \A job \in DOMAIN execution : execution'[job] = execution[job]
         /\ UNCHANGED <<accepted, finished, threw, callerVars, promise>>
<1>1. /\ Len(started) < Len(accepted)
      /\ started' = Append(started, accepted[n])
      /\ UNCHANGED <<accepted, finished, threw, callerVars, promise>>
  BY DEF Take, Pool!Start
<1>2. accepted \in Seq(BatchJobs) /\ started \in Seq(BatchJobs)
  BY DEF Shape
<1>3. n \in 1 .. Len(accepted) /\ accepted[n] \in BatchJobs
  BY <1>1, <1>2
<1>4. accepted[n] \notin Range(started)
  <2> SUFFICES ASSUME accepted[n] \in Range(started) PROVE FALSE
    OBVIOUS
  <2>1. PICK k \in 1 .. Len(started) : accepted[n] = started[k]
    BY <1>2, JobsInQueue
  <2>2. k \in 1 .. Len(accepted) /\ started[k] = accepted[k] /\ k # n
    BY <1>1, <1>2 DEF PoolFollows
  <2> QED
    BY <1>3, <2>1, <2>2 DEF PoolFollows
<1>5. execution' = [j \in DOMAIN execution \cup {accepted[n]} |->
                      IF j = accepted[n] THEN [kind |-> "running", set |-> 0]
                                         ELSE execution[j]]
  BY DEF Take
<1>6. accepted[n] \notin DOMAIN execution
  BY <1>4 DEF PoolFollows
<1> QED
  BY <1>1, <1>3, <1>4, <1>5, <1>6, Zenon

(* A replica that ends a job forgets it.                                   *)
LEMMA JobIsFinished ==
  ASSUME NEW job \in DOMAIN execution, RunEnd(job)
  PROVE  /\ execution[job].kind # "running" /\ execution[job].set = Len(job.promises)
         /\ finished' = finished \cup {job}
         /\ DOMAIN execution' = DOMAIN execution \ {job}
         /\ \A other \in DOMAIN execution \ {job} : execution'[other] = execution[other]
         /\ UNCHANGED <<accepted, started, threw, callerVars, promise>>
BY Zenon DEF RunEnd, Pool!Finish

(* The jobs in progress were accepted, and are not finished.               *)
LEMMA JobsInProgress ==
  ASSUME Shape, PoolFollows
  PROVE  /\ \A job \in Range(started) :
              job \in BatchJobs /\ \E m \in 1 .. Len(accepted) : job = accepted[m]
         /\ \A job \in DOMAIN execution :
              /\ job \in Range(started) /\ job \notin finished
              /\ execution[job].kind \in Kinds /\ execution[job].set \in Nat
              /\ execution[job] = [kind |-> execution[job].kind, set |-> execution[job].set]
<1>1. ASSUME NEW job \in Range(started)
      PROVE  job \in BatchJobs /\ \E m \in 1 .. Len(accepted) : job = accepted[m]
  <2>1. started \in Seq(BatchJobs) /\ accepted \in Seq(BatchJobs)
    BY DEF Shape
  <2>2. job \in BatchJobs /\ \E k \in 1 .. Len(started) : job = started[k]
    BY <2>1, JobsInQueue
  <2>3. PICK k \in 1 .. Len(started) : job = started[k]
    BY <2>2
  <2>4. k \in 1 .. Len(accepted) /\ started[k] = accepted[k]
    BY <2>1 DEF PoolFollows
  <2> QED
    BY <2>2, <2>3, <2>4
<1>2. ASSUME NEW job \in DOMAIN execution
      PROVE  /\ job \in Range(started) /\ job \notin finished
             /\ execution[job] \in [kind : Kinds, set : Nat]
  BY DEF PoolFollows
<1>3. ASSUME NEW run \in [kind : Kinds, set : Nat]
      PROVE  run.kind \in Kinds /\ run.set \in Nat /\ run = [kind |-> run.kind, set |-> run.set]
  OBVIOUS
<1> QED
  BY <1>1, <1>2, <1>3, Zenon

(* The function of a job returns or throws.                                *)
LEMMA JobIsComputed ==
  ASSUME Shape, PoolFollows, NEW job \in DOMAIN execution, Compute(job)
  PROVE  /\ execution[job].kind = "running"
         /\ DOMAIN execution' = DOMAIN execution
         /\ execution'[job].kind \in {"value", "exception"}
         /\ execution'[job].set = execution[job].set
         /\ execution'[job] \in [kind : Kinds, set : Nat]
         /\ \A other \in DOMAIN execution : other # job => execution'[other] = execution[other]
         /\ threw' = IF execution'[job].kind = "exception" THEN threw \cup {job} ELSE threw
         /\ UNCHANGED <<accepted, started, finished, callerVars, promise>>
<1>1. PICK kind \in {"value", "exception"} :
        /\ execution' = [execution EXCEPT ![job].kind = kind]
        /\ threw' = IF kind = "exception" THEN threw \cup {job} ELSE threw
  BY DEF Compute
<1>2. execution[job].kind = "running" /\ execution[job] \in [kind : Kinds, set : Nat]
  BY DEF Compute, PoolFollows
<1>3. /\ DOMAIN execution' = DOMAIN execution
      /\ execution'[job] = [execution[job] EXCEPT !.kind = kind]
      /\ \A other \in DOMAIN execution : other # job => execution'[other] = execution[other]
  BY <1>1
<1>4. execution'[job].kind = kind /\ execution'[job].set = execution[job].set
      /\ execution'[job] \in [kind : Kinds, set : Nat]
  BY <1>2, <1>3 DEF Kinds
<1> QED
  BY <1>1, <1>2, <1>3, <1>4, Zenon DEF Compute

(* The promise that is set next gets the result of its own example, or the *)
(* exception of the job.                                                   *)
LEMMA PromiseIsSet ==
  ASSUME IInv, NEW job \in DOMAIN execution, SetPromise(job),
         NEW k, k = execution[job].set + 1, NEW i, i = job.promises[k],
         NEW c, c = job.caller
  PROVE  /\ k \in 1 .. Len(job.promises)
         /\ i \in Range(job.promises)
         /\ c \in Callers /\ i \in 1 .. Len(lens[c])
         /\ execution[job].kind \in {"value", "exception"}
         /\ promise' \in [Callers -> Seq(Int)]
         /\ \A o \in Callers : Len(promise'[o]) = Len(lens[o])
         /\ promise'[c][i] = Outcome(job, i)
         /\ \A o \in Callers : \A x \in 1 .. Len(lens[o]) :
              o # c \/ x # i => promise'[o][x] = promise[o][x]
         /\ DOMAIN execution' = DOMAIN execution
         /\ execution'[job].kind = execution[job].kind /\ execution'[job].set = k
         /\ execution'[job] \in [kind : Kinds, set : Nat]
         /\ \A other \in DOMAIN execution : other # job => execution'[other] = execution[other]
         /\ UNCHANGED <<accepted, started, finished, threw, callerVars>>
<1>1. Shape /\ PoolFollows /\ JobsAreApart /\ JobsSetTheirPromises
  BY DEF IInv
<1>2. /\ job \in BatchJobs /\ execution[job].set \in Nat
      /\ execution[job] \in [kind : Kinds, set : Nat]
  BY <1>1, JobsInProgress DEF PoolFollows
<1>3. PICK m \in 1 .. Len(accepted) : job = accepted[m]
  BY <1>1, JobsInProgress
<1>4. /\ execution[job].kind \in {"value", "exception"}
      /\ k <= Len(job.promises)
      /\ UNCHANGED <<accepted, started, finished, threw, callerVars>>
  <2>1. NextPromise(job) = k
    BY DEF NextPromise
  <2> QED
    BY <2>1 DEF SetPromise
<1>5. /\ k \in 1 .. Len(job.promises) /\ i \in Range(job.promises)
      /\ c \in Callers /\ job.promises \in Seq(Nat)
  <2>1. k \in 1 .. Len(job.promises)
    BY <1>2, <1>4, MembersOfJob
  <2> QED
    BY <1>2, <2>1, MembersOfJob
<1>6. /\ job.examples = job.promises
      /\ i \in 1 .. read[c]
  BY <1>1, <1>3, <1>5 DEF JobsAreApart, ReadJobs
<1>7. /\ promise[c] \in Seq(Int) /\ DOMAIN promise = Callers
      /\ DOMAIN promise[c] = 1 .. Len(lens[c])
      /\ i \in 1 .. Len(lens[c]) /\ i \in Nat
  <2>1. /\ promise \in [Callers -> Seq(Int)] /\ read[c] \in Nat
        /\ Len(promise[c]) = Len(lens[c]) /\ lens[c] \in Seq(Nat)
        /\ read[c] <= Len(lens[c])
    BY <1>1, <1>5 DEF Shape
  <2>2. promise[c] \in Seq(Int) /\ DOMAIN promise = Callers
    BY <1>5, <2>1
  <2>3. DOMAIN promise[c] = 1 .. Len(promise[c])
    BY <2>2
  <2>4. DOMAIN promise[c] = 1 .. Len(lens[c])
    BY <2>1, <2>3, Zenon
  <2>5. Len(lens[c]) \in Nat
    BY <2>1
  <2>6. i \in 1 .. Len(lens[c]) /\ i \in Nat
    BY <1>6, <2>1, <2>5
  <2> QED
    BY <2>2, <2>4, <2>6
<1>8. (IF execution[job].kind = "exception" THEN Exception ELSE job.examples[k]) = Outcome(job, i)
  <2>1. execution[job].kind = "exception" <=> job \in threw
    BY <1>1 DEF JobsSetTheirPromises
  <2> QED
    BY <1>6, <2>1, Zenon DEF Outcome
<1>9. promise' = [promise EXCEPT ![c] = [promise[c] EXCEPT ![i] = Outcome(job, i)]]
  <2>1. NextPromise(job) = k
    BY DEF NextPromise
  <2>2. promise' = [promise EXCEPT ![job.caller][i] =
                      IF execution[job].kind = "exception" THEN Exception ELSE job.examples[k]]
    BY <2>1, Zenon DEF SetPromise
  <2> QED
    BY <1>8, <2>2
<1>10. Outcome(job, i) \in Int
  BY <1>7 DEF Outcome, Exception
<1>11. promise'[c][i] = Outcome(job, i)
  BY <1>5, <1>7, <1>9
<1>12. ASSUME NEW o \in Callers, NEW x \in 1 .. Len(lens[o]), o # c \/ x # i
       PROVE  promise'[o][x] = promise[o][x]
  <2>1. CASE o # c
    BY <1>7, <1>9, <2>1
  <2>2. CASE o = c
    BY <1>7, <1>9, <1>12, <2>2
  <2> QED
    BY <2>1, <2>2
<1>13. execution' = [execution EXCEPT ![job].set = execution[job].set + 1]
  BY DEF SetPromise
<1>14. /\ DOMAIN execution' = DOMAIN execution
       /\ execution'[job] = [execution[job] EXCEPT !.set = k]
       /\ \A other \in DOMAIN execution : other # job => execution'[other] = execution[other]
  BY <1>13
<1>15. k \in Nat
  BY <1>2
<1>16. /\ execution'[job].kind = execution[job].kind /\ execution'[job].set = k
       /\ execution'[job] \in [kind : Kinds, set : Nat]
  BY <1>2, <1>14, <1>15
<1>17. promise' \in [Callers -> Seq(Int)] /\ \A o \in Callers : Len(promise'[o]) = Len(lens[o])
  <2>1. /\ promise \in [Callers -> Seq(Int)]
        /\ \A o \in Callers : Len(promise[o]) = Len(lens[o])
    BY <1>1 DEF Shape
  <2>2. PICK s, x : s = promise[c] /\ x = Outcome(job, i)
    OBVIOUS
  <2>3. [s EXCEPT ![i] = x] \in Seq(Int) /\ Len([s EXCEPT ![i] = x]) = Len(s)
    BY <1>7, <1>10, <2>2
  <2>4. promise' = [promise EXCEPT ![c] = [s EXCEPT ![i] = x]]
    BY <1>9, <2>2
  <2> QED
    BY <1>5, <2>1, <2>2, <2>3, <2>4
<1> QED
  BY <1>4, <1>5, <1>7, <1>11, <1>12, <1>14, <1>16, <1>17, Zenon

-----------------------------------------------------------------------------
(* Types.                                                                  *)

LEMMA InitShape == Init => Shape
<1> SUFFICES ASSUME Init PROVE Shape
  OBVIOUS
<1>1. /\ accepted = <<>> /\ started = <<>>
      /\ lens \in [Callers -> Seq(Nat)] /\ torn \in [Callers -> BOOLEAN]
      /\ stage = [c \in Callers |-> "reading"]
      /\ read = [c \in Callers |-> 0]
      /\ toPost = [c \in Callers |-> <<>>]
      /\ chunk = [c \in Callers |-> <<>>]
      /\ results = [c \in Callers |-> <<>>]
      /\ promise = [c \in Callers |-> [i \in DOMAIN lens[c] |-> Unset]]
      /\ written = [c \in Callers |-> <<>>]
  BY ReplicaPoolAssumption DEF Init, Pool!Init
<1>2. /\ toPost \in [Callers -> Seq(BatchJobs)] /\ accepted \in Seq(BatchJobs)
      /\ started \in Seq(BatchJobs)
  BY <1>1
<1>3. /\ stage \in [Callers -> Stages] /\ read \in [Callers -> Nat]
      /\ chunk \in [Callers -> Seq(Nat)] /\ results \in [Callers -> Seq(Nat)]
      /\ written \in [Callers -> Seq(Int)]
  BY <1>1 DEF Stages
<1>4. ASSUME NEW c \in Callers
      PROVE  promise[c] \in Seq(Int) /\ Len(promise[c]) = Len(lens[c]) /\ read[c] <= Len(lens[c])
  <2>1. PICK n \in Nat : DOMAIN lens[c] = 1 .. n /\ Len(lens[c]) = n
    BY <1>1
  <2>2. promise[c] = [i \in DOMAIN lens[c] |-> 0]
    BY <1>1 DEF Unset
  <2>3. promise[c] = [i \in 1 .. n |-> 0]
    BY <2>1, <2>2, Zenon
  <2>4. promise[c] \in Seq(Int) /\ Len(promise[c]) = n
    BY <2>3
  <2>5. read[c] = 0
    BY <1>1
  <2> QED
    BY <2>1, <2>4, <2>5
<1> QED
  BY <1>1, <1>2, <1>3, <1>4 DEF Shape

(* What ReadBatch changes.                                                 *)
LEMMA ChunkIsRead ==
  ASSUME NEW c \in Callers, Shape, ReadBatch(c), NEW n, n = NextRead(c)
  PROVE  /\ stage[c] = "reading" /\ stage' = [stage EXCEPT ![c] = "posting"]
         /\ n \in Nat /\ n > 0 /\ read[c] \in Nat /\ read[c] + n <= Len(lens[c])
         /\ JobsOfChunk(toPost'[c], c, read[c], n)
         /\ toPost' = [toPost EXCEPT ![c] = toPost'[c]]
         /\ chunk' = [chunk EXCEPT ![c] = [i \in 1 .. n |-> read[c] + i]]
         /\ read' = [read EXCEPT ![c] = read[c] + n]
         /\ UNCHANGED <<poolVars, lens, torn, results, written, promise>>
<1>1. /\ stage[c] = "reading" /\ n > 0
      /\ stage' = [stage EXCEPT ![c] = "posting"]
      /\ UNCHANGED <<poolVars, lens, torn, results, written, promise>>
  BY DEF ReadBatch
<1>2. /\ chunk' = [chunk EXCEPT ![c] = [i \in 1 .. n |-> read[c] + i]]
      /\ read' = [read EXCEPT ![c] = read[c] + n]
  BY Zenon DEF ReadBatch
<1>3. n \in Nat /\ read[c] \in Nat /\ read[c] + n <= Len(lens[c])
  BY NextReadStops
<1>4. PICK order \in SortedOrders(SubSeq(lens[c], read[c] + 1, read[c] + n)) :
        LET batches == RebatchInput(SubSeq(lens[c], read[c] + 1, read[c] + n), order,
                                    MaxBatchSize, BatchTypeUsed)
        IN  toPost' = [toPost EXCEPT ![c] = [b \in DOMAIN batches |-> JobOf(c, batches[b])]]
  BY Zenon DEF ReadBatch
<1>5. PICK batches :
        batches = RebatchInput(SubSeq(lens[c], read[c] + 1, read[c] + n), order,
                               MaxBatchSize, BatchTypeUsed)
  OBVIOUS
<1>6. PICK jobs : jobs = [b \in DOMAIN batches |-> JobOf(c, batches[b])]
  OBVIOUS
<1>7. toPost' = [toPost EXCEPT ![c] = jobs]
  BY <1>4, <1>5, <1>6, Zenon
<1>8. JobsOfChunk(jobs, c, read[c], n)
  BY <1>3, <1>5, <1>6, ChunkIsPosted
<1>9. toPost'[c] = jobs
  BY <1>7 DEF Shape
<1> QED
  BY <1>1, <1>2, <1>3, <1>7, <1>8, <1>9, Zenon

(* The front future of a caller is that of its next result, and that       *)
(* result or an exception is what it holds.                                *)
LEMMA NextResultIsPopped ==
  ASSUME NEW c \in Callers, IInv, PopResult(c), NEW i, i = Head(results[c])
  PROVE  /\ results[c] \in Seq(Nat) /\ Len(results[c]) > 0
         /\ i = Len(written[c]) + 1 /\ i \in Nat
         /\ stage[c] # "posting"
         /\ \/ promise[c][i] = i
            \/ promise[c][i] = Exception /\ \E job \in threw : job.caller = c
         /\ promise[c][i] \in Int
<1>1. /\ results[c] \in Seq(Nat) /\ written[c] \in Seq(Int)
      /\ read[c] \in Nat /\ Len(lens[c]) \in Nat /\ read[c] <= Len(lens[c])
  BY DEF IInv, Shape
<1>2. /\ stage[c] # "posting" /\ results[c] # <<>> /\ promise[c][i] # Unset
  BY DEF PopResult, IsReady
<1>3. /\ Len(results[c]) \in Nat /\ Len(results[c]) > 0 /\ Len(written[c]) \in Nat
      /\ i = results[c][1] /\ 1 \in 1 .. Len(results[c])
  BY <1>1, <1>2
<1>4. i = Len(written[c]) + 1
  BY <1>3 DEF IInv, ResultsInOrder
<1>5. Len(written[c]) + Len(results[c]) = read[c]
  BY <1>2 DEF IInv, ResultsInOrder, Queued
<1>6. i \in 1 .. Len(lens[c])
  <2>1. PICK w, q, r, l : /\ w = Len(written[c]) /\ q = Len(results[c])
                          /\ r = read[c] /\ l = Len(lens[c])
    OBVIOUS
  <2>2. w \in Nat /\ q \in Nat /\ q > 0 /\ w + q = r /\ r <= l /\ l \in Nat /\ i = w + 1
    BY <1>1, <1>3, <1>4, <1>5, <2>1, Zenon
  <2>3. i \in 1 .. l
    BY <2>2
  <2> QED
    BY <2>1, <2>3
<1>7. \/ promise[c][i] = i
      \/ promise[c][i] = Exception /\ \E job \in threw : job.caller = c
  BY <1>2, <1>6 DEF IInv, PromisesFollow
<1>8. promise[c][i] \in Int
  BY <1>6, <1>7 DEF Exception
<1> QED
  BY <1>1, <1>2, <1>3, <1>4, <1>6, <1>7, <1>8

LEMMA NextShape == ASSUME IInv, Next PROVE Shape'
<1>1. /\ Shape /\ PoolFollows
      /\ UNCHANGED <<poolVars, lens, torn, promise>> => UNCHANGED <<accepted, started>>
  BY DEF IInv, poolVars
<1>2. /\ lens \in [Callers -> Seq(Nat)] /\ torn \in [Callers -> BOOLEAN]
      /\ stage \in [Callers -> Stages] /\ read \in [Callers -> Nat]
      /\ toPost \in [Callers -> Seq(BatchJobs)]
      /\ chunk \in [Callers -> Seq(Nat)] /\ results \in [Callers -> Seq(Nat)]
      /\ written \in [Callers -> Seq(Int)]
      /\ promise \in [Callers -> Seq(Int)]
      /\ accepted \in Seq(BatchJobs) /\ started \in Seq(BatchJobs)
      /\ \A c \in Callers : read[c] <= Len(lens[c]) /\ Len(promise[c]) = Len(lens[c])
  BY <1>1 DEF Shape
<1>3. ASSUME NEW c \in Callers, ReadThrows(c) PROVE Shape'
  BY <1>2, <1>3 DEF ReadThrows, Shape, Stages, poolVars
<1>4. ASSUME NEW c \in Callers, ReadEnd(c) PROVE Shape'
  BY <1>2, <1>4 DEF ReadEnd, Shape, Stages, poolVars
<1>5. ASSUME NEW c \in Callers, ReadBatch(c) PROVE Shape'
  <2>1. PICK n : n = NextRead(c)
    OBVIOUS
  <2>2. PICK jobs : jobs = toPost'[c]
    OBVIOUS
  <2>3. /\ stage' = [stage EXCEPT ![c] = "posting"]
        /\ n \in Nat /\ read[c] \in Nat /\ read[c] + n <= Len(lens[c])
        /\ JobsOfChunk(jobs, c, read[c], n)
        /\ toPost' = [toPost EXCEPT ![c] = jobs]
        /\ chunk' = [chunk EXCEPT ![c] = [i \in 1 .. n |-> read[c] + i]]
        /\ read' = [read EXCEPT ![c] = read[c] + n]
        /\ UNCHANGED <<accepted, started, lens, torn, results, written, promise>>
    BY <1>1, <1>5, <2>1, <2>2, ChunkIsRead DEF poolVars
  <2>4. toPost' \in [Callers -> Seq(BatchJobs)]
    BY <1>2, <2>3 DEF JobsOfChunk
  <2>5. [i \in 1 .. n |-> read[c] + i] \in Seq(Nat)
    BY <2>3
  <2>6. chunk' \in [Callers -> Seq(Nat)]
    BY <1>2, <2>3, <2>5
  <2>7. stage' \in [Callers -> Stages]
    BY <1>2, <2>3 DEF Stages
  <2>8. read' \in [Callers -> Nat] /\ \A o \in Callers : read'[o] <= Len(lens[o])
    BY <1>2, <2>3
  <2> QED
    BY <1>2, <2>3, <2>4, <2>6, <2>7, <2>8 DEF Shape
<1>6. ASSUME NEW c \in Callers, PostBatch(c) PROVE Shape'
  <2>1. PICK jobs : jobs = toPost[c]
    OBVIOUS
  <2>2. /\ jobs[1] \in BatchJobs /\ Tail(jobs) \in Seq(BatchJobs)
        /\ accepted' = Append(accepted, jobs[1])
        /\ toPost' = [toPost EXCEPT ![c] = Tail(jobs)]
        /\ UNCHANGED <<started, lens, torn, stage, read, chunk, results, written, promise>>
    BY <1>1, <1>6, <2>1, FirstBatchIsAccepted
  <2>3. accepted' \in Seq(BatchJobs)
    BY <1>2, <2>2, JobsAfterAppend
  <2>4. toPost' \in [Callers -> Seq(BatchJobs)]
    BY <1>2, <2>2
  <2> QED
    BY <1>2, <2>2, <2>3, <2>4 DEF Shape
<1>7. ASSUME NEW c \in Callers, PostEnd(c) PROVE Shape'
  <2>1. results[c] \o chunk[c] \in Seq(Nat)
    BY <1>2
  <2>2. results' \in [Callers -> Seq(Nat)]
    BY <1>2, <1>7, <2>1 DEF PostEnd
  <2> QED
    BY <1>2, <1>7, <2>2 DEF PostEnd, Shape, Stages, poolVars
<1>8. ASSUME NEW c \in Callers, PopResult(c) PROVE Shape'
  <2>1. PICK i : i = Head(results[c])
    OBVIOUS
  <2>2. CASE promise[c][i] = Exception
    BY <1>2, <1>8, <2>1, <2>2 DEF PopResult, Shape, Stages, poolVars
  <2>3. CASE promise[c][i] # Exception
    <3>1. /\ written' = [written EXCEPT ![c] = Append(written[c], promise[c][i])]
          /\ results' = [results EXCEPT ![c] = Tail(results[c])]
          /\ results[c] # <<>>
          /\ UNCHANGED <<poolVars, stage, lens, torn, read, toPost, chunk, promise>>
      BY <1>8, <2>1, <2>3 DEF PopResult, IsReady
    <3>2. Tail(results[c]) \in Seq(Nat)
      BY <1>2, <3>1
    <3>3. promise[c][i] \in Int
      BY <1>8, <2>1, NextResultIsPopped
    <3>4. Append(written[c], promise[c][i]) \in Seq(Int)
      BY <1>2, <3>3
    <3>5. results' \in [Callers -> Seq(Nat)] /\ written' \in [Callers -> Seq(Int)]
      BY <1>2, <3>1, <3>2, <3>4
    <3> QED
      BY <1>2, <3>1, <3>5 DEF Shape, poolVars
  <2> QED
    BY <2>2, <2>3
<1>9. ASSUME NEW c \in Callers, PopEnd(c) PROVE Shape'
  BY <1>2, <1>9 DEF PopEnd, Shape, Stages, poolVars
<1>10. ASSUME NEW c \in Callers, Drained(c) PROVE Shape'
  BY <1>2, <1>10 DEF Drained, Shape, Stages, poolVars
<1>11. ASSUME Take PROVE Shape'
  <2>1. PICK n : n = Len(started) + 1
    OBVIOUS
  <2>2. /\ accepted[n] \in BatchJobs /\ started' = Append(started, accepted[n])
        /\ UNCHANGED <<accepted, callerVars, promise>>
    BY <1>1, <1>11, <2>1, NextJobIsTaken
  <2>3. started' \in Seq(BatchJobs)
    BY <1>2, <2>2, JobsAfterAppend
  <2> QED
    BY <1>2, <2>2, <2>3 DEF Shape, callerVars
<1>12. ASSUME NEW job \in DOMAIN execution, Compute(job) PROVE Shape'
  BY <1>2, <1>12 DEF Compute, Shape, callerVars
<1>13. ASSUME NEW job \in DOMAIN execution, SetPromise(job) PROVE Shape'
  <2>1. PICK k, i, c : k = execution[job].set + 1 /\ i = job.promises[k] /\ c = job.caller
    OBVIOUS
  <2>2. /\ promise' \in [Callers -> Seq(Int)]
        /\ \A o \in Callers : Len(promise'[o]) = Len(lens[o])
        /\ UNCHANGED <<accepted, started, callerVars>>
    BY <1>13, <2>1, PromiseIsSet
  <2> QED
    BY <1>2, <2>2 DEF Shape, callerVars
<1>14. ASSUME NEW job \in DOMAIN execution, RunEnd(job) PROVE Shape'
  BY <1>2, <1>14, JobIsFinished DEF Shape, callerVars
<1>15. CASE ClosePool
  BY <1>2, <1>15 DEF ClosePool, Pool!Close, Shape, callerVars
<1>16. CASE Terminated
  BY <1>2, <1>16 DEF Terminated, Shape, replicaPoolVars, poolVars, callerVars
<1> QED
  BY <1>3, <1>4, <1>5, <1>6, <1>7, <1>8, <1>9, <1>10, <1>11, <1>12, <1>13, <1>14, <1>15, <1>16
     DEF Next, CallerStep, ReplicaStep, RunStep

-----------------------------------------------------------------------------
(* The jobs of the pool.                                                   *)

LEMMA NextPoolFollows == ASSUME IInv, Next PROVE PoolFollows'
<1>1. Shape /\ PoolFollows
  BY DEF IInv
<1>2. accepted \in Seq(BatchJobs) /\ started \in Seq(BatchJobs)
  BY <1>1 DEF Shape
<1>3. /\ \A m, n \in 1 .. Len(accepted) : accepted[m] = accepted[n] => m = n
      /\ Len(started) <= Len(accepted)
      /\ \A k \in 1 .. Len(started) : started[k] = accepted[k]
      /\ finished \subseteq Range(started)
      /\ DOMAIN execution = Range(started) \ finished
      /\ threw \subseteq Range(started)
      /\ \A job \in DOMAIN execution : execution[job] \in [kind : Kinds, set : Nat]
  BY <1>1, Zenon DEF PoolFollows
<1>4. ASSUME UNCHANGED <<accepted, started, finished, execution, threw>> PROVE PoolFollows'
  BY <1>1, <1>4 DEF PoolFollows
<1>5. ASSUME NEW c \in Callers, PostBatch(c) PROVE PoolFollows'
  <2>1. PICK job, L : job = toPost[c][1] /\ L = Len(accepted)
    OBVIOUS
  <2>2. /\ job \in BatchJobs /\ job \notin Range(accepted)
        /\ accepted' = Append(accepted, job)
        /\ UNCHANGED <<started, finished, execution, threw>>
    BY <1>1, <1>5, <2>1, FirstBatchIsAccepted
  <2>3. /\ Len(accepted') = L + 1 /\ accepted'[L + 1] = job /\ L \in Nat
        /\ \A k \in 1 .. L : accepted'[k] = accepted[k]
        /\ \A k \in 1 .. Len(accepted') : k \in 1 .. L \/ k = L + 1
    BY <1>2, <2>1, <2>2, JobsAfterAppend
  <2>4. \A k \in 1 .. L : accepted[k] # job
    BY <1>2, <2>1, <2>2, JobsInQueue
  <2>5. \A m, n \in 1 .. Len(accepted') : accepted'[m] = accepted'[n] => m = n
    BY <1>3, <2>1, <2>3, <2>4
  <2>6. Len(started) <= Len(accepted') /\ \A k \in 1 .. Len(started) : started[k] = accepted'[k]
    BY <1>2, <1>3, <2>1, <2>3
  <2> QED
    BY <1>3, <2>2, <2>5, <2>6 DEF PoolFollows
<1>6. ASSUME Take PROVE PoolFollows'
  <2>1. PICK n, job : n = Len(started) + 1 /\ job = accepted[n]
    OBVIOUS
  <2>2. /\ n \in 1 .. Len(accepted) /\ job \in BatchJobs /\ job \notin Range(started)
        /\ started' = Append(started, job)
        /\ DOMAIN execution' = DOMAIN execution \cup {job}
        /\ execution'[job] = [kind |-> "running", set |-> 0]
        /\ \A other \in DOMAIN execution : execution'[other] = execution[other]
        /\ UNCHANGED <<accepted, finished, threw>>
    BY <1>1, <1>6, <2>1, NextJobIsTaken
  <2>3. /\ Len(started') = n /\ started'[n] = job
        /\ \A k \in 1 .. Len(started) : started'[k] = started[k]
        /\ \A k \in 1 .. Len(started') : k \in 1 .. Len(started) \/ k = n
        /\ Range(started') = Range(started) \cup {job}
    <3>1. PICK jobs, more : jobs = started /\ more = started'
      OBVIOUS
    <3>2. jobs \in Seq(BatchJobs) /\ job \in BatchJobs /\ more = Append(jobs, job)
      BY <1>2, <2>2, <3>1
    <3>3. /\ Len(more) = Len(jobs) + 1
          /\ more[Len(jobs) + 1] = job
          /\ \A k \in 1 .. Len(jobs) : more[k] = jobs[k]
          /\ \A k \in 1 .. Len(more) : k \in 1 .. Len(jobs) \/ k = Len(jobs) + 1
      BY <3>2, JobsAfterAppend
    <3>4. Range(more) = Range(jobs) \cup {job}
      BY <3>2, JobsAfterAppend
    <3> QED
      BY <2>1, <3>1, <3>3, <3>4, Zenon
  <2>4. Len(started') <= Len(accepted)
    BY <2>2, <2>3
  <2>5. \A k \in 1 .. Len(started') : started'[k] = accepted[k]
    BY <1>3, <2>1, <2>3, Zenon
  <2>6. finished \subseteq Range(started') /\ threw \subseteq Range(started')
        /\ DOMAIN execution' = Range(started') \ finished
    BY <1>3, <2>2, <2>3
  <2>7. [kind |-> "running", set |-> 0] \in [kind : Kinds, set : Nat]
    BY DEF Kinds
  <2>8. \A other \in DOMAIN execution' : execution'[other] \in [kind : Kinds, set : Nat]
    BY <1>3, <2>2, <2>7, Zenon
  <2> QED
    BY <1>3, <2>2, <2>4, <2>5, <2>6, <2>8 DEF PoolFollows
<1>7. ASSUME NEW job \in DOMAIN execution, Compute(job) PROVE PoolFollows'
  <2>1. /\ DOMAIN execution' = DOMAIN execution
        /\ execution'[job] \in [kind : Kinds, set : Nat]
        /\ \A other \in DOMAIN execution : other # job => execution'[other] = execution[other]
        /\ threw' = IF execution'[job].kind = "exception" THEN threw \cup {job} ELSE threw
        /\ UNCHANGED <<accepted, started, finished>>
    BY <1>1, <1>7, JobIsComputed
  <2>2. threw' \subseteq Range(started)
    BY <1>3, <2>1
  <2>3. \A other \in DOMAIN execution' : execution'[other] \in [kind : Kinds, set : Nat]
    BY <1>3, <2>1, Zenon
  <2> QED
    BY <1>3, <2>1, <2>2, <2>3 DEF PoolFollows
<1>8. ASSUME NEW job \in DOMAIN execution, SetPromise(job) PROVE PoolFollows'
  <2>1. PICK k, i : k = execution[job].set + 1 /\ i = job.promises[k]
    OBVIOUS
  <2>2. /\ DOMAIN execution' = DOMAIN execution
        /\ execution'[job] \in [kind : Kinds, set : Nat]
        /\ \A other \in DOMAIN execution : other # job => execution'[other] = execution[other]
        /\ UNCHANGED <<accepted, started, finished, threw>>
    BY <1>8, <2>1, PromiseIsSet
  <2>3. \A other \in DOMAIN execution' : execution'[other] \in [kind : Kinds, set : Nat]
    BY <1>3, <2>2, Zenon
  <2> QED
    BY <1>3, <2>2, <2>3 DEF PoolFollows
<1>9. ASSUME NEW job \in DOMAIN execution, RunEnd(job) PROVE PoolFollows'
  <2>1. /\ finished' = finished \cup {job}
        /\ DOMAIN execution' = DOMAIN execution \ {job}
        /\ \A other \in DOMAIN execution \ {job} : execution'[other] = execution[other]
        /\ UNCHANGED <<accepted, started, threw>>
    BY <1>9, JobIsFinished
  <2>2. \A other \in DOMAIN execution' : execution'[other] \in [kind : Kinds, set : Nat]
    BY <1>3, <2>1
  <2>3. finished' \subseteq Range(started) /\ DOMAIN execution' = Range(started) \ finished'
    BY <1>3, <2>1
  <2> QED
    BY <1>3, <2>1, <2>2, <2>3 DEF PoolFollows
<1>10. ASSUME NEW c \in Callers, CallerStep(c), ~PostBatch(c) PROVE PoolFollows'
  <2>1. UNCHANGED poolVars
    BY <1>10 DEF CallerStep, ReadThrows, ReadEnd, ReadBatch, PostEnd, PopResult, PopEnd, Drained
  <2> QED
    BY <1>4, <2>1 DEF poolVars
<1>11. CASE ClosePool
  BY <1>4, <1>11 DEF ClosePool, Pool!Close
<1>12. CASE Terminated
  BY <1>4, <1>12 DEF Terminated, replicaPoolVars, poolVars
<1> QED
  BY <1>5, <1>6, <1>7, <1>8, <1>9, <1>10, <1>11, <1>12 DEF Next, ReplicaStep, RunStep

(* Examples that were read stay read.                                      *)
LEMMA ReadJobsStayRead ==
  ASSUME Shape, NEW job \in ReadJobs, NEW n \in Nat,
         read'[job.caller] = read[job.caller] + n \/ read'[job.caller] = read[job.caller]
  PROVE  job \in ReadJobs'
<1>1. job \in BatchJobs /\ job.caller \in Callers
  BY MembersOfJob DEF ReadJobs
<1>2. PICK r, s : r = read[job.caller] /\ s = read'[job.caller]
  OBVIOUS
<1>3. r \in Nat /\ (s = r + n \/ s = r)
  BY <1>1, <1>2 DEF Shape
<1>4. \A i \in 1 .. r : i \in 1 .. s
  BY <1>3
<1>5. job.examples = job.promises /\ \A i \in Range(job.promises) : i \in 1 .. r
  BY <1>2, Zenon DEF ReadJobs
<1>6. \A i \in Range(job.promises) : i \in 1 .. read'[job.caller]
  BY <1>2, <1>4, <1>5, Zenon
<1> QED
  BY <1>1, <1>5, <1>6 DEF ReadJobs, BatchJobs

LEMMA NextJobsAreApart == ASSUME IInv, Next PROVE JobsAreApart'
<1>1. Shape /\ PoolFollows /\ JobsAreApart
  BY DEF IInv
<1>2. /\ accepted \in Seq(BatchJobs) /\ toPost \in [Callers -> Seq(BatchJobs)]
      /\ stage \in [Callers -> Stages] /\ read \in [Callers -> Nat]
  BY <1>1 DEF Shape
<1>3. /\ \A m \in 1 .. Len(accepted) : accepted[m] \in ReadJobs
      /\ \A m, n \in 1 .. Len(accepted) :
           m # n /\ accepted[m].caller = accepted[n].caller => Apart2(accepted[m], accepted[n])
      /\ \A c \in Callers :
           /\ stage[c] # "posting" => toPost[c] = <<>>
           /\ \A k \in 1 .. Len(toPost[c]) : toPost[c][k].caller = c /\ toPost[c][k] \in ReadJobs
           /\ \A k, l \in 1 .. Len(toPost[c]) : k # l => Apart2(toPost[c][k], toPost[c][l])
           /\ \A k \in 1 .. Len(toPost[c]), m \in 1 .. Len(accepted) :
                accepted[m].caller = c => Apart2(toPost[c][k], accepted[m])
  BY <1>1, Zenon DEF JobsAreApart
<1>4. ASSUME UNCHANGED <<accepted, toPost, read>>,
             \A c \in Callers : stage'[c] # "posting" => stage[c] # "posting" \/ toPost[c] = <<>>
      PROVE  JobsAreApart'
  <2>1. \A c \in Callers : stage'[c] # "posting" => toPost[c] = <<>>
    BY <1>3, <1>4
  <2>2. ReadJobs' = ReadJobs
    BY <1>4 DEF ReadJobs, BatchJobs
  <2> QED
    BY <1>3, <1>4, <2>1, <2>2 DEF JobsAreApart
<1>5. ASSUME NEW c \in Callers, ReadThrows(c) PROVE JobsAreApart'
  BY <1>2, <1>4, <1>5 DEF ReadThrows, poolVars
<1>6. ASSUME NEW c \in Callers, ReadEnd(c) PROVE JobsAreApart'
  BY <1>2, <1>4, <1>6 DEF ReadEnd, poolVars
<1>7. ASSUME NEW c \in Callers, ReadBatch(c) PROVE JobsAreApart'
  <2>1. PICK n, r, jobs : n = NextRead(c) /\ r = read[c] /\ jobs = toPost'[c]
    OBVIOUS
  <2>2. /\ stage[c] = "reading" /\ stage' = [stage EXCEPT ![c] = "posting"]
        /\ n \in Nat /\ n > 0 /\ r \in Nat
        /\ JobsOfChunk(jobs, c, r, n)
        /\ toPost' = [toPost EXCEPT ![c] = jobs]
        /\ read' = [read EXCEPT ![c] = r + n]
        /\ UNCHANGED accepted
    BY <1>1, <1>7, <2>1, ChunkIsRead DEF poolVars
  <2>3. /\ jobs \in Seq(BatchJobs)
        /\ \A k \in 1 .. Len(jobs) :
             /\ jobs[k].caller = c
             /\ jobs[k].examples = jobs[k].promises
             /\ \A i \in Range(jobs[k].promises) : i \in r + 1 .. r + n
        /\ \A k, l \in 1 .. Len(jobs) : k # l => Apart2(jobs[k], jobs[l])
    BY <2>2, Zenon DEF JobsOfChunk
  <2>4. /\ toPost'[c] = jobs /\ read'[c] = r + n
        /\ \A o \in Callers : o # c => toPost'[o] = toPost[o] /\ read'[o] = read[o]
        /\ \A o \in Callers : stage'[o] # "posting" => o # c /\ stage[o] # "posting"
    BY <1>2, <2>2
  <2>5. ASSUME NEW job \in ReadJobs PROVE job \in ReadJobs'
    <3>1. job.caller \in Callers
      BY MembersOfJob DEF ReadJobs
    <3>2. read'[job.caller] = read[job.caller] + n \/ read'[job.caller] = read[job.caller]
      BY <2>1, <2>4, <3>1
    <3> QED
      BY <1>1, <2>2, <3>2, ReadJobsStayRead
  <2>6. \A m \in 1 .. Len(accepted) : accepted[m] \in ReadJobs'
    BY <1>3, <2>5
  <2>7. ASSUME NEW k \in 1 .. Len(jobs) PROVE jobs[k] \in ReadJobs'
    <3>1. \A i \in r + 1 .. r + n : i \in 1 .. r + n
      BY <2>2
    <3>2. /\ jobs[k] \in BatchJobs /\ jobs[k].examples = jobs[k].promises
          /\ \A i \in Range(jobs[k].promises) : i \in 1 .. read'[jobs[k].caller]
      BY <2>3, <2>4, <3>1, JobsInQueue
    <3> QED
      BY <3>2 DEF ReadJobs, BatchJobs
  <2>8. ASSUME NEW k \in 1 .. Len(jobs), NEW m \in 1 .. Len(accepted), accepted[m].caller = c
        PROVE  Apart2(jobs[k], accepted[m])
    <3>1. \A i \in r + 1 .. r + n : i \notin 1 .. r
      BY <2>2
    <3>2. \A i \in Range(accepted[m].promises) : i \in 1 .. r
      <4>1. accepted[m] \in ReadJobs
        BY <1>3
      <4> QED
        BY <2>1, <2>8, <4>1, Zenon DEF ReadJobs
    <3>3. \A i \in Range(jobs[k].promises) : i \in r + 1 .. r + n
      BY <2>3, Zenon
    <3> QED
      BY <3>1, <3>2, <3>3, Zenon DEF Apart2
  <2>9. ASSUME NEW o \in Callers
        PROVE  /\ stage'[o] # "posting" => toPost'[o] = <<>>
               /\ \A k \in 1 .. Len(toPost'[o]) :
                    toPost'[o][k].caller = o /\ toPost'[o][k] \in ReadJobs'
               /\ \A k, l \in 1 .. Len(toPost'[o]) : k # l => Apart2(toPost'[o][k], toPost'[o][l])
               /\ \A k \in 1 .. Len(toPost'[o]), m \in 1 .. Len(accepted) :
                    accepted[m].caller = o => Apart2(toPost'[o][k], accepted[m])
    <3>1. CASE o = c
      BY <2>3, <2>4, <2>7, <2>8, <3>1, Zenon
    <3>2. CASE o # c
      <4>1. \A k \in 1 .. Len(toPost[o]) : toPost[o][k] \in ReadJobs'
        BY <1>3, <2>5
      <4> QED
        BY <1>3, <2>4, <3>2, <4>1, Zenon
    <3> QED
      BY <3>1, <3>2
  <2> QED
    BY <1>3, <2>2, <2>6, <2>9 DEF JobsAreApart
<1>8. ASSUME NEW c \in Callers, PostBatch(c) PROVE JobsAreApart'
  <2>1. PICK jobs, rest, job, L :
          jobs = toPost[c] /\ rest = Tail(jobs) /\ job = jobs[1] /\ L = Len(accepted)
    OBVIOUS
  <2>2. /\ stage[c] = "posting"
        /\ jobs \in Seq(BatchJobs) /\ Len(jobs) \in Nat /\ Len(jobs) > 0
        /\ job \in BatchJobs /\ accepted' = Append(accepted, job)
        /\ toPost' = [toPost EXCEPT ![c] = rest]
        /\ rest \in Seq(BatchJobs) /\ Len(rest) = Len(jobs) - 1
        /\ \A k \in 1 .. Len(jobs) - 1 : rest[k] = jobs[k + 1]
        /\ UNCHANGED <<stage, read>>
    BY <1>1, <1>8, <2>1, FirstBatchIsAccepted
  <2>3. /\ Len(accepted') = L + 1 /\ accepted'[L + 1] = job /\ L \in Nat
        /\ \A m \in 1 .. L : accepted'[m] = accepted[m]
        /\ \A m \in 1 .. Len(accepted') : m \in 1 .. L \/ m = L + 1
    BY <1>2, <2>1, <2>2, JobsAfterAppend
  <2>4. /\ 1 \in 1 .. Len(jobs)
        /\ \A k \in 1 .. Len(rest) : k + 1 \in 1 .. Len(jobs) /\ rest[k] = jobs[k + 1] /\ k + 1 # 1
        /\ \A k, l \in 1 .. Len(rest) : k # l => k + 1 # l + 1
    BY <2>2
  <2>5. /\ toPost'[c] = rest
        /\ \A o \in Callers : o # c => toPost'[o] = toPost[o]
    BY <1>2, <2>2
  <2>6. ReadJobs' = ReadJobs
    BY <2>2 DEF ReadJobs, BatchJobs
  <2>7. job.caller = c /\ job \in ReadJobs
    BY <1>3, <2>1, <2>4
  <2>8. \A m \in 1 .. L : accepted[m].caller = c => Apart2(job, accepted[m])
    BY <1>3, <2>1, <2>4
  <2>9. \A m \in 1 .. Len(accepted') : accepted'[m] \in ReadJobs
    BY <1>3, <2>1, <2>3, <2>7, Zenon
  <2>10. \A x, y : Apart2(x, y) => Apart2(y, x)
    BY DEF Apart2
  <2>11. \A m, n \in 1 .. Len(accepted') :
           m # n /\ accepted'[m].caller = accepted'[n].caller => Apart2(accepted'[m], accepted'[n])
    <3> SUFFICES ASSUME NEW m \in 1 .. Len(accepted'), NEW n \in 1 .. Len(accepted'), m # n,
                        accepted'[m].caller = accepted'[n].caller
                 PROVE  Apart2(accepted'[m], accepted'[n])
      OBVIOUS
    <3>1. CASE m \in 1 .. L /\ n \in 1 .. L
      BY <1>3, <2>1, <2>3, <3>1
    <3>2. CASE m = L + 1 /\ n \in 1 .. L
      <4>1. accepted'[m] = job /\ accepted'[n] = accepted[n] /\ accepted[n].caller = c
        BY <2>3, <2>7, <3>2
      <4> QED
        BY <2>8, <3>2, <4>1
    <3>3. CASE m \in 1 .. L /\ n = L + 1
      <4>1. accepted'[n] = job /\ accepted'[m] = accepted[m] /\ accepted[m].caller = c
        BY <2>3, <2>7, <3>3
      <4> QED
        BY <2>8, <2>10, <3>3, <4>1
    <3> QED
      BY <2>3, <3>1, <3>2, <3>3
  <2>12. ASSUME NEW o \in Callers
         PROVE  /\ stage[o] # "posting" => toPost'[o] = <<>>
                /\ \A k \in 1 .. Len(toPost'[o]) :
                     toPost'[o][k].caller = o /\ toPost'[o][k] \in ReadJobs
                /\ \A k, l \in 1 .. Len(toPost'[o]) :
                     k # l => Apart2(toPost'[o][k], toPost'[o][l])
                /\ \A k \in 1 .. Len(toPost'[o]), m \in 1 .. Len(accepted') :
                     accepted'[m].caller = o => Apart2(toPost'[o][k], accepted'[m])
    <3>1. CASE o = c
      <4>1. \A k \in 1 .. Len(rest) : rest[k].caller = c /\ rest[k] \in ReadJobs
        BY <1>3, <2>1, <2>4
      <4>2. \A k, l \in 1 .. Len(rest) : k # l => Apart2(rest[k], rest[l])
        BY <1>3, <2>1, <2>4
      <4>3. ASSUME NEW k \in 1 .. Len(rest), NEW m \in 1 .. Len(accepted'),
                   accepted'[m].caller = c
            PROVE  Apart2(rest[k], accepted'[m])
        <5>1. CASE m \in 1 .. L
          BY <1>3, <2>1, <2>3, <2>4, <4>3, <5>1
        <5>2. CASE m = L + 1
          BY <1>3, <2>1, <2>3, <2>4, <5>2
        <5> QED
          BY <2>3, <5>1, <5>2
      <4> QED
        BY <2>2, <2>5, <3>1, <4>1, <4>2, <4>3, Zenon
    <3>2. CASE o # c
      <4>1. ASSUME NEW k \in 1 .. Len(toPost[o]), NEW m \in 1 .. Len(accepted'),
                   accepted'[m].caller = o
            PROVE  Apart2(toPost[o][k], accepted'[m])
        <5>1. m \in 1 .. L /\ accepted'[m] = accepted[m]
          BY <2>3, <2>7, <3>2, <4>1
        <5> QED
          BY <1>3, <2>1, <4>1, <5>1, Zenon
      <4> QED
        BY <1>3, <2>5, <3>2, <4>1, Zenon
    <3> QED
      BY <3>1, <3>2
  <2> QED
    BY <2>2, <2>6, <2>9, <2>11, <2>12 DEF JobsAreApart
<1>9. ASSUME NEW c \in Callers, PostEnd(c) PROVE JobsAreApart'
  BY <1>2, <1>4, <1>9 DEF PostEnd, poolVars
<1>10. ASSUME NEW c \in Callers, PopResult(c) PROVE JobsAreApart'
  <2>1. /\ UNCHANGED <<accepted, toPost, read>>
        /\ stage[c] \in {"popping", "draining"}
        /\ stage' = [stage EXCEPT ![c] = "failed"] \/ stage' = stage
    BY <1>10 DEF PopResult, poolVars
  <2> QED
    BY <1>2, <1>4, <2>1
<1>11. ASSUME NEW c \in Callers, PopEnd(c) PROVE JobsAreApart'
  BY <1>2, <1>4, <1>11 DEF PopEnd, poolVars
<1>12. ASSUME NEW c \in Callers, Drained(c) PROVE JobsAreApart'
  BY <1>2, <1>4, <1>12 DEF Drained, poolVars
<1>13. CASE Take
  BY <1>4, <1>13 DEF Take, Pool!Start, callerVars
<1>14. ASSUME NEW job \in DOMAIN execution, RunStep(job) PROVE JobsAreApart'
  BY <1>4, <1>14 DEF RunStep, Compute, SetPromise, RunEnd, Pool!Finish, callerVars
<1>15. CASE ClosePool
  BY <1>4, <1>15 DEF ClosePool, Pool!Close, callerVars
<1>16. CASE Terminated
  BY <1>4, <1>16 DEF Terminated, replicaPoolVars, poolVars, callerVars
<1> QED
  BY <1>5, <1>6, <1>7, <1>8, <1>9, <1>10, <1>11, <1>12, <1>13, <1>14, <1>15, <1>16
     DEF Next, CallerStep, ReplicaStep

-----------------------------------------------------------------------------
(* The promises.                                                           *)

(* Another job that was started has no promise in common with this one.    *)
LEMMA OtherPromises ==
  ASSUME Shape, PoolFollows, JobsAreApart,
         NEW job \in Range(started), NEW other \in Range(started), job # other,
         NEW i \in Range(job.promises), NEW k \in Range(other.promises)
  PROVE  job.caller # other.caller \/ i # k
<1>1. PICK m \in 1 .. Len(accepted) : job = accepted[m]
  BY JobsInProgress
<1>2. PICK n \in 1 .. Len(accepted) : other = accepted[n]
  BY JobsInProgress
<1>3. ASSUME job.caller = other.caller PROVE Apart2(job, other)
  BY <1>1, <1>2, <1>3 DEF JobsAreApart
<1> QED
  BY <1>3, Zenon DEF Apart2

(* The promises of a job that was started are among those of its caller.   *)
LEMMA StartedPromises ==
  ASSUME Shape, PoolFollows, JobsAreApart, NEW job \in Range(started)
  PROVE  /\ job \in BatchJobs /\ job.caller \in Callers
         /\ \A i \in Range(job.promises) : i \in 1 .. Len(lens[job.caller])
         /\ \A k \in 1 .. Len(job.promises) : job.promises[k] \in Range(job.promises)
<1>1. PICK m \in 1 .. Len(accepted) : job = accepted[m]
  BY JobsInProgress
<1>2. job \in BatchJobs /\ job.caller \in Callers
  BY JobsInProgress, MembersOfJob
<1>3. /\ read[job.caller] \in Nat /\ Len(lens[job.caller]) \in Nat
      /\ read[job.caller] <= Len(lens[job.caller])
  BY <1>2 DEF Shape
<1>4. \A i \in 1 .. read[job.caller] : i \in 1 .. Len(lens[job.caller])
  BY <1>3
<1>5. job \in ReadJobs
  BY <1>1 DEF JobsAreApart
<1>6. \A i \in Range(job.promises) : i \in 1 .. Len(lens[job.caller])
  BY <1>4, <1>5, Zenon DEF ReadJobs
<1>7. \A k \in 1 .. Len(job.promises) : job.promises[k] \in Range(job.promises)
  BY <1>2, MembersOfJob
<1> QED
  BY <1>2, <1>6, <1>7

LEMMA NextJobsSetTheirPromises == ASSUME IInv, Next PROVE JobsSetTheirPromises'
<1>1. Shape /\ PoolFollows /\ JobsAreApart
  BY DEF IInv
<1>2. /\ \A job \in DOMAIN execution :
           /\ execution[job].set <= Len(job.promises)
           /\ execution[job].kind = "running" => execution[job].set = 0
           /\ execution[job].kind = "exception" <=> job \in threw
           /\ \A k \in 1 .. execution[job].set :
                promise[job.caller][job.promises[k]] = Outcome(job, job.promises[k])
      /\ \A job \in finished : \A i \in Range(job.promises) :
           promise[job.caller][i] = Outcome(job, i)
  BY Zenon DEF IInv, JobsSetTheirPromises
<1>3. /\ finished \subseteq Range(started) /\ threw \subseteq Range(started)
      /\ DOMAIN execution = Range(started) \ finished
  BY <1>1, Zenon DEF PoolFollows
<1>4. ASSUME UNCHANGED <<execution, finished, threw, promise>> PROVE JobsSetTheirPromises'
  BY <1>2, <1>4 DEF JobsSetTheirPromises, Outcome
<1>5. ASSUME NEW c \in Callers, CallerStep(c) PROVE JobsSetTheirPromises'
  <2>1. UNCHANGED <<execution, finished, threw, promise>>
    BY <1>5 DEF CallerStep, ReadThrows, ReadEnd, ReadBatch, PostBatch, PostEnd, PopResult, PopEnd,
                Drained, Pool!Accept, poolVars
  <2> QED
    BY <1>4, <2>1
<1>6. CASE Take
  <2>1. PICK n, job : n = Len(started) + 1 /\ job = accepted[n]
    OBVIOUS
  <2>2. /\ job \in BatchJobs /\ job \notin Range(started)
        /\ DOMAIN execution' = DOMAIN execution \cup {job}
        /\ execution'[job] = [kind |-> "running", set |-> 0]
        /\ \A other \in DOMAIN execution : execution'[other] = execution[other]
        /\ UNCHANGED <<finished, threw, promise>>
    BY <1>1, <1>6, <2>1, NextJobIsTaken
  <2>3. job \notin threw /\ Len(job.promises) \in Nat
    BY <1>3, <2>2, MembersOfJob
  <2>4. ASSUME NEW x PROVE Outcome(job, x)' = Outcome(job, x)
    BY <2>2 DEF Outcome
  <2>5. ASSUME NEW other \in DOMAIN execution'
        PROVE  /\ execution'[other].set <= Len(other.promises)
               /\ execution'[other].kind = "running" => execution'[other].set = 0
               /\ execution'[other].kind = "exception" <=> other \in threw
               /\ \A k \in 1 .. execution'[other].set :
                    promise[other.caller][other.promises[k]] = Outcome(other, other.promises[k])
    <3>1. CASE other = job
      <4>1. execution'[other].kind = "running" /\ execution'[other].set = 0
        BY <2>2, <3>1
      <4> QED
        BY <2>3, <3>1, <4>1
    <3>2. CASE other \in DOMAIN execution
      BY <1>2, <2>2, <3>2, Zenon
    <3> QED
      BY <2>2, <3>1, <3>2
  <2> QED
    BY <1>2, <2>2, <2>5 DEF JobsSetTheirPromises, Outcome
<1>7. ASSUME NEW job \in DOMAIN execution, Compute(job) PROVE JobsSetTheirPromises'
  <2>1. /\ execution[job].kind = "running"
        /\ DOMAIN execution' = DOMAIN execution
        /\ execution'[job].kind \in {"value", "exception"}
        /\ execution'[job].set = execution[job].set
        /\ \A other \in DOMAIN execution : other # job => execution'[other] = execution[other]
        /\ threw' = IF execution'[job].kind = "exception" THEN threw \cup {job} ELSE threw
        /\ UNCHANGED <<finished, promise>>
    BY <1>1, <1>7, JobIsComputed
  <2>2. job \in BatchJobs /\ job \notin threw /\ job \notin finished /\ execution[job].set = 0
    BY <1>1, <1>2, <2>1, JobsInProgress
  <2>3. Len(job.promises) \in Nat
    BY <2>2, MembersOfJob
  <2>4. \A other : other # job => (other \in threw' <=> other \in threw)
    BY <2>1
  <2>5. execution'[job].kind = "exception" <=> job \in threw'
    BY <2>1, <2>2
  <2>6. ASSUME NEW other \in DOMAIN execution
        PROVE  /\ execution'[other].set <= Len(other.promises)
               /\ execution'[other].kind = "running" => execution'[other].set = 0
               /\ execution'[other].kind = "exception" <=> other \in threw'
               /\ \A k \in 1 .. execution'[other].set :
                    promise[other.caller][other.promises[k]]
                      = IF other \in threw' THEN Exception ELSE other.promises[k]
    <3>1. CASE other = job
      BY <2>1, <2>2, <2>3, <2>5, <3>1
    <3>2. CASE other # job
      <4>1. execution'[other] = execution[other] /\ (other \in threw' <=> other \in threw)
        BY <2>1, <2>4, <3>2
      <4>2. /\ execution[other].set <= Len(other.promises)
            /\ execution[other].kind = "running" => execution[other].set = 0
            /\ execution[other].kind = "exception" <=> other \in threw
        BY <1>2
      <4>3. \A k \in 1 .. execution[other].set :
              promise[other.caller][other.promises[k]]
                = IF other \in threw THEN Exception ELSE other.promises[k]
        BY <1>2 DEF Outcome
      <4> QED
        BY <4>1, <4>2, <4>3
    <3> QED
      BY <3>1, <3>2
  <2>7. \A other \in finished : \A i \in Range(other.promises) :
          promise[other.caller][i] = IF other \in threw' THEN Exception ELSE i
    BY <1>2, <2>2, <2>4, Zenon DEF Outcome
  <2> QED
    BY <2>1, <2>6, <2>7 DEF JobsSetTheirPromises, Outcome
<1>8. ASSUME NEW job \in DOMAIN execution, SetPromise(job) PROVE JobsSetTheirPromises'
  <2>1. PICK k, i : k = execution[job].set + 1 /\ i = job.promises[k]
    OBVIOUS
  <2>2. /\ k \in 1 .. Len(job.promises) /\ i \in Range(job.promises)
        /\ job.caller \in Callers /\ i \in 1 .. Len(lens[job.caller])
        /\ execution[job].kind \in {"value", "exception"}
        /\ promise'[job.caller][i] = Outcome(job, i)
        /\ \A c \in Callers : \A x \in 1 .. Len(lens[c]) :
             c # job.caller \/ x # i => promise'[c][x] = promise[c][x]
        /\ DOMAIN execution' = DOMAIN execution
        /\ execution'[job].kind = execution[job].kind /\ execution'[job].set = k
        /\ \A other \in DOMAIN execution : other # job => execution'[other] = execution[other]
        /\ UNCHANGED <<finished, threw>>
    <3>1. PICK c : c = job.caller
      OBVIOUS
    <3>2. /\ k \in 1 .. Len(job.promises) /\ i \in Range(job.promises)
          /\ c \in Callers /\ i \in 1 .. Len(lens[c])
          /\ execution[job].kind \in {"value", "exception"}
          /\ UNCHANGED <<finished, threw>>
      BY <1>8, <2>1, <3>1, PromiseIsSet
    <3>3. promise'[c][i] = Outcome(job, i)
      BY <1>8, <2>1, <3>1, PromiseIsSet
    <3>4. ASSUME NEW o \in Callers, NEW x \in 1 .. Len(lens[o]), o # c \/ x # i
          PROVE  promise'[o][x] = promise[o][x]
      BY <1>8, <2>1, <3>1, <3>4, PromiseIsSet
    <3>5. /\ DOMAIN execution' = DOMAIN execution
          /\ execution'[job].kind = execution[job].kind /\ execution'[job].set = k
          /\ \A other \in DOMAIN execution : other # job => execution'[other] = execution[other]
      BY <1>8, <2>1, PromiseIsSet
    <3> QED
      BY <3>1, <3>2, <3>3, <3>4, <3>5
  <2>3. job \in Range(started) /\ job \notin finished /\ execution[job].set \in Nat
    BY <1>1, JobsInProgress
  <2>4. ASSUME NEW other \in Range(started), other # job, NEW x \in Range(other.promises)
        PROVE  promise'[other.caller][x] = promise[other.caller][x]
    <3>1. other.caller \in Callers /\ x \in 1 .. Len(lens[other.caller])
      BY <1>1, StartedPromises
    <3>2. other.caller # job.caller \/ x # i
      BY <1>1, <2>2, <2>3, <2>4, OtherPromises
    <3> QED
      BY <2>2, <3>1, <3>2
  <2>5. ASSUME NEW x \in 1 .. k
        PROVE  promise'[job.caller][job.promises[x]] = Outcome(job, job.promises[x])
    <3>1. CASE job.promises[x] = i
      BY <2>2, <3>1, Zenon
    <3>2. CASE job.promises[x] # i
      <4>1. x \in 1 .. execution[job].set /\ x \in 1 .. Len(job.promises)
        BY <2>1, <2>2, <2>3, <3>2
      <4>2. job.promises[x] \in 1 .. Len(lens[job.caller])
        BY <1>1, <2>3, <4>1, StartedPromises
      <4> QED
        BY <1>2, <2>2, <3>2, <4>1, <4>2, Zenon
    <3> QED
      BY <3>1, <3>2
  <2>6. ASSUME NEW other \in DOMAIN execution
        PROVE  /\ execution'[other].set <= Len(other.promises)
               /\ execution'[other].kind = "running" => execution'[other].set = 0
               /\ execution'[other].kind = "exception" <=> other \in threw
               /\ \A x \in 1 .. execution'[other].set :
                    promise'[other.caller][other.promises[x]] = Outcome(other, other.promises[x])
    <3>1. CASE other = job
      BY <1>2, <2>2, <2>5, <3>1
    <3>2. CASE other # job
      <4>1. other \in Range(started) /\ execution[other].set \in Nat /\ other \in BatchJobs
        BY <1>1, JobsInProgress
      <4>2. Len(other.promises) \in Nat
        BY <4>1, MembersOfJob
      <4>3. \A x \in 1 .. execution[other].set : x \in 1 .. Len(other.promises)
        BY <1>2, <4>1, <4>2
      <4>4. \A x \in 1 .. execution[other].set : other.promises[x] \in Range(other.promises)
        BY <1>1, <4>1, <4>3, StartedPromises
      <4>5. execution'[other] = execution[other]
        BY <2>2, <3>2
      <4>6. \A x \in 1 .. execution[other].set :
              promise'[other.caller][other.promises[x]] = Outcome(other, other.promises[x])
        BY <1>2, <2>4, <3>2, <4>1, <4>4
      <4> QED
        BY <1>2, <4>5, <4>6
    <3> QED
      BY <3>1, <3>2
  <2>7. \A other \in finished : \A x \in Range(other.promises) :
          promise'[other.caller][x] = Outcome(other, x)
    BY <1>2, <1>3, <2>3, <2>4
  <2> QED
    BY <2>2, <2>6, <2>7 DEF JobsSetTheirPromises, Outcome
<1>9. ASSUME NEW job \in DOMAIN execution, RunEnd(job) PROVE JobsSetTheirPromises'
  <2>1. /\ execution[job].set = Len(job.promises)
        /\ finished' = finished \cup {job}
        /\ DOMAIN execution' = DOMAIN execution \ {job}
        /\ \A other \in DOMAIN execution \ {job} : execution'[other] = execution[other]
        /\ UNCHANGED <<threw, promise>>
    BY <1>9, JobIsFinished DEF callerVars
  <2>2. job \in BatchJobs
    BY <1>1, JobsInProgress
  <2>3. \A i \in Range(job.promises) : \E k \in 1 .. Len(job.promises) : i = job.promises[k]
    BY <2>2, MembersOfJob
  <2>4. ASSUME NEW i \in Range(job.promises) PROVE promise[job.caller][i] = Outcome(job, i)
    <3>1. PICK k \in 1 .. Len(job.promises) : i = job.promises[k]
      BY <2>3
    <3>2. promise[job.caller][job.promises[k]] = Outcome(job, job.promises[k])
      BY <1>2, <2>1
    <3> QED
      BY <3>1, <3>2
  <2>5. \A other \in finished' : \A i \in Range(other.promises) :
          promise[other.caller][i] = Outcome(other, i)
    BY <1>2, <2>1, <2>4
  <2>6. ASSUME NEW other \in DOMAIN execution'
        PROVE  /\ execution'[other].set <= Len(other.promises)
               /\ execution'[other].kind = "running" => execution'[other].set = 0
               /\ execution'[other].kind = "exception" <=> other \in threw
               /\ \A k \in 1 .. execution'[other].set :
                    promise[other.caller][other.promises[k]] = Outcome(other, other.promises[k])
    BY <1>2, <2>1
  <2>7. threw' = threw /\ promise' = promise
    BY <2>1
  <2> QED
    BY <2>5, <2>6, <2>7 DEF JobsSetTheirPromises, Outcome
<1>10. CASE ClosePool
  BY <1>4, <1>10 DEF ClosePool, Pool!Close
<1>11. CASE Terminated
  BY <1>4, <1>11 DEF Terminated, replicaPoolVars, poolVars
<1> QED
  BY <1>5, <1>6, <1>7, <1>8, <1>9, <1>10, <1>11 DEF Next, ReplicaStep, RunStep

LEMMA NextPromisesFollow == ASSUME IInv, Next PROVE PromisesFollow'
<1>1. Shape /\ PoolFollows /\ JobsAreApart /\ JobsSetTheirPromises /\ PromisesFollow
  BY DEF IInv
<1>2. \A c \in Callers : \A i \in 1 .. Len(lens[c]) :
        \/ promise[c][i] \in {Unset, i}
        \/ promise[c][i] = Exception /\ \E job \in threw : job.caller = c
  BY <1>1 DEF PromisesFollow
<1>3. ASSUME UNCHANGED <<lens, promise>>, threw \subseteq threw' PROVE PromisesFollow'
  BY <1>2, <1>3 DEF PromisesFollow
<1>4. ASSUME NEW c \in Callers, CallerStep(c) PROVE PromisesFollow'
  <2>1. UNCHANGED <<lens, promise, threw>>
    BY <1>4 DEF CallerStep, ReadThrows, ReadEnd, ReadBatch, PostBatch, PostEnd, PopResult, PopEnd,
                Drained, Pool!Accept, poolVars
  <2> QED
    BY <1>3, <2>1
<1>5. CASE Take
  BY <1>3, <1>5 DEF Take, callerVars
<1>6. ASSUME NEW job \in DOMAIN execution, Compute(job) PROVE PromisesFollow'
  <2>1. UNCHANGED <<lens, promise>> /\ threw \subseteq threw'
    BY <1>6 DEF Compute, callerVars
  <2> QED
    BY <1>3, <2>1
<1>7. ASSUME NEW job \in DOMAIN execution, SetPromise(job) PROVE PromisesFollow'
  <2>1. PICK k, i, c : k = execution[job].set + 1 /\ i = job.promises[k] /\ c = job.caller
    OBVIOUS
  <2>2. c \in Callers /\ i \in 1 .. Len(lens[c]) /\ lens' = lens /\ threw' = threw
    BY <1>7, <2>1, PromiseIsSet DEF callerVars
  <2>3. promise'[c][i] = Outcome(job, i)
    BY <1>7, <2>1, PromiseIsSet
  <2>4. ASSUME NEW o \in Callers, NEW x \in 1 .. Len(lens[o]), o # c \/ x # i
        PROVE  promise'[o][x] = promise[o][x]
    BY <1>7, <2>1, <2>4, PromiseIsSet
  <2>5. \/ promise'[c][i] \in {Unset, i}
        \/ promise'[c][i] = Exception /\ \E other \in threw : other.caller = c
    BY <2>1, <2>3 DEF Outcome
  <2>6. ASSUME NEW o \in Callers, NEW x \in 1 .. Len(lens[o])
        PROVE  \/ promise'[o][x] \in {Unset, x}
               \/ promise'[o][x] = Exception /\ \E other \in threw : other.caller = o
    <3>1. CASE o = c /\ x = i
      BY <2>5, <3>1
    <3>2. CASE o # c \/ x # i
      BY <1>2, <2>4, <3>2
    <3> QED
      BY <3>1, <3>2
  <2> QED
    BY <2>2, <2>6 DEF PromisesFollow
<1>8. ASSUME NEW job \in DOMAIN execution, RunEnd(job) PROVE PromisesFollow'
  BY <1>3, <1>8 DEF RunEnd, callerVars
<1>9. CASE ClosePool
  BY <1>3, <1>9 DEF ClosePool, callerVars
<1>10. CASE Terminated
  BY <1>3, <1>10 DEF Terminated, replicaPoolVars, poolVars, callerVars
<1> QED
  BY <1>4, <1>5, <1>6, <1>7, <1>8, <1>9, <1>10 DEF Next, ReplicaStep, RunStep

-----------------------------------------------------------------------------
(* The order of the results.                                               *)

(* The part of ResultsInOrder about one caller.                            *)
InOrder(c) ==
  /\ \A i \in 1 .. Len(written[c]) : written[c][i] = i
  /\ \A i \in 1 .. Len(results[c]) : results[c][i] = Len(written[c]) + i
  /\ stage[c] = "posting" =>
       /\ Queued(c) + Len(chunk[c]) = read[c]
       /\ \A i \in 1 .. Len(chunk[c]) : chunk[c][i] = Queued(c) + i
  /\ stage[c] # "posting" => Queued(c) = read[c]
  /\ stage[c] \in {"draining", "done"} => ~torn[c] /\ read[c] = Len(lens[c])
  /\ stage[c] = "done" => results[c] = <<>>
  /\ stage[c] = "failed" => torn[c] \/ \E job \in threw : job.caller = c

LEMMA NextResultsInOrder == ASSUME IInv, Next PROVE ResultsInOrder'
<1>1. Shape /\ PoolFollows
  BY DEF IInv
<1>2. /\ stage \in [Callers -> Stages] /\ read \in [Callers -> Nat]
      /\ chunk \in [Callers -> Seq(Nat)] /\ results \in [Callers -> Seq(Nat)]
      /\ written \in [Callers -> Seq(Int)] /\ lens \in [Callers -> Seq(Nat)]
  BY <1>1 DEF Shape
<1>3. \A c \in Callers : InOrder(c)
  BY Zenon DEF IInv, ResultsInOrder, InOrder
<1>4. ASSUME \A c \in Callers : InOrder(c)' PROVE ResultsInOrder'
  BY <1>4, Zenon DEF ResultsInOrder, InOrder
<1>5. ASSUME UNCHANGED callerVars, threw \subseteq threw' PROVE ResultsInOrder'
  <2>1. UNCHANGED <<lens, torn, stage, read, chunk, results, written>>
    BY <1>5 DEF callerVars
  <2>2. ASSUME NEW c \in Callers PROVE InOrder(c)'
    BY <1>3, <1>5, <2>1 DEF InOrder, Queued
  <2> QED
    BY <1>4, <2>2
(* An operation of a caller leaves the others alone.                       *)
<1>6. ASSUME NEW c \in Callers, InOrder(c)', threw \subseteq threw', UNCHANGED <<lens, torn>>,
             \A o \in Callers : o # c =>
               /\ stage'[o] = stage[o] /\ read'[o] = read[o] /\ chunk'[o] = chunk[o]
               /\ results'[o] = results[o] /\ written'[o] = written[o]
      PROVE  ResultsInOrder'
  <2>1. ASSUME NEW o \in Callers, o # c PROVE InOrder(o)'
    <3>1. /\ stage'[o] = stage[o] /\ read'[o] = read[o] /\ chunk'[o] = chunk[o]
          /\ results'[o] = results[o] /\ written'[o] = written[o]
          /\ torn'[o] = torn[o] /\ lens'[o] = lens[o]
      BY <1>6, <2>1
    <3>2. Queued(o)' = Queued(o)
      BY <3>1 DEF Queued
    <3>3. \A job \in threw : job \in threw'
      BY <1>6
    <3>4. InOrder(o)
      BY <1>3
    <3> QED
      BY <3>1, <3>2, <3>3, <3>4 DEF InOrder
  <2> QED
    BY <1>4, <1>6, <2>1
<1>7. ASSUME NEW c \in Callers, ReadThrows(c) PROVE ResultsInOrder'
  <2>1. /\ stage[c] = "reading" /\ torn[c] /\ stage' = [stage EXCEPT ![c] = "failed"]
        /\ UNCHANGED <<threw, lens, torn, read, chunk, results, written>>
    BY <1>7 DEF ReadThrows, poolVars
  <2>2. InOrder(c)'
    BY <1>2, <1>3, <2>1 DEF InOrder, Queued
  <2> QED
    BY <1>2, <1>6, <2>1, <2>2
<1>8. ASSUME NEW c \in Callers, ReadEnd(c) PROVE ResultsInOrder'
  <2>1. /\ stage[c] = "reading" /\ ~torn[c] /\ read[c] = Len(lens[c])
        /\ stage' = [stage EXCEPT ![c] = "draining"]
        /\ UNCHANGED <<threw, lens, torn, read, chunk, results, written>>
    BY <1>8 DEF ReadEnd, poolVars
  <2>2. InOrder(c)'
    BY <1>2, <1>3, <2>1 DEF InOrder, Queued
  <2> QED
    BY <1>2, <1>6, <2>1, <2>2
<1>9. ASSUME NEW c \in Callers, ReadBatch(c) PROVE ResultsInOrder'
  <2>1. PICK n, r : n = NextRead(c) /\ r = read[c]
    OBVIOUS
  <2>2. /\ stage[c] = "reading" /\ stage' = [stage EXCEPT ![c] = "posting"]
        /\ n \in Nat /\ r \in Nat
        /\ chunk' = [chunk EXCEPT ![c] = [i \in 1 .. n |-> r + i]]
        /\ read' = [read EXCEPT ![c] = r + n]
        /\ UNCHANGED <<threw, lens, torn, results, written>>
    BY <1>1, <1>9, <2>1, ChunkIsRead DEF poolVars
  <2>3. Queued(c) = r
    BY <1>3, <2>1, <2>2 DEF InOrder
  <2>4. /\ stage'[c] = "posting" /\ read'[c] = r + n
        /\ Len(chunk'[c]) = n /\ \A i \in 1 .. n : chunk'[c][i] = r + i
    BY <1>2, <2>2
  <2>5. Queued(c)' = r
    BY <2>2, <2>3 DEF Queued
  <2>6. InOrder(c)'
    BY <1>3, <2>2, <2>4, <2>5 DEF InOrder
  <2>7. \A o \in Callers : o # c =>
          stage'[o] = stage[o] /\ read'[o] = read[o] /\ chunk'[o] = chunk[o]
    BY <1>2, <2>2
  <2> QED
    BY <1>6, <2>2, <2>6, <2>7
<1>10. ASSUME NEW c \in Callers, PostBatch(c) PROVE ResultsInOrder'
  <2>1. PICK jobs : jobs = toPost[c]
    OBVIOUS
  <2>2. UNCHANGED <<threw, lens, torn, stage, read, chunk, results, written>>
    BY <1>1, <1>10, <2>1, FirstBatchIsAccepted
  <2>3. InOrder(c)'
    BY <1>3, <2>2 DEF InOrder, Queued
  <2> QED
    BY <1>6, <2>2, <2>3
<1>11. ASSUME NEW c \in Callers, PostEnd(c) PROVE ResultsInOrder'
  <2>1. /\ stage[c] = "posting" /\ stage' = [stage EXCEPT ![c] = "popping"]
        /\ results' = [results EXCEPT ![c] = results[c] \o chunk[c]]
        /\ UNCHANGED <<threw, lens, torn, read, chunk, written>>
    BY <1>11 DEF PostEnd, poolVars
  <2>2. PICK q, p, w : q = results[c] /\ p = chunk[c] /\ w = Len(written[c])
    OBVIOUS
  <2>3. q \in Seq(Nat) /\ p \in Seq(Nat) /\ w \in Nat /\ results'[c] = q \o p
    BY <1>2, <2>1, <2>2
  <2>4. /\ \A i \in 1 .. Len(q) : q[i] = w + i
        /\ \A i \in 1 .. Len(p) : p[i] = w + Len(q) + i
        /\ w + Len(q) + Len(p) = read[c]
    BY <1>3, <2>1, <2>2 DEF InOrder, Queued
  <2>5. Len(q \o p) = Len(q) + Len(p) /\ Len(q) \in Nat /\ Len(p) \in Nat
    BY <2>3
  <2>6. ASSUME NEW i \in 1 .. Len(q \o p) PROVE (q \o p)[i] = w + i
    <3>1. CASE i <= Len(q)
      BY <2>3, <2>4, <2>5, <3>1
    <3>2. CASE i > Len(q)
      <4>1. i - Len(q) \in 1 .. Len(p) /\ (q \o p)[i] = p[i - Len(q)]
        BY <2>3, <2>5, <3>2
      <4>2. p[i - Len(q)] = w + Len(q) + (i - Len(q))
        BY <2>4, <4>1
      <4> QED
        BY <2>3, <2>5, <4>1, <4>2
    <3> QED
      BY <2>5, <3>1, <3>2
  <2>7. w + Len(q \o p) = read[c]
    BY <2>3, <2>4, <2>5
  <2>8. stage'[c] = "popping" /\ Len(written'[c]) = w /\ read'[c] = read[c]
    BY <1>2, <2>1, <2>2
  <2>9. Queued(c)' = read[c]
    BY <2>3, <2>7, <2>8, Zenon DEF Queued
  <2>10. \A i \in 1 .. Len(written'[c]) : written'[c][i] = i
    BY <1>3, <2>1 DEF InOrder
  <2>11. \A i \in 1 .. Len(results'[c]) : results'[c][i] = Len(written'[c]) + i
    BY <2>3, <2>6, <2>8
  <2>12. InOrder(c)'
    BY <2>8, <2>9, <2>10, <2>11 DEF InOrder
  <2> QED
    BY <1>2, <1>6, <2>1, <2>12
<1>12. ASSUME NEW c \in Callers, PopResult(c) PROVE ResultsInOrder'
  <2>1. PICK i, v : i = Head(results[c]) /\ v = promise[c][i]
    OBVIOUS
  <2>2. /\ results[c] \in Seq(Nat) /\ Len(results[c]) > 0
        /\ i = Len(written[c]) + 1 /\ i \in Nat
        /\ stage[c] # "posting"
        /\ v = i \/ (v = Exception /\ \E job \in threw : job.caller = c)
    BY <1>12, <2>1, NextResultIsPopped
  <2>3. CASE v = Exception
    <3>1. /\ stage' = [stage EXCEPT ![c] = "failed"]
          /\ UNCHANGED <<threw, lens, torn, read, chunk, results, written>>
      BY <1>12, <2>1, <2>3 DEF PopResult, poolVars
    <3>2. \E job \in threw : job.caller = c
      BY <2>2, <2>3 DEF Exception
    <3>3. InOrder(c)'
      BY <1>2, <1>3, <2>2, <3>1, <3>2 DEF InOrder, Queued
    <3> QED
      BY <1>2, <1>6, <3>1, <3>3
  <2>4. CASE v # Exception
    <3>1. /\ written' = [written EXCEPT ![c] = Append(written[c], v)]
          /\ results' = [results EXCEPT ![c] = Tail(results[c])]
          /\ stage[c] \in {"popping", "draining"}
          /\ UNCHANGED <<threw, lens, torn, stage, read, chunk>>
      BY <1>12, <2>1, <2>4 DEF PopResult, poolVars
    <3>2. PICK q, w : q = results[c] /\ w = written[c]
      OBVIOUS
    <3>3. /\ q \in Seq(Nat) /\ w \in Seq(Int) /\ Len(q) > 0 /\ v = Len(w) + 1
          /\ written'[c] = Append(w, v) /\ results'[c] = Tail(q)
      BY <1>2, <2>2, <2>4, <3>1, <3>2
    <3>4. /\ \A x \in 1 .. Len(w) : w[x] = x
          /\ \A x \in 1 .. Len(q) : q[x] = Len(w) + x
          /\ Len(w) + Len(q) = read[c]
      BY <1>3, <2>2, <3>2 DEF InOrder, Queued
    <3>5. /\ Len(Append(w, v)) = Len(w) + 1 /\ Len(Tail(q)) = Len(q) - 1
          /\ Len(w) \in Nat /\ Len(q) \in Nat
      BY <3>3
    <3>6. ASSUME NEW x \in 1 .. Len(w) + 1 PROVE Append(w, v)[x] = x
      BY <3>3, <3>4, <3>5
    <3>7. ASSUME NEW x \in 1 .. Len(q) - 1 PROVE Tail(q)[x] = (Len(w) + 1) + x
      <4>1. x + 1 \in 1 .. Len(q) /\ Tail(q)[x] = q[x + 1]
        BY <3>3, <3>5
      <4> QED
        BY <3>4, <3>5, <4>1
    <3>8. (Len(w) + 1) + (Len(q) - 1) = read[c]
      BY <3>4, <3>5
    <3>9. Queued(c)' = read[c]
      BY <3>3, <3>5, <3>8, Zenon DEF Queued
    <3>10. /\ \A x \in 1 .. Len(written'[c]) : written'[c][x] = x
           /\ \A x \in 1 .. Len(results'[c]) : results'[c][x] = Len(written'[c]) + x
      BY <3>3, <3>5, <3>6, <3>7
    <3>11. InOrder(c)'
      BY <1>3, <3>1, <3>9, <3>10 DEF InOrder
    <3> QED
      BY <1>2, <1>6, <3>1, <3>11
  <2> QED
    BY <2>3, <2>4
<1>13. ASSUME NEW c \in Callers, PopEnd(c) PROVE ResultsInOrder'
  <2>1. /\ stage[c] = "popping" /\ stage' = [stage EXCEPT ![c] = "reading"]
        /\ UNCHANGED <<threw, lens, torn, read, chunk, results, written>>
    BY <1>13 DEF PopEnd, poolVars
  <2>2. InOrder(c)'
    BY <1>2, <1>3, <2>1 DEF InOrder, Queued
  <2> QED
    BY <1>2, <1>6, <2>1, <2>2
<1>14. ASSUME NEW c \in Callers, Drained(c) PROVE ResultsInOrder'
  <2>1. /\ stage[c] = "draining" /\ results[c] = <<>>
        /\ stage' = [stage EXCEPT ![c] = "done"]
        /\ UNCHANGED <<threw, lens, torn, read, chunk, results, written>>
    BY <1>14 DEF Drained, poolVars
  <2>2. InOrder(c)'
    BY <1>2, <1>3, <2>1 DEF InOrder, Queued
  <2> QED
    BY <1>2, <1>6, <2>1, <2>2
<1>15. CASE Take
  BY <1>5, <1>15 DEF Take
<1>16. ASSUME NEW job \in DOMAIN execution, Compute(job) PROVE ResultsInOrder'
  <2>1. UNCHANGED callerVars /\ threw \subseteq threw'
    BY <1>16 DEF Compute
  <2> QED
    BY <1>5, <2>1
<1>17. ASSUME NEW job \in DOMAIN execution, SetPromise(job) PROVE ResultsInOrder'
  BY <1>5, <1>17 DEF SetPromise
<1>18. ASSUME NEW job \in DOMAIN execution, RunEnd(job) PROVE ResultsInOrder'
  BY <1>5, <1>18 DEF RunEnd
<1>19. CASE ClosePool
  BY <1>5, <1>19 DEF ClosePool
<1>20. CASE Terminated
  BY <1>5, <1>20 DEF Terminated, replicaPoolVars, poolVars
<1> QED
  BY <1>7, <1>8, <1>9, <1>10, <1>11, <1>12, <1>13, <1>14, <1>15, <1>16, <1>17, <1>18, <1>19, <1>20
     DEF Next, CallerStep, ReplicaStep, RunStep

-----------------------------------------------------------------------------
(* Theorems.                                                               *)

LEMMA InitIInv == Init => IInv
<1> SUFFICES ASSUME Init PROVE IInv
  OBVIOUS
<1>1. Shape
  BY InitShape
<1>2. /\ accepted = <<>> /\ started = <<>> /\ finished = {} /\ execution = <<>> /\ threw = {}
      /\ stage = [c \in Callers |-> "reading"]
      /\ read = [c \in Callers |-> 0]
      /\ toPost = [c \in Callers |-> <<>>]
      /\ results = [c \in Callers |-> <<>>]
      /\ promise = [c \in Callers |-> [i \in DOMAIN lens[c] |-> Unset]]
      /\ written = [c \in Callers |-> <<>>]
  BY DEF Init, Pool!Init
<1>3. Len(accepted) = 0 /\ Len(started) = 0 /\ DOMAIN execution = {} /\ Range(started) = {}
  <2>1. DOMAIN execution = {} /\ DOMAIN started = {}
    BY <1>2
  <2>2. Range(started) = {}
    BY <2>1 DEF Range
  <2> QED
    BY <1>2, <2>1, <2>2
<1>4. PoolFollows
  BY <1>2, <1>3 DEF PoolFollows
<1>5. ASSUME NEW c \in Callers PROVE toPost[c] = <<>> /\ Len(toPost[c]) = 0
  BY <1>2
<1>6. JobsAreApart
  BY <1>3, <1>5 DEF JobsAreApart
<1>7. JobsSetTheirPromises
  BY <1>2, <1>3 DEF JobsSetTheirPromises
<1>8. PromisesFollow
  <2>1. ASSUME NEW c \in Callers, NEW i \in 1 .. Len(lens[c]) PROVE promise[c][i] = Unset
    <3>1. i \in DOMAIN lens[c]
      BY <1>1 DEF Shape
    <3> QED
      BY <1>2, <3>1
  <2> QED
    BY <2>1 DEF PromisesFollow
<1>9. ResultsInOrder
  <2>1. ASSUME NEW c \in Callers
        PROVE  /\ stage[c] = "reading" /\ read[c] = 0
               /\ Len(written[c]) = 0 /\ Len(results[c]) = 0
    BY <1>2
  <2>2. \A i \in 1 .. 0 : FALSE
    OBVIOUS
  <2>3. ASSUME NEW c \in Callers PROVE InOrder(c)
    <3>1. Queued(c) = 0
      <4>1. Queued(c) = Len(written[c]) + Len(results[c])
        BY DEF Queued
      <4>2. Len(written[c]) = 0 /\ Len(results[c]) = 0
        BY <2>1
      <4>3. 0 + 0 = 0
        OBVIOUS
      <4> QED
        BY <4>1, <4>2, <4>3, Zenon
    <3>2. /\ \A i \in 1 .. Len(written[c]) : written[c][i] = i
          /\ \A i \in 1 .. Len(results[c]) : results[c][i] = Len(written[c]) + i
      BY <2>1, <2>2, Zenon
    <3> QED
      BY <2>1, <3>1, <3>2 DEF InOrder
  <2> QED
    BY <2>3, Zenon DEF ResultsInOrder, InOrder
<1> QED
  BY <1>1, <1>4, <1>6, <1>7, <1>8, <1>9 DEF IInv

LEMMA NextIInv == ASSUME IInv, [Next]_replicaPoolVars PROVE IInv'
<1>1. CASE Next
  BY <1>1, NextShape, NextPoolFollows, NextJobsAreApart, NextJobsSetTheirPromises,
     NextPromisesFollow, NextResultsInOrder DEF IInv
<1>2. CASE UNCHANGED replicaPoolVars
  <2>1. /\ UNCHANGED <<accepted, started, finished, execution, threw>>
        /\ UNCHANGED <<lens, torn, stage, read, toPost, chunk, results, written, promise>>
    BY <1>2 DEF replicaPoolVars, poolVars, callerVars
  <2>2. Shape' /\ PoolFollows'
    BY <2>1 DEF IInv, Shape, PoolFollows
  <2>3. ReadJobs' = ReadJobs
    BY <2>1 DEF ReadJobs, BatchJobs
  <2>4. JobsAreApart'
    BY <2>1, <2>3 DEF IInv, JobsAreApart
  <2>5. JobsSetTheirPromises'
    BY <2>1 DEF IInv, JobsSetTheirPromises, Outcome
  <2>6. PromisesFollow'
    BY <2>1 DEF IInv, PromisesFollow
  <2>7. ResultsInOrder'
    <3>1. \A c \in Callers : InOrder(c)
      BY Zenon DEF IInv, ResultsInOrder, InOrder
    <3>2. ASSUME NEW c \in Callers PROVE InOrder(c)'
      BY <2>1, <3>1 DEF InOrder, Queued
    <3> QED
      BY <3>2, Zenon DEF ResultsInOrder, InOrder
  <2> QED
    BY <2>2, <2>4, <2>5, <2>6, <2>7 DEF IInv
<1> QED
  BY <1>1, <1>2

(* The inductive invariant of consume_batches and its replicas.            *)
THEOREM Invariant == Spec => []IInv
<1>1. Init => IInv
  BY InitIInv
<1>2. IInv /\ [Next]_replicaPoolVars => IInv'
  BY NextIInv
<1> QED
  BY <1>1, <1>2, PTL DEF Spec

(* consume_batches writes the results of the first examples in the order   *)
(* of the input, each that of its own example, although batches are sorted *)
(* by length and run in any order; it returns with all of them, and fails  *)
(* only by its reader or by a batch of its own. No two batches have a      *)
(* promise in common, and a batch that was run has set all of its own.     *)
THEOREM ResultsAreComplete == Spec => []CompleteOrFailed
<1>1. ASSUME IInv PROVE CompleteOrFailed
  <2>1. Shape /\ PoolFollows /\ JobsAreApart /\ JobsSetTheirPromises /\ ResultsInOrder
    BY <1>1 DEF IInv
  <2>2. accepted \in Seq(BatchJobs) /\ DOMAIN accepted = 1 .. Len(accepted)
    BY <2>1 DEF Shape
  <2>3. ASSUME NEW c \in Callers
        PROVE  /\ written[c] = [i \in DOMAIN written[c] |-> i]
               /\ stage[c] = "done" => ~torn[c] /\ Len(written[c]) = Len(lens[c])
               /\ stage[c] = "failed" => torn[c] \/ \E job \in threw : job.caller = c
    <3>1. written[c] \in Seq(Int) /\ Len(written[c]) \in Nat
      BY <2>1 DEF Shape
    <3>2. written[c] = [i \in DOMAIN written[c] |-> i]
      <4>1. \A i \in 1 .. Len(written[c]) : written[c][i] = i
        BY <2>1 DEF ResultsInOrder
      <4>2. PICK w : w = written[c]
        OBVIOUS
      <4>3. w \in Seq(Int) /\ \A i \in 1 .. Len(w) : w[i] = i
        BY <3>1, <4>1, <4>2
      <4>4. w = [i \in DOMAIN w |-> i]
        BY <4>3
      <4> QED
        BY <4>2, <4>4
    <3>3. ASSUME stage[c] = "done" PROVE ~torn[c] /\ Len(written[c]) = Len(lens[c])
      <4>1. /\ ~torn[c] /\ read[c] = Len(lens[c]) /\ results[c] = <<>> /\ Queued(c) = read[c]
        BY <2>1, <3>3 DEF ResultsInOrder
      <4>2. Len(results[c]) = 0
        BY <4>1
      <4> QED
        BY <3>1, <4>1, <4>2 DEF Queued
    <3>4. stage[c] = "failed" => torn[c] \/ \E job \in threw : job.caller = c
      BY <2>1 DEF ResultsInOrder
    <3> QED
      BY <3>2, <3>3, <3>4
  <2>4. \A m, n \in DOMAIN accepted :
          m # n /\ accepted[m].caller = accepted[n].caller =>
            Range(accepted[m].promises) \cap Range(accepted[n].promises) = {}
    BY <2>1, <2>2 DEF JobsAreApart, Apart2
  <2>5. \A job \in finished : \A i \in Range(job.promises) :
          promise[job.caller][i] = IF job \in threw THEN Exception ELSE i
    BY <2>1 DEF JobsSetTheirPromises, Outcome
  <2> QED
    BY <2>3, <2>4, <2>5 DEF CompleteOrFailed
<1> QED
  BY <1>1, Invariant, PTL

-----------------------------------------------------------------------------
(* The reader of consume_batches: the sum and the maximum that its loops   *)
(* keep, and the batches that get_next returns.                            *)

(* f gives the sum of g over each subset of S, in the order of CHOOSE.     *)
SumsOf(S, g, f) ==
  f = [s \in SUBSET S |->
        IF s = {} THEN 0
        ELSE g[CHOOSE x \in s : TRUE] + f[s \ {CHOOSE x \in s : TRUE}]]

(* A set of n + 1 elements at most without the chosen one has n at most.   *)
LEMMA SumsOverFewer ==
  ASSUME NEW S, IsFiniteSet(S), NEW s \in SUBSET S, s # {}
  PROVE  LET x == CHOOSE x \in s : TRUE
         IN  /\ x \in S /\ s \ {x} \in SUBSET S
             /\ Cardinality(s) \in Nat /\ Cardinality(s \ {x}) = Cardinality(s) - 1
<1> DEFINE x == CHOOSE x \in s : TRUE
<1>1. x \in s
  OBVIOUS
<1> HIDE DEF x
<1>2. IsFiniteSet(s)
  BY FS_Subset
<1>3. Cardinality(s) \in Nat /\ Cardinality(s \ {x}) = Cardinality(s) - 1
  BY <1>1, <1>2, FS_RemoveElement, FS_CardinalityType
<1>4. x \in S /\ s \ {x} \in SUBSET S
  BY <1>1
<1>5. /\ x \in S /\ s \ {x} \in SUBSET S
      /\ Cardinality(s) \in Nat /\ Cardinality(s \ {x}) = Cardinality(s) - 1
  BY <1>3, <1>4
<1> QED
  BY <1>5 DEF x

(* The sums over the subsets of a finite set are numbers.                  *)
LEMMA SumsExist ==
  ASSUME NEW S, IsFiniteSet(S), NEW g \in [S -> Nat]
  PROVE  \E f \in [SUBSET S -> Nat] : SumsOf(S, g, f)
<1> DEFINE Chosen(s) == CHOOSE x \in s : TRUE
           Sum(f, s) == IF s = {} THEN 0 ELSE g[Chosen(s)] + f[s \ {Chosen(s)}]
           C == Cardinality(S)
           Small(n) == {s \in SUBSET S : Cardinality(s) <= n}
           T == {n \in 0 .. C : \E f \in [Small(n) -> Nat] : \A s \in Small(n) : f[s] = Sum(f, s)}
<1>1. C \in Nat
  BY FS_CardinalityType
<1>2. ASSUME NEW s \in SUBSET S
      PROVE  Cardinality(s) \in Nat /\ (Cardinality(s) = 0 => s = {}) /\ Cardinality(s) <= C
  <2>1. IsFiniteSet(s) /\ Cardinality(s) <= C
    BY FS_Subset
  <2> QED
    BY <2>1, FS_CardinalityType, FS_EmptySet
<1>3. ASSUME NEW s \in SUBSET S, s # {}
      PROVE  /\ Chosen(s) \in S /\ s \ {Chosen(s)} \in SUBSET S
             /\ Cardinality(s \ {Chosen(s)}) = Cardinality(s) - 1
  BY <1>3, SumsOverFewer
<1> HIDE DEF Chosen, C
<1>4. 0 \in T
  <2> DEFINE f == [s \in Small(0) |-> 0]
  <2>1. f \in [Small(0) -> Nat]
    OBVIOUS
  <2>2. ASSUME NEW s \in Small(0) PROVE f[s] = Sum(f, s)
    <3>1. s = {}
      BY <1>2
    <3> QED
      BY <3>1
  <2>3. \E e \in [Small(0) -> Nat] : \A s \in Small(0) : e[s] = Sum(e, s)
    <3> HIDE DEF Small, Sum
    <3> QED
      BY <2>1, <2>2
  <2> HIDE DEF Small, Sum
  <2> QED
    BY <1>1, <2>3
<1>5. ASSUME NEW n \in 0 .. C - 1, n \in T PROVE n + 1 \in T
  <2>1. PICK f \in [Small(n) -> Nat] : \A s \in Small(n) : f[s] = Sum(f, s)
    BY <1>5
  <2> DEFINE h == [s \in Small(n + 1) |-> IF s \in Small(n) THEN f[s] ELSE Sum(f, s)]
  <2>2. ASSUME NEW s \in Small(n + 1), s # {}
        PROVE  Chosen(s) \in S /\ s \ {Chosen(s)} \in Small(n)
    BY <1>2, <1>3, <2>2
  <2>3. Small(n) \subseteq Small(n + 1)
    BY <1>2
  <2>4. {} \in Small(n)
    BY FS_EmptySet
  <2> HIDE DEF Small
  <2>5. ASSUME NEW s \in Small(n + 1) PROVE h[s] \in Nat /\ h[s] = Sum(h, s)
    <3>1. CASE s = {}
      BY <2>1, <2>3, <2>4, <3>1
    <3>2. CASE s # {}
      <4>1. /\ Chosen(s) \in S /\ s \ {Chosen(s)} \in Small(n)
            /\ h[s \ {Chosen(s)}] = f[s \ {Chosen(s)}]
        BY <2>2, <2>3, <3>2
      <4>2. h[s] = Sum(f, s)
        BY <2>1
      <4>3. Sum(h, s) = Sum(f, s)
        BY <4>1
      <4>4. Sum(f, s) \in Nat
        BY <3>2, <4>1
      <4> QED
        BY <4>2, <4>3, <4>4
    <3> QED
      BY <3>1, <3>2
  <2> HIDE DEF Sum
  <2>6. h \in [Small(n + 1) -> Nat] /\ \A s \in Small(n + 1) : h[s] = Sum(h, s)
    BY <2>5
  <2>7. n + 1 \in 0 .. C
    BY <1>1
  <2> QED
    BY <2>6, <2>7
<1>6. C \in T
  <2> HIDE DEF T
  <2>1. \A m \in 0 .. C : m \in T
    BY ONLY <1>1, <1>4, <1>5, Induction
  <2> QED
    BY <1>1, <2>1
<1>7. Small(C) = SUBSET S
  BY <1>2
<1>8. PICK f \in [SUBSET S -> Nat] : \A s \in SUBSET S : f[s] = Sum(f, s)
  <2> HIDE DEF Sum, Small
  <2> QED
    BY <1>6, <1>7
<1>9. f = [s \in SUBSET S |-> Sum(f, s)]
  <2> HIDE DEF Sum
  <2> QED
    BY <1>8
<1> QED
  BY <1>9 DEF SumsOf, Chosen

(* There is one function that gives them.                                  *)
LEMMA SumsAreUnique ==
  ASSUME NEW S, IsFiniteSet(S), NEW g, NEW f, NEW h, SumsOf(S, g, f), SumsOf(S, g, h)
  PROVE  f = h
<1> DEFINE Chosen(s) == CHOOSE x \in s : TRUE
           Sum(e, s) == IF s = {} THEN 0 ELSE g[Chosen(s)] + e[s \ {Chosen(s)}]
           C == Cardinality(S)
           T == {n \in 0 .. C : \A s \in SUBSET S : Cardinality(s) <= n => f[s] = h[s]}
<1>1. C \in Nat
  BY FS_CardinalityType
<1>2. ASSUME NEW s \in SUBSET S
      PROVE  Cardinality(s) \in Nat /\ (Cardinality(s) = 0 => s = {}) /\ Cardinality(s) <= C
  <2>1. IsFiniteSet(s) /\ Cardinality(s) <= C
    BY FS_Subset
  <2> QED
    BY <2>1, FS_CardinalityType, FS_EmptySet
<1>3. ASSUME NEW s \in SUBSET S, s # {}
      PROVE  /\ Chosen(s) \in S /\ s \ {Chosen(s)} \in SUBSET S
             /\ Cardinality(s \ {Chosen(s)}) = Cardinality(s) - 1
  BY <1>3, SumsOverFewer
<1>4. /\ f = [s \in SUBSET S |-> Sum(f, s)]
      /\ h = [s \in SUBSET S |-> Sum(h, s)]
  BY DEF SumsOf
<1>5. \A s \in SUBSET S : f[s] = Sum(f, s) /\ h[s] = Sum(h, s)
  <2> HIDE DEF Sum
  <2> QED
    BY <1>4
<1> HIDE DEF Chosen, C
<1>6. 0 \in T
  <2>1. ASSUME NEW s \in SUBSET S, Cardinality(s) <= 0 PROVE f[s] = h[s]
    <3>1. s = {}
      BY <1>2, <2>1
    <3> QED
      BY <1>5, <3>1
  <2> QED
    BY <1>1, <2>1
<1>7. ASSUME NEW n \in 0 .. C - 1, n \in T PROVE n + 1 \in T
  <2>1. ASSUME NEW s \in SUBSET S, Cardinality(s) <= n + 1 PROVE f[s] = h[s]
    <3>1. CASE s = {}
      BY <1>5, <3>1
    <3>2. CASE s # {}
      <4>1. s \ {Chosen(s)} \in SUBSET S /\ Cardinality(s \ {Chosen(s)}) <= n
        BY <1>2, <1>3, <2>1, <3>2
      <4>2. f[s \ {Chosen(s)}] = h[s \ {Chosen(s)}]
        BY <1>7, <4>1
      <4> QED
        BY <1>5, <3>2, <4>2
    <3> QED
      BY <3>1, <3>2
  <2> QED
    BY <1>1, <2>1
<1>8. C \in T
  <2> HIDE DEF T
  <2>1. \A m \in 0 .. C : m \in T
    BY ONLY <1>1, <1>6, <1>7, Induction
  <2> QED
    BY <1>1, <2>1
<1>9. \A s \in SUBSET S : f[s] = h[s]
  BY <1>2, <1>8
<1>10. f = [s \in SUBSET S |-> f[s]] /\ h = [s \in SUBSET S |-> h[s]]
  <2> HIDE DEF Sum
  <2> QED
    BY <1>4
<1>11. [s \in SUBSET S |-> f[s]] = [s \in SUBSET S |-> h[s]]
  BY <1>9
<1> QED
  BY <1>10, <1>11, Zenon

(* The total that the loop keeps is the sum of the increments.             *)
LEMMA TotalIsTheSum ==
  ASSUME NEW l \in Seq(Nat), NEW k \in 0 .. Len(l), NEW type,
         NEW inc \in [1 .. k -> Nat], \A i \in 1 .. k : inc[i] = Increment(l[i], type)
  PROVE  TotalIncrement(l, k, type) \in Nat /\ SumFunction(inc) = TotalIncrement(l, k, type)
<1> DEFINE S == 1 .. k
           Chosen(s) == CHOOSE x \in s : TRUE
           Sums(e) == [s \in SUBSET S |->
                        IF s = {} THEN 0 ELSE inc[Chosen(s)] + e[s \ {Chosen(s)}]]
           Totals(e) == [s \in SUBSET S |->
                          IF s = {} THEN 0
                          ELSE Increment(l[Chosen(s)], type) + e[s \ {Chosen(s)}]]
           sums == CHOOSE e : e = Sums(e)
           totals == CHOOSE e : e = Totals(e)
<1>1. IsFiniteSet(S)
  BY FS_Interval
<1>2. PICK f \in [SUBSET S -> Nat] : SumsOf(S, inc, f)
  BY <1>1, SumsExist
<1>3. ASSUME NEW e PROVE Totals(e) = Sums(e)
  <2>1. ASSUME NEW s \in SUBSET S, s # {} PROVE Chosen(s) \in S
    BY <2>1
  <2> HIDE DEF Chosen
  <2>2. \A s \in SUBSET S : s # {} => inc[Chosen(s)] = Increment(l[Chosen(s)], type)
    BY <2>1
  <2> HIDE DEF S
  <2> QED
    BY <2>2
<1>4. f = Sums(f) /\ f = Totals(f)
  <2>1. f = Sums(f)
    BY <1>2, Zenon DEF SumsOf
  <2> HIDE DEF Sums, Totals
  <2> QED
    BY <1>3, <2>1, Zenon
<1>5. TotalIncrement(l, k, type) = totals[S]
  BY Zenon DEF TotalIncrement, MapThenSumSet, MapThenFoldSet
<1>6. SumFunction(inc) = sums[S]
  <2>1. DOMAIN inc = S
    OBVIOUS
  <2> QED
    BY <2>1, Zenon DEF SumFunction, SumFunctionOnSet, FoldFunctionOnSet, MapThenFoldSet
<1> HIDE DEF Sums, Totals, S
<1>7. sums = Sums(sums) /\ totals = Totals(totals)
  BY <1>4, Zenon
<1>8. totals = Sums(totals)
  BY <1>3, <1>7, Zenon
<1> HIDE DEF sums, totals
<1>9. sums = f /\ totals = f
  <2>1. SumsOf(S, inc, sums) /\ SumsOf(S, inc, totals)
    BY <1>7, <1>8 DEF SumsOf, Sums
  <2> QED
    BY <1>1, <1>2, <2>1, SumsAreUnique
<1>10. f[S] \in Nat
  BY <1>2
<1> QED
  BY <1>5, <1>6, <1>9, <1>10, Zenon

ReaderTypeOK ==
  /\ stream \in Seq(Nat)
  /\ second \in Nat
  /\ maxBatchSize \in Nat
  /\ nextExample \in 0 .. Rows
  /\ returned \in Seq(Seq(Nat))

(* The rows from `first` on, as get_next finds them, the first n, and   *)
(* the number it takes.                                                    *)
RowsFrom(first) == SubSeq(stream, first, Rows)
Interval(first, n) == [i \in 1 .. n |-> first + i - 1]
Filled(first) == Fill(RowsFrom(first), maxBatchSize, batchType, considerPadding)

(* Every batch is what one call of get_next took from some row on.         *)
BatchesAreFilled ==
  \A b \in 1 .. Len(returned) : \E first \in 1 .. Rows :
    returned[b] = Interval(first, Filled(first))

ReaderInv == ReaderTypeOK /\ BatchesAreFilled

LEMMA RowsAreExamples ==
  ASSUME stream \in Seq(Nat), second \in Nat, NEW first \in 1 .. Rows
  PROVE  /\ Rows \in Nat /\ Rows <= Len(stream)
         /\ RowsFrom(first) \in Seq(Nat) /\ Len(RowsFrom(first)) = Rows - first + 1
         /\ \A i \in 1 .. Rows - first + 1 : RowsFrom(first)[i] = stream[first + i - 1]
<1>1. Rows \in Nat /\ Rows <= Len(stream)
  BY DEF Rows
<1>2. PICK r : r = Rows
  OBVIOUS
<1>3. PICK o, n : o = first - 1 /\ n = r - first + 1
  OBVIOUS
<1>4. o \in Nat /\ n \in Nat /\ o + n <= Len(stream) /\ o + 1 = first /\ o + n = r
  BY <1>1, <1>2, <1>3
<1>5. /\ \A i \in 1 .. n : SubSeq(stream, o + 1, o + n)[i] = stream[o + i]
      /\ SubSeq(stream, o + 1, o + n) \in Seq(Nat)
      /\ Len(SubSeq(stream, o + 1, o + n)) = n
  <2>1. PICK S : S = Nat
    OBVIOUS
  <2>2. stream \in Seq(S)
    BY <2>1
  <2>3. /\ \A i \in 1 .. n : SubSeq(stream, o + 1, o + n)[i] = stream[o + i]
        /\ SubSeq(stream, o + 1, o + n) \in Seq(S)
        /\ Len(SubSeq(stream, o + 1, o + n)) = n
    BY ONLY <1>4, <2>2, Slice
  <2> QED
    BY <2>1, <2>3, Zenon
<1>6. RowsFrom(first) = SubSeq(stream, o + 1, o + n)
  BY <1>2, <1>4 DEF RowsFrom
<1>7. \A i \in 1 .. n : o + i = first + i - 1
  BY <1>3, <1>4
<1> QED
  BY <1>1, <1>2, <1>3, <1>5, <1>6, <1>7

(* Some numbers have a greatest one.                                       *)
LEMMA GreatestOfSome ==
  ASSUME NEW m \in Nat \ {0}, NEW f \in [1 .. m -> Nat]
  PROVE  \E i \in 1 .. m : \A j \in 1 .. m : f[i] >= f[j]
<1> DEFINE T == {n \in 0 .. m - 1 : \E i \in 1 .. n + 1 : \A j \in 1 .. n + 1 : f[i] >= f[j]}
<1>1. 0 \in T
  <2>1. 1 \in 1 .. 0 + 1 /\ \A j \in 1 .. 0 + 1 : f[1] >= f[j]
    OBVIOUS
  <2> QED
    BY <2>1
<1>2. ASSUME NEW n \in 0 .. m - 1 - 1, n \in T PROVE n + 1 \in T
  <2>1. PICK i \in 1 .. n + 1 : \A j \in 1 .. n + 1 : f[i] >= f[j]
    BY <1>2
  <2>2. n + 2 \in 1 .. m /\ f[n + 2] \in Nat /\ \A j \in 1 .. n + 1 : f[j] \in Nat
    OBVIOUS
  <2>3. CASE f[i] >= f[n + 2]
    <3>1. i \in 1 .. n + 1 + 1 /\ \A j \in 1 .. n + 1 + 1 : f[i] >= f[j]
      BY <2>1, <2>2, <2>3
    <3> QED
      BY <2>2, <3>1
  <2>4. CASE ~(f[i] >= f[n + 2])
    <3>1. n + 2 \in 1 .. n + 1 + 1 /\ \A j \in 1 .. n + 1 + 1 : f[n + 2] >= f[j]
      BY <2>1, <2>2, <2>4
    <3> QED
      BY <2>2, <3>1
  <2> QED
    BY <2>3, <2>4
<1>3. m - 1 \in T
  <2> HIDE DEF T
  <2>1. PICK n : n = m - 1
    OBVIOUS
  <2>2. n \in Nat /\ \A k \in 0 .. n - 1 : k \in T => k + 1 \in T
    BY <1>2, <2>1
  <2>3. \A k \in 0 .. n : k \in T
    BY ONLY <1>1, <2>2, Induction
  <2> QED
    BY <2>1, <2>2, <2>3
<1> QED
  BY <1>3

(* The size that the loops compute for the first m rows from one on is     *)
(* what a batch of them costs.                                             *)
LEMMA SizeIsTheCost ==
  ASSUME stream \in Seq(Nat), second \in Nat,
         NEW first \in 1 .. Rows, NEW m \in 1 .. Rows - first + 1
  PROVE  LET cost == Cost(Lengths(Interval(first, m)))
         IN  /\ cost \in Nat
             /\ considerPadding => cost = FixedSize(RowsFrom(first), m - 1, batchType)
             /\ ~considerPadding => cost = VariableSize(RowsFrom(first), m - 1, batchType)
<1> DEFINE rest == RowsFrom(first)
           inc == [i \in 1 .. m |-> Increment(rest[i], batchType)]
<1>1. /\ Rows \in Nat /\ Rows <= Len(stream)
      /\ rest \in Seq(Nat) /\ Len(rest) = Rows - first + 1
      /\ \A i \in 1 .. Rows - first + 1 : rest[i] = stream[first + i - 1]
  BY RowsAreExamples
<1> HIDE DEF rest
<1>2. m \in Nat \ {0} /\ m \in 1 .. Len(rest) /\ m - 1 + 1 = m
  BY <1>1
<1>3. Lengths(Interval(first, m)) = [i \in 1 .. m |-> rest[i]]
  <2>1. Lengths(Interval(first, m)) = [i \in 1 .. m |-> stream[first + i - 1]]
    BY DEF Lengths, Interval
  <2>2. \A i \in 1 .. m : stream[first + i - 1] = rest[i]
    BY <1>1, <1>2
  <2> QED
    BY <2>1, <2>2
<1>4. inc \in [1 .. m -> Nat]
  <2>1. \A i \in 1 .. m : rest[i] \in Nat
    BY <1>1, <1>2
  <2> QED
    BY <2>1 DEF Increment
<1>5. PICK ls : ls = [i \in 1 .. m |-> rest[i]]
  OBVIOUS
<1>6. Len(ls) = m /\ DOMAIN ls = 1 .. m /\ \A i \in 1 .. m : ls[i] = rest[i]
  <2>1. ls \in Seq(Nat)
    <3>1. \A i \in 1 .. m : rest[i] \in Nat
      BY <1>1, <1>2
    <3> QED
      BY <1>2, <1>5, <3>1
  <2> QED
    BY <1>2, <1>5, <2>1
<1>7. [i \in DOMAIN ls |-> IF batchType = "tokens" THEN ls[i] ELSE 1] = inc
  BY <1>6 DEF Increment
<1>8. Cost(ls) = IF considerPadding THEN m * Max(Range(inc)) ELSE SumFunction(inc)
  <2> HIDE DEF inc
  <2> QED
    BY <1>6, <1>7, Zenon DEF Cost
<1>9. CASE considerPadding
  <2>1. Range(inc) = {Increment(rest[i], batchType) : i \in 1 .. m}
    BY DEF Range
  <2>2. FixedSize(rest, m - 1, batchType) = m * Max(Range(inc))
    <3> HIDE DEF inc
    <3> QED
      BY <1>2, <2>1 DEF FixedSize, MaxIncrement
  <2>3. Max(Range(inc)) \in Nat
    <3>1. PICK T : T = Range(inc)
      OBVIOUS
    <3>2. T = {inc[i] : i \in 1 .. m}
      BY <3>1 DEF Range
    <3>3. \E x \in T : \A y \in T : x >= y
      <4> HIDE DEF inc
      <4>1. PICK i \in 1 .. m : \A j \in 1 .. m : inc[i] >= inc[j]
        BY <1>2, <1>4, GreatestOfSome
      <4> QED
        BY <3>2, <4>1
    <3>4. Max(T) \in T
      BY <3>3, Zenon DEF Max
    <3>5. \A y \in T : y \in Nat
      <4> HIDE DEF inc
      <4> QED
        BY <1>4, <3>2
    <3> QED
      BY <3>1, <3>4, <3>5
  <2>4. Cost(ls) \in Nat /\ Cost(ls) = FixedSize(rest, m - 1, batchType)
    <3>1. PICK x : x = Max(Range(inc))
      OBVIOUS
    <3>2. m * x \in Nat
      BY <1>2, <2>3, <3>1
    <3> QED
      BY <1>8, <1>9, <2>2, <3>1, <3>2, Zenon
  <2> QED
    BY <1>3, <1>5, <1>9, <2>4 DEF rest
<1>10. CASE ~considerPadding
  <2>1. /\ TotalIncrement(rest, m, batchType) \in Nat
        /\ SumFunction(inc) = TotalIncrement(rest, m, batchType)
    <3>1. \A i \in 1 .. m : inc[i] = Increment(rest[i], batchType)
      OBVIOUS
    <3>2. m \in 0 .. Len(rest)
      BY <1>2
    <3> HIDE DEF inc
    <3> QED
      BY <1>1, <1>4, <3>1, <3>2, TotalIsTheSum
  <2>2. VariableSize(rest, m - 1, batchType) = TotalIncrement(rest, m, batchType)
    BY <1>2 DEF VariableSize
  <2>3. Cost(ls) \in Nat /\ Cost(ls) = VariableSize(rest, m - 1, batchType)
    BY <1>8, <1>10, <2>1, <2>2, Zenon
  <2> QED
    BY <1>3, <1>5, <1>10, <2>3 DEF rest
<1> QED
  BY <1>9, <1>10

(* Fill takes a row at least, and no more than there are; it stops at the  *)
(* last one or when the next one would exceed the maximum, and not before. *)
LEMMA FillStops ==
  ASSUME ReaderTypeOK, NEW first \in 1 .. Rows
  PROVE  LET n == Filled(first)
         IN  /\ n \in 1 .. Rows - first + 1
             /\ n = 1 \/ Cost(Lengths(Interval(first, n))) <= maxBatchSize
             /\ n < Rows - first + 1 => Cost(Lengths(Interval(first, n + 1))) > maxBatchSize
<1> DEFINE rest == RowsFrom(first)
           n == Filled(first)
           C(m) == Cost(Lengths(Interval(first, m)))
           Size(k) == IF considerPadding THEN FixedSize(rest, k, batchType)
                      ELSE VariableSize(rest, k, batchType)
<1>1. /\ stream \in Seq(Nat) /\ second \in Nat /\ maxBatchSize \in Nat
      /\ Rows \in Nat /\ rest \in Seq(Nat) /\ Len(rest) = Rows - first + 1
  BY RowsAreExamples DEF ReaderTypeOK
<1>2. ASSUME NEW m \in 1 .. Rows - first + 1 PROVE C(m) \in Nat /\ C(m) = Size(m - 1)
  <2> HIDE DEF rest
  <2>1. /\ C(m) \in Nat
        /\ considerPadding => C(m) = FixedSize(RowsFrom(first), m - 1, batchType)
        /\ ~considerPadding => C(m) = VariableSize(RowsFrom(first), m - 1, batchType)
    BY <1>1, SizeIsTheCost
  <2> HIDE DEF C
  <2> QED
    BY <2>1, Zenon DEF rest
<1>3. rest # <<>>
  BY <1>1
<1> HIDE DEF rest
<1>4. /\ n \in 0 .. Len(rest) /\ n > 0
      /\ n = Len(rest) \/ Size(n) > maxBatchSize
      /\ \A k \in 1 .. n - 1 : ~(Size(k) > maxBatchSize)
  <2>1. CASE considerPadding
    <3>1. /\ n = FillWithFixedIncrement(rest, maxBatchSize, batchType)
          /\ \A k : Size(k) = FixedSize(rest, k, batchType)
      BY <2>1 DEF Filled, Fill, rest
    <3> HIDE DEF n, Size
    <3> QED
      BY <1>1, <1>3, <3>1, FixedIncrementStops
  <2>2. CASE ~considerPadding
    <3>1. /\ n = FillWithVariableIncrement(rest, maxBatchSize, batchType)
          /\ \A k : Size(k) = VariableSize(rest, k, batchType)
      BY <2>2 DEF Filled, Fill, rest
    <3> HIDE DEF n, Size
    <3> QED
      BY <1>1, <1>3, <3>1, VariableIncrementStops
  <2> QED
    BY <2>1, <2>2
<1> HIDE DEF n, C, Size
<1>5. n \in 1 .. Rows - first + 1
  BY <1>1, <1>4
<1>6. n = 1 \/ C(n) <= maxBatchSize
  <2>1. n # 1 => n - 1 \in 1 .. n - 1
    BY <1>5
  <2>2. n # 1 => ~(C(n) > maxBatchSize)
    BY <1>2, <1>4, <1>5, <2>1
  <2> QED
    BY <1>1, <1>2, <1>5, <2>2
<1>7. n < Rows - first + 1 => C(n + 1) > maxBatchSize
  <2>1. n < Rows - first + 1 =>
          n + 1 \in 1 .. Rows - first + 1 /\ n # Len(rest) /\ (n + 1) - 1 = n
    BY <1>1, <1>5
  <2> QED
    BY <1>2, <1>4, <2>1
<1> QED
  BY <1>5, <1>6, <1>7 DEF n, C, rest

LEMMA InitReaderInv == ReaderInit => ReaderInv
<1> SUFFICES ASSUME ReaderInit PROVE ReaderInv
  OBVIOUS
<1>1. stream \in Seq(Nat)
  <2>1. MaxExamples \in Nat /\ MaxLength \in Nat
    BY BatchReaderAssumption
  <2>2. PICK m \in 0 .. MaxExamples : stream \in [1 .. m -> 0 .. MaxLength]
    BY DEF ReaderInit, BoundedSeq, SeqOf
  <2>3. m \in Nat /\ stream \in [1 .. m -> Nat]
    BY <2>1, <2>2
  <2> QED
    BY <2>3
<1>2. second \in Nat /\ maxBatchSize \in Nat /\ returned = <<>> /\ nextExample = 0
  BY BatchReaderAssumption DEF ReaderInit
<1>3. 0 \in 0 .. Rows
  BY <1>1, <1>2 DEF Rows
<1> QED
  BY <1>1, <1>2, <1>3 DEF ReaderInv, ReaderTypeOK, BatchesAreFilled

LEMMA NextReaderInv == ASSUME ReaderInv, [ReaderNext]_readerVars PROVE ReaderInv'
<1>1. CASE UNCHANGED readerVars
  BY <1>1 DEF ReaderInv, ReaderTypeOK, BatchesAreFilled, readerVars, Rows, RowsFrom, Filled
<1>2. CASE ReaderEnded
  BY <1>2 DEF ReaderEnded, ReaderInv, ReaderTypeOK, BatchesAreFilled, readerVars, Rows, RowsFrom,
                   Filled
<1>3. CASE GetNext
  <2>1. /\ stream \in Seq(Nat) /\ second \in Nat /\ maxBatchSize \in Nat
        /\ nextExample \in 0 .. Rows
        /\ returned \in Seq(Seq(Nat)) /\ BatchesAreFilled /\ Rows \in Nat
    BY DEF ReaderInv, ReaderTypeOK, Rows
  <2>2. UNCHANGED <<stream, second, maxBatchSize, batchType, considerPadding>>
    BY <1>3 DEF GetNext
  <2>3. Rows' = Rows /\ \A first : RowsFrom(first)' = RowsFrom(first) /\ Filled(first)' = Filled(first)
    BY <2>2 DEF Rows, RowsFrom, Filled
  <2>4. ASSUME returned' = returned, nextExample' \in 0 .. Rows PROVE ReaderInv'
    BY <2>1, <2>2, <2>3, <2>4 DEF ReaderInv, ReaderTypeOK, BatchesAreFilled
  <2>5. CASE ~initialized /\ ThrowsAfter(0)
    BY <1>3, <2>1, <2>4, <2>5 DEF GetNext, ReaderFails
  <2>6. CASE ~(~initialized /\ ThrowsAfter(0))
    <3>1. PICK first : first = IF initialized THEN nextExample ELSE RowAfter(0)
      OBVIOUS
    <3>2. first \in 0 .. Rows
      BY <2>1, <3>1 DEF RowAfter
    <3>3. PICK n : n = Filled(first)
      OBVIOUS
    <3>4. \/ nextExample' = 0 /\ returned' = returned
          \/ /\ first # 0
             /\ returned' = Append(returned, Interval(first, n))
             /\ nextExample' = RowAfter(first + n - 1)
      BY <1>3, <2>6, <3>1, <3>3, Zenon DEF GetNext, ReaderFails, RowsFrom, Filled, Interval
    <3>5. CASE nextExample' = 0 /\ returned' = returned
      BY <2>1, <2>4, <3>5
    <3>6. CASE /\ first # 0
               /\ returned' = Append(returned, Interval(first, n))
               /\ nextExample' = RowAfter(first + n - 1)
      <4>1. first \in 1 .. Rows
        BY <2>1, <3>2, <3>6
      <4>2. n \in 1 .. Rows - first + 1
        BY <3>3, <4>1, FillStops DEF ReaderInv
      <4>3. nextExample' \in 0 .. Rows
        BY <2>1, <3>6, <4>1, <4>2 DEF RowAfter
      <4>4. PICK batch : batch = Interval(first, n)
        OBVIOUS
      <4>5. batch \in Seq(Nat)
        <5>1. \A i \in 1 .. n : first + i - 1 \in Nat
          BY <4>1, <4>2, <2>1
        <5>2. n \in Nat
          BY <2>1, <4>2
        <5> QED
          BY <4>4, <5>1, <5>2 DEF Interval
      <4>6. PICK S : S = Seq(Nat)
        OBVIOUS
      <4>7. returned \in Seq(S) /\ batch \in S /\ returned' = Append(returned, batch)
        BY <2>1, <3>6, <4>4, <4>5, <4>6
      <4>8. /\ returned' \in Seq(S) /\ Len(returned') = Len(returned) + 1 /\ Len(returned) \in Nat
            /\ returned'[Len(returned) + 1] = batch
            /\ \A b \in 1 .. Len(returned) : returned'[b] = returned[b]
        BY ONLY <4>7
      <4>9. BatchesAreFilled'
        <5> SUFFICES ASSUME NEW b \in 1 .. Len(returned')
                     PROVE  \E f \in 1 .. Rows :
                       returned'[b] = Interval(f, Filled(f))
          BY <2>2, <2>3 DEF BatchesAreFilled, Interval
        <5>1. CASE b \in 1 .. Len(returned)
          BY <2>1, <4>8, <5>1 DEF BatchesAreFilled
        <5>2. CASE b = Len(returned) + 1
          BY <3>3, <4>1, <4>4, <4>8, <5>2
        <5> QED
          BY <4>8, <5>1, <5>2
      <4> QED
        BY <2>1, <2>2, <2>3, <4>3, <4>6, <4>8, <4>9 DEF ReaderInv, ReaderTypeOK
    <3> QED
      BY <3>4, <3>5, <3>6
  <2> QED
    BY <2>5, <2>6
<1> QED
  BY <1>1, <1>2, <1>3 DEF ReaderNext

(* A batch that get_next returns respects max_batch_size unless it is a    *)
(* single example, and it was not closed while the next one would still    *)
(* have fitted: for examples of any number and length, both kinds of batch *)
(* and with or without padding.                                            *)
THEOREM BatchesAreFull == ReaderSpec => []BatchesAreTight
<1>1. ASSUME ReaderInv PROVE BatchesAreTight
  <2> SUFFICES ASSUME NEW b \in DOMAIN returned
               PROVE  LET batch == returned[b]
                          after == Last(batch) + 1
                      IN  /\ Len(batch) = 1 \/ Cost(Lengths(batch)) <= maxBatchSize
                          /\ after <= Rows => Cost(Lengths(Append(batch, after))) > maxBatchSize
    BY DEF BatchesAreTight
  <2>1. returned \in Seq(Seq(Nat)) /\ Rows \in Nat
    BY <1>1 DEF ReaderInv, ReaderTypeOK, Rows
  <2>2. b \in 1 .. Len(returned)
    BY <2>1
  <2>3. PICK first \in 1 .. Rows :
          returned[b] = Interval(first, Filled(first))
    BY <1>1, <2>2 DEF ReaderInv, BatchesAreFilled
  <2>4. PICK n : n = Filled(first)
    OBVIOUS
  <2>5. /\ n \in 1 .. Rows - first + 1
        /\ n = 1 \/ Cost(Lengths(Interval(first, n))) <= maxBatchSize
        /\ n < Rows - first + 1 => Cost(Lengths(Interval(first, n + 1))) > maxBatchSize
    BY <1>1, <2>4, FillStops DEF ReaderInv
  <2>6. PICK batch : batch = returned[b]
    OBVIOUS
  <2>7. /\ batch = Interval(first, n) /\ batch \in Seq(Nat) /\ n \in Nat
        /\ Len(batch) = n /\ batch[n] = first + n - 1
    <3>1. batch = [i \in 1 .. n |-> first + i - 1] /\ n \in Nat
      BY <2>1, <2>3, <2>4, <2>5, <2>6 DEF Interval
    <3>2. batch \in Seq(Nat)
      BY <2>1, <2>2, <2>6, ElementOfSeq
    <3> QED
      BY <2>5, <3>1, <3>2 DEF Interval
  <2>8. Last(batch) + 1 = first + n
    BY <2>7, <2>5 DEF Last
  <2>9. Append(batch, first + n) = Interval(first, n + 1)
    BY <2>7, <2>5 DEF Interval
  <2>10. first + n <= Rows => n < Rows - first + 1
    BY <2>1, <2>5
  <2> QED
    BY <2>5, <2>6, <2>7, <2>8, <2>9, <2>10, Zenon
<1>2. ReaderInit => ReaderInv
  BY InitReaderInv
<1>3. ReaderInv /\ [ReaderNext]_readerVars => ReaderInv'
  BY NextReaderInv
<1> QED
  BY <1>1, <1>2, <1>3, PTL DEF ReaderSpec
=============================================================================
