--------------------------- MODULE BeamSearch_proofs ---------------------------
(***************************************************************************)
(* Theorems about BeamSearch, and about the beam search that Alternatives  *)
(* runs, for any number of sentences and beams, any vocabulary and any     *)
(* decoder: what the decoder has seen, the tokens and the scores stay      *)
(* together through every step, to stop early loses no hypothesis that is  *)
(* better than the first one, every sentence gets its hypotheses, no two   *)
(* the same, and these end where they should.                              *)
(***************************************************************************)
EXTENDS Alternatives, Decoding_proofs, SequenceTheorems

-----------------------------------------------------------------------------
(* Rows.                                                                   *)

(* A row is known by its sentence and its beam, n for each sentence.       *)
LEMMA RowsFlat ==
  ASSUME NEW n \in Nat \ {0}, NEW i \in Nat \ {0}, NEW k \in 1 .. n
  PROVE  /\ (i - 1) * n + k \in Nat \ {0}
         /\ ((((i - 1) * n + k) - 1) \div n) + 1 = i
         /\ ((((i - 1) * n + k) - 1) % n) + 1 = k
<1>1. PICK q \in Nat : q = i - 1
  OBVIOUS
<1>2. PICK j \in 0 .. n - 1 : j = k - 1
  OBVIOUS
<1>3. q * n \in Nat
  OBVIOUS
<1>4. (q * n + j) \div n = q /\ (q * n + j) % n = j
  OBVIOUS
<1>5. (i - 1) * n + k \in Nat \ {0} /\ ((i - 1) * n + k) - 1 = q * n + j
  BY <1>1, <1>2, <1>3
<1> QED
  BY <1>1, <1>2, <1>4, <1>5

LEMMA RowsFit ==
  ASSUME NEW n \in Nat \ {0}, NEW l \in Nat, NEW i \in 1 .. l, NEW k \in 1 .. n
  PROVE  (i - 1) * n + k \in 1 .. n * l
<1>1. PICK d \in Nat : l = i + d
  <2>1. l - i \in Nat /\ l = i + (l - i)
    OBVIOUS
  <2> QED
    BY <2>1
<1>2. PICK q \in Nat : i = q + 1
  <2>1. i - 1 \in Nat /\ i = (i - 1) + 1
    OBVIOUS
  <2> QED
    BY <2>1
<1>3. n * l = q * n + n + n * d
  BY <1>1, <1>2
<1>4. q * n \in Nat /\ n * d \in Nat
  OBVIOUS
<1> QED
  BY <1>2, <1>3, <1>4

LEMMA RowsSplit ==
  ASSUME NEW n \in Nat \ {0}, NEW l \in Nat, NEW r \in 1 .. n * l
  PROVE  /\ ((r - 1) \div n) + 1 \in 1 .. l
         /\ ((r - 1) % n) + 1 \in 1 .. n
         /\ r = (((r - 1) \div n) + 1 - 1) * n + ((r - 1) % n) + 1
<1>1. PICK a \in Nat : a = r - 1
  OBVIOUS
<1>2. PICK q \in Nat, m \in 0 .. n - 1 : a \div n = q /\ a % n = m /\ a = n * q + m
  <2>1. a = n * (a \div n) + (a % n) /\ a % n \in 0 .. n - 1 /\ a \div n \in Nat
    OBVIOUS
  <2> QED
    BY <2>1
<1>3. q < l
  <2> SUFFICES ASSUME l <= q PROVE FALSE
    OBVIOUS
  <2>1. PICK d \in Nat : q = l + d
    <3>1. q - l \in Nat /\ q = l + (q - l)
      OBVIOUS
    <3> QED
      BY <3>1
  <2>2. n * q = n * l + n * d /\ n * d \in Nat
    BY <2>1
  <2>3. n * l \in Nat /\ n * q \in Nat
    OBVIOUS
  <2> QED
    BY <1>1, <1>2, <2>2, <2>3
<1>4. n * q = q * n
  OBVIOUS
<1> QED
  BY <1>1, <1>2, <1>3, <1>4

-----------------------------------------------------------------------------
(* The score of a text.                                                    *)

IsSum(f, l, forced, w) == f = [n \in 0 .. l |-> IF n <= forced THEN 0 ELSE f[n - 1] + w[n]]

LEMMA SumExists ==
  ASSUME NEW l \in Nat, NEW forced \in Nat, NEW w
  PROVE  \E f : IsSum(f, l, forced, w)
<1> DEFINE E == {m \in 0 .. l : \E f : IsSum(f, m, forced, w)}
<1>1. 0 \in E
  <2> DEFINE f == [n \in 0 .. 0 |-> 0]
  <2>1. f = [n \in 0 .. 0 |-> IF n <= forced THEN 0 ELSE f[n - 1] + w[n]]
    OBVIOUS
  <2>2. IsSum(f, 0, forced, w)
    BY <2>1 DEF IsSum
  <2> QED
    BY <2>2
<1>2. ASSUME NEW m \in 0 .. l - 1, m \in E PROVE m + 1 \in E
  <2>1. PICK f : IsSum(f, m, forced, w)
    BY <1>2
  <2>2. f = [n \in 0 .. m |-> IF n <= forced THEN 0 ELSE f[n - 1] + w[n]]
    BY <2>1 DEF IsSum
  <2> DEFINE Item(h, n) == IF n <= forced THEN 0 ELSE h[n - 1] + w[n]
             g == [n \in 0 .. m + 1 |-> IF n = m + 1 THEN Item(f, m + 1) ELSE f[n]]
  <2>3. ASSUME NEW n \in 0 .. m + 1 PROVE g[n] = Item(g, n)
    <3>1. CASE n = m + 1
      BY <3>1
    <3>2. CASE n # m + 1
      <4>1. n \in 0 .. m /\ g[n] = f[n]
        BY <3>2
      <4>2. n > forced => g[n - 1] = f[n - 1]
        BY <4>1
      <4>3. f[n] = Item(f, n)
        BY <2>2, <4>1
      <4> QED
        BY <4>1, <4>2, <4>3
    <3> QED
      BY <3>1, <3>2
  <2>4. g = [n \in 0 .. m + 1 |-> Item(g, n)]
    BY <2>3
  <2>5. IsSum(g, m + 1, forced, w)
    BY <2>4 DEF IsSum
  <2>6. m + 1 \in 0 .. l
    OBVIOUS
  <2> HIDE DEF g
  <2> QED
    BY <2>5, <2>6
<1>3. l \in E
  <2> HIDE DEF E
  <2>1. \A m \in 0 .. l : m \in E
    BY <1>1, <1>2, Induction
  <2> QED
    BY <2>1
<1> QED
  BY <1>3

(* The sums of a text and of a longer one are the same as far as both go.  *)
LEMMA SumsAgree ==
  ASSUME NEW l \in Nat, NEW k \in Nat, l <= k, NEW forced \in Nat,
         NEW w, NEW v, NEW f, NEW g, IsSum(f, l, forced, w), IsSum(g, k, forced, v),
         \A n \in 1 .. l : w[n] = v[n]
  PROVE  f[l] = g[l]
<1> DEFINE E == {m \in 0 .. l : f[m] = g[m]}
<1>1. \A m \in 0 .. l : f[m] = IF m <= forced THEN 0 ELSE f[m - 1] + w[m]
  BY DEF IsSum
<1>2. \A m \in 0 .. l : g[m] = IF m <= forced THEN 0 ELSE g[m - 1] + v[m]
  BY DEF IsSum
<1>3. 0 \in E
  BY <1>1, <1>2
<1>4. ASSUME NEW m \in 0 .. l - 1, m \in E PROVE m + 1 \in E
  <2>1. m + 1 \in 0 .. l /\ (m + 1) - 1 = m /\ w[m + 1] = v[m + 1]
    OBVIOUS
  <2> QED
    BY <1>1, <1>2, <1>4, <2>1
<1> HIDE DEF E
<1>5. \A m \in 0 .. l : m \in E
  BY <1>3, <1>4, Induction
<1> QED
  BY <1>5 DEF E

(* The log probabilities along a text.                                     *)
Costs(m, start, tokens) ==
  LET seen == <<start>> \o tokens
  IN  [n \in 1 .. Len(tokens) |-> m[seen[n]][seen[n + 1]]]

LEMMA TextScoreIsSum ==
  ASSUME NEW m, NEW start, NEW forced \in Nat, NEW tokens \in Seq(Tokens)
  PROVE  \E f : /\ IsSum(f, Len(tokens), forced, Costs(m, start, tokens))
                /\ TextScore(m, start, forced, tokens) = f[Len(tokens)]
<1> DEFINE seen == <<start>> \o tokens
           w == Costs(m, start, tokens)
           L == Len(tokens)
           Sum == CHOOSE Sum : Sum = [n \in 0 .. Len(tokens) |->
                    IF n <= forced THEN 0 ELSE Sum[n - 1] + m[seen[n]][seen[n + 1]]]
<1>1. L \in Nat
  OBVIOUS
<1>2. \A f : [n \in 0 .. L |-> IF n <= forced THEN 0 ELSE f[n - 1] + m[seen[n]][seen[n + 1]]]
           = [n \in 0 .. L |-> IF n <= forced THEN 0 ELSE f[n - 1] + w[n]]
  <2>1. \A n \in 1 .. L : w[n] = m[seen[n]][seen[n + 1]]
    BY DEF Costs
  <2>2. \A n \in 0 .. L : ~(n <= forced) => n \in 1 .. L
    BY <1>1
  <2> HIDE DEF w, seen, L
  <2> QED
    BY <2>1, <2>2
<1>3. \E f : IsSum(f, L, forced, w)
  BY <1>1, SumExists
<1>4. \E f : f = [n \in 0 .. L |-> IF n <= forced THEN 0 ELSE f[n - 1] + m[seen[n]][seen[n + 1]]]
  <2>1. PICK f : f = [n \in 0 .. L |-> IF n <= forced THEN 0 ELSE f[n - 1] + w[n]]
    BY <1>3, Zenon DEF IsSum
  <2> HIDE DEF w, seen, L
  <2>2. f = [n \in 0 .. L |-> IF n <= forced THEN 0 ELSE f[n - 1] + m[seen[n]][seen[n + 1]]]
    BY <1>2, <2>1, Zenon
  <2> QED
    BY <2>2, Zenon
<1>5. Sum = [n \in 0 .. L |-> IF n <= forced THEN 0 ELSE Sum[n - 1] + m[seen[n]][seen[n + 1]]]
  BY <1>4, Zenon
<1>6. IsSum(Sum, L, forced, w)
  BY <1>2, <1>5, Zenon DEF IsSum
<1>7. TextScore(m, start, forced, tokens) = Sum[L]
  BY DEF TextScore
<1> QED
  BY <1>6, <1>7

(* A token adds its log probability, if it is not forced.                  *)
LEMMA TextScoreOfForced ==
  ASSUME NEW m, NEW start, NEW forced \in Nat, NEW tokens \in Seq(Tokens), Len(tokens) <= forced
  PROVE  TextScore(m, start, forced, tokens) = 0
<1>1. PICK f : /\ IsSum(f, Len(tokens), forced, Costs(m, start, tokens))
               /\ TextScore(m, start, forced, tokens) = f[Len(tokens)]
  BY TextScoreIsSum
<1> QED
  BY <1>1 DEF IsSum

LEMMA TextScoreOfNext ==
  ASSUME NEW m, NEW start \in Tokens, NEW forced \in Nat, NEW tokens \in Seq(Tokens),
         NEW t \in Tokens, Len(tokens) >= forced
  PROVE  TextScore(m, start, forced, Append(tokens, t))
           = TextScore(m, start, forced, tokens) + m[Last(<<start>> \o tokens)][t]
<1> DEFINE L == Len(tokens)
           more == Append(tokens, t)
           w == Costs(m, start, tokens)
           v == Costs(m, start, more)
<1>1. L \in Nat /\ more \in Seq(Tokens) /\ Len(more) = L + 1
  OBVIOUS
<1>2. PICK f : IsSum(f, L, forced, w) /\ TextScore(m, start, forced, tokens) = f[L]
  BY TextScoreIsSum
<1>3. PICK g : IsSum(g, L + 1, forced, v) /\ TextScore(m, start, forced, more) = g[L + 1]
  <2> HIDE DEF more, L
  <2> QED
    BY <1>1, TextScoreIsSum
<1>4. \A n \in 1 .. L : w[n] = v[n]
  BY DEF Costs
<1>5. f[L] = g[L]
  <2>1. L + 1 \in Nat /\ L <= L + 1
    BY <1>1
  <2>2. \A n \in 1 .. L : w[n] = v[n]
    BY <1>4
  <2> HIDE DEF w, v, L
  <2>3. IsSum(f, L, forced, w)
    BY <1>2
  <2>4. IsSum(g, L + 1, forced, v)
    BY <1>3
  <2>5. L \in Nat /\ forced \in Nat
    BY <1>1
  <2> QED
    BY <2>1, <2>2, <2>3, <2>4, <2>5, SumsAgree
<1>6. g[L + 1] = g[L] + v[L + 1]
  BY <1>1, <1>3 DEF IsSum
<1>7. v[L + 1] = m[Last(<<start>> \o tokens)][t]
  BY DEF Costs, Last
<1> QED
  BY <1>2, <1>3, <1>5, <1>6, <1>7

-----------------------------------------------------------------------------
(* The state of a search that goes on.                                     *)

PerSentence == IF IsExpanded THEN BeamSize ELSE 1
RowNumbers == 1 .. PerSentence * Len(batchOffset)
Position(r) == ((r - 1) \div PerSentence) + 1
SentenceAt(r) == batchOffset[Position(r)]

(* What the decoder of a row has seen once it is fed its next token.       *)
Seen(o, b, tokens) == o.forwarded[b] \o (<<o.startIds[b]>> \o tokens)

Shape ==
  /\ IsSearch(options)
  /\ model \in Models /\ Batch \subseteq DOMAIN model
  /\ step \in Nat
  /\ batchOffset \in Seq(Batch)
  /\ memory = batchOffset
  /\ topkIds \in [RowNumbers -> Tokens]
  /\ topkScores \in [RowNumbers -> Int]
  /\ aliveSeq \in [RowNumbers -> Seq(Tokens)]
  /\ cache \in [RowNumbers -> [batch : Batch, tokens : Seq(Tokens)]]

(* Each row is fed the last token of its text, every text has a token for  *)
(* each step, and the decoder has seen the tokens before.                  *)
RowsFollow ==
  \A r \in RowNumbers :
    /\ Len(aliveSeq[r]) = step
    /\ topkIds[r] = Last(<<options.startIds[SentenceAt(r)]>> \o aliveSeq[r])
    /\ cache[r].batch = SentenceAt(r)
    /\ Append(cache[r].tokens, topkIds[r]) = Seen(options, SentenceAt(r), aliveSeq[r])

ScoresFollow ==
  \A r \in RowNumbers :
    topkScores[r] > Penalised => topkScores[r] = ModelScore(SentenceAt(r), aliveSeq[r])

(* No sentence outlives its last step.                                     *)
StepsAreLeft ==
  \A i \in Positions :
    step < options.maxLength + (IF options.returnPrefix THEN 0 ELSE PrefixLength(i))

GoesOn == Shape /\ RowsFollow /\ ScoresFollow /\ StepsAreLeft

IInv == IF searching THEN GoesOn ELSE StateFollowsSequences

-----------------------------------------------------------------------------
(* The candidates of a step.                                               *)

LEMMA Sizes ==
  /\ BeamSize \in Nat \ {0} /\ VocabularySize \in Nat \ {0, 1} /\ BeamSize < VocabularySize
  /\ NumCandidates \in Nat /\ NumCandidates = 2 * BeamSize
  /\ 0 \in Tokens /\ Tokens \subseteq Nat
  /\ Penalised \in Int /\ Lowest \in Int /\ Lowest < Penalised /\ Penalised < 0
BY BeamSearchAssumption DEF NumCandidates, Tokens, Penalised, Lowest

LEMMA RowsOfShape ==
  ASSUME Shape
  PROVE  /\ PerSentence \in Nat \ {0}
         /\ Len(batchOffset) \in Nat
         /\ RowBeams = 1 .. PerSentence
         /\ 1 \in RowBeams
         /\ \A i \in Positions, k \in RowBeams :
              Row(i, k) \in RowNumbers /\ Position(Row(i, k)) = i
         /\ \A r \in RowNumbers : Position(r) \in Positions
<1>1. PerSentence \in Nat \ {0} /\ RowBeams = 1 .. PerSentence
  <2>1. CASE IsExpanded
    BY <2>1, Sizes DEF PerSentence, RowBeams, Beams
  <2>2. CASE ~IsExpanded
    <3>1. PerSentence = 1 /\ RowBeams = {1}
      BY <2>2 DEF PerSentence, RowBeams
    <3>2. {1} = 1 .. 1
      OBVIOUS
    <3> QED
      BY <3>1, <3>2
  <2> QED
    BY <2>1, <2>2
<1>2. Len(batchOffset) \in Nat
  BY DEF Shape
<1>3. ASSUME NEW i \in Positions, NEW k \in RowBeams
      PROVE  Row(i, k) \in RowNumbers /\ Position(Row(i, k)) = i
  <2>1. Row(i, k) = (i - 1) * PerSentence + k
    <3>1. CASE IsExpanded
      BY <3>1 DEF Row, PerSentence
    <3>2. CASE ~IsExpanded
      BY <1>1, <1>2, <3>2 DEF Row, PerSentence, Positions
    <3> QED
      BY <3>1, <3>2
  <2>2. PICK n \in Nat \ {0} : n = PerSentence
    BY <1>1
  <2>3. i \in Nat \ {0} /\ i \in 1 .. Len(batchOffset) /\ k \in 1 .. n
    BY <1>1, <1>2, <2>2 DEF Positions
  <2>4. (i - 1) * n + k \in 1 .. n * Len(batchOffset)
    BY <1>2, <2>3, RowsFit
  <2>5. Row(i, k) = (i - 1) * n + k
    BY <2>1, <2>2
  <2>6. RowNumbers = 1 .. n * Len(batchOffset)
    BY <2>2 DEF RowNumbers
  <2>7. ((Row(i, k) - 1) \div n) + 1 = i
    <3>1. ((((i - 1) * n + k) - 1) \div n) + 1 = i
      BY <2>3, RowsFlat
    <3> QED
      BY <2>5, <3>1, Zenon
  <2>8. Position(Row(i, k)) = ((Row(i, k) - 1) \div n) + 1
    BY <2>2 DEF Position
  <2>9. Row(i, k) \in RowNumbers
    BY <2>4, <2>5, <2>6, Zenon
  <2> QED
    BY <2>7, <2>8, <2>9, Zenon
<1>4. ASSUME NEW r \in RowNumbers PROVE Position(r) \in Positions
  <2>1. PICK n \in Nat \ {0} : n = PerSentence
    BY <1>1
  <2> QED
    BY <1>2, <2>1, RowsSplit DEF RowNumbers, Position, Positions
<1> QED
  BY <1>1, <1>2, <1>3, <1>4

(* A score that does not stem from a penalty is the sum.                   *)
LEMMA PlusFollows ==
  ASSUME NEW a \in Int, NEW b \in Int
  PROVE  /\ Plus(a, b) \in Int
         /\ Plus(a, b) > Penalised => a > Penalised /\ b > Penalised /\ Plus(a, b) = a + b
BY Sizes DEF Plus

LEMMA ScoreFollows ==
  ASSUME Shape, NEW i \in Positions, NEW k \in RowBeams, NEW t \in Tokens
  PROVE  LET r == Row(i, k)
         IN  /\ Score(i, k, t) \in Int
             /\ Score(i, k, t) > Penalised =>
                  /\ topkScores[r] > Penalised
                  /\ Score(i, k, t) = topkScores[r] + model[memory[i]][topkIds[r]][t]
<1> DEFINE r == Row(i, k)
           logProb == IF r \in MinLengthRows /\ t \in options.endIds
                        THEN Lowest ELSE model[memory[i]][topkIds[r]][t]
<1>1. r \in RowNumbers
  BY RowsOfShape
<1>2. topkScores[r] \in Int /\ topkIds[r] \in Tokens
  BY <1>1 DEF Shape
<1>3. memory[i] \in DOMAIN model
  BY DEF Shape, Positions
<1>4. model[memory[i]][topkIds[r]][t] \in Int
  BY <1>2, <1>3, BeamSearchAssumption DEF Shape
<1>5. logProb \in Int /\ (logProb > Penalised => logProb = model[memory[i]][topkIds[r]][t])
  BY <1>4, Sizes
<1>6. Score(i, k, t) = Plus(topkScores[r], logProb)
  BY DEF Score
<1> HIDE DEF logProb, r
<1> QED
  BY <1>2, <1>5, <1>6, PlusFollows DEF r

(* The cells are as many as the scores of a sentence, and their order is   *)
(* total: the sampler finds its candidates.                                *)
CellAt(i, n) ==
  LET k == ((n - 1) \div VocabularySize) + 1
      t == (n - 1) % VocabularySize
  IN  [beam |-> k, id |-> t, score |-> Score(i, k, t), flat |-> n]

CellNumbers == 1 .. VocabularySize * PerSentence

IsCell(i, c) ==
  /\ c = [beam |-> c.beam, id |-> c.id, score |-> c.score, flat |-> c.flat]
  /\ c.beam \in RowBeams /\ c.id \in Tokens /\ c.flat \in CellNumbers
  /\ c.score = Score(i, c.beam, c.id) /\ c.score \in Int

LEMMA CellsOfShape ==
  ASSUME Shape, NEW i \in Positions
  PROVE  /\ Cells(i) = {CellAt(i, n) : n \in CellNumbers}
         /\ \A n \in CellNumbers : CellAt(i, n).flat = n /\ IsCell(i, CellAt(i, n))
<1>1. PICK v \in Nat \ {0} : v = VocabularySize
  BY Sizes
<1>2. PICK m \in Nat \ {0} : m = PerSentence /\ RowBeams = 1 .. m
  BY RowsOfShape
<1>3. Cardinality(1 .. m) = m
  <2>1. 1 \in Int /\ m \in Int /\ (IF 1 > m THEN 0 ELSE m - 1 + 1) = m
    BY <1>2
  <2> QED
    BY <2>1, FS_Interval
<1>4. CellNumbers = 1 .. v * m /\ 1 .. Cardinality(RowBeams) * VocabularySize = 1 .. v * m
  <2>1. m * v = v * m
    OBVIOUS
  <2> QED
    BY <1>1, <1>2, <1>3, <2>1 DEF CellNumbers
<1>5. Cells(i) = {CellAt(i, n) : n \in CellNumbers}
  BY <1>4, Zenon DEF Cells, CellAt
<1>6. ASSUME NEW n \in CellNumbers
      PROVE  CellAt(i, n).flat = n /\ IsCell(i, CellAt(i, n))
  <2> DEFINE k == ((n - 1) \div VocabularySize) + 1
             t == (n - 1) % VocabularySize
  <2>1. k \in RowBeams
    BY <1>1, <1>2, <1>4, RowsSplit
  <2>2. t \in Tokens
    <3>1. n \in Nat \ {0}
      BY <1>4
    <3> QED
      BY <1>1, <3>1 DEF Tokens
  <2>3. CellAt(i, n) = [beam |-> k, id |-> t, score |-> Score(i, k, t), flat |-> n]
    BY DEF CellAt
  <2> HIDE DEF k, t
  <2>4. Score(i, k, t) \in Int
    BY <2>1, <2>2, ScoreFollows
  <2> QED
    BY <2>1, <2>2, <2>3, <2>4 DEF IsCell
<1> QED
  BY <1>5, <1>6

LEMMA CellsAreMany ==
  ASSUME Shape, NEW i \in Positions
  PROVE  /\ IsFiniteSet(Cells(i))
         /\ Cardinality(Cells(i)) \in Nat
         /\ NumCandidates <= Cardinality(Cells(i))
<1> DEFINE f == [n \in CellNumbers |-> CellAt(i, n)]
           M == VocabularySize * PerSentence
<1>1. PICK v \in Nat \ {0, 1}, m \in Nat \ {0} : v = VocabularySize /\ m = PerSentence
  BY Sizes, RowsOfShape
<1>2. M \in Nat
  BY <1>1
<1>3. IsFiniteSet(CellNumbers) /\ Cardinality(CellNumbers) = M
  <2>1. 1 \in Int /\ M \in Int /\ (IF 1 > M THEN 0 ELSE M - 1 + 1) = M
    BY <1>2
  <2>2. CellNumbers = 1 .. M
    BY DEF CellNumbers
  <2> HIDE DEF M
  <2> QED
    BY <2>1, <2>2, FS_Interval
<1>4. f \in Bijection(CellNumbers, Cells(i))
  <2>1. f \in [CellNumbers -> Cells(i)]
    BY CellsOfShape
  <2>2. \A a, b \in CellNumbers : f[a] = f[b] => a = b
    <3>1. \A a \in CellNumbers : f[a].flat = a
      BY CellsOfShape
    <3> HIDE DEF f
    <3> QED
      BY <3>1
  <2>3. \A c \in Cells(i) : \E n \in CellNumbers : f[n] = c
    BY CellsOfShape
  <2> HIDE DEF f
  <2> QED
    BY <2>1, <2>2, <2>3 DEF Bijection, Injection, IsInjective, Surjection
<1>5. IsFiniteSet(Cells(i)) /\ Cardinality(Cells(i)) = M
  <2> HIDE DEF f, M
  <2>1. ExistsBijection(CellNumbers, Cells(i))
    BY <1>4 DEF ExistsBijection
  <2> QED
    BY <1>3, <2>1, FS_Bijection
<1>6. NumCandidates <= M
  <2>1. CASE IsExpanded
    <3>1. m = BeamSize
      BY <1>1, <2>1 DEF PerSentence
    <3>2. PICK d \in Nat : v = d + 2
      <4>1. v - 2 \in Nat /\ v = (v - 2) + 2
        BY <1>1
      <4> QED
        BY <4>1
    <3>3. v * m = d * m + 2 * m /\ d * m \in Nat
      BY <3>2
    <3> QED
      BY <1>1, <3>1, <3>3, Sizes
  <2>2. CASE ~IsExpanded
    <3>1. m = 1
      BY <1>1, <2>2 DEF PerSentence
    <3>2. NumCandidates <= VocabularySize
      BY <2>2 DEF IsExpanded, Shape, IsSearch
    <3> QED
      BY <1>1, <3>1, <3>2
  <2> QED
    BY <2>1, <2>2
<1> QED
  BY <1>2, <1>5, <1>6

LEMMA BetterIsTotal ==
  ASSUME Shape, NEW i \in Positions
  PROVE  /\ \A x \in Cells(i) : ~IsBetter(x, x)
         /\ \A x, y \in Cells(i) : x # y => IsBetter(x, y) \/ IsBetter(y, x)
         /\ \A x, y, z \in Cells(i) : IsBetter(x, y) /\ IsBetter(y, z) => IsBetter(x, z)
<1>1. \A x \in Cells(i) : x.score \in Int /\ x.flat \in Int
  <2>1. \A x \in Cells(i) : IsCell(i, x)
    BY CellsOfShape
  <2>2. CellNumbers \subseteq Int
    BY DEF CellNumbers
  <2> QED
    BY <2>1, <2>2 DEF IsCell
<1>2. \A x, y \in Cells(i) : x.flat = y.flat => x = y
  <2>1. \A x \in Cells(i) : \E n \in CellNumbers : x = CellAt(i, n) /\ x.flat = n
    BY CellsOfShape
  <2> QED
    BY <2>1
<1>3. options.firstWins \in BOOLEAN
  BY DEF Shape, IsSearch
<1>4. CASE options.firstWins = TRUE
  <2>1. \A x, y \in Cells(i) :
          IsBetter(x, y) <=> \/ x.score > y.score
                             \/ x.score = y.score /\ x # y /\ (x.flat < y.flat) = TRUE
    BY <1>4, Zenon DEF IsBetter
  <2>2. \A a, b \in Int : (a < b) = TRUE <=> a < b
    OBVIOUS
  <2>3. \A x, y \in Cells(i) :
          IsBetter(x, y) <=> \/ x.score > y.score
                             \/ x.score = y.score /\ x # y /\ x.flat < y.flat
    BY <1>1, <2>1, <2>2
  <2> QED
    BY <1>1, <1>2, <2>3
<1>5. CASE options.firstWins = FALSE
  <2>1. \A x, y \in Cells(i) :
          IsBetter(x, y) <=> \/ x.score > y.score
                             \/ x.score = y.score /\ x # y /\ (x.flat < y.flat) = FALSE
    BY <1>5, Zenon DEF IsBetter
  <2>2. \A a, b \in Int : (a < b) = FALSE <=> b <= a
    OBVIOUS
  <2>3. \A x, y \in Cells(i) :
          IsBetter(x, y) <=> \/ x.score > y.score
                             \/ x.score = y.score /\ x # y /\ y.flat <= x.flat
    BY <1>1, <2>1, <2>2
  <2> QED
    BY <1>1, <1>2, <2>3
<1> QED
  BY <1>3, <1>4, <1>5

LEMMA BestCells ==
  ASSUME Shape, NEW i \in Positions
  PROVE  \A n \in 1 .. NumCandidates :
           /\ TopK(i)[n] \in Cells(i) /\ IsCell(i, TopK(i)[n])
           /\ Cardinality({d \in Cells(i) : IsBetter(d, TopK(i)[n])}) = n - 1
<1> DEFINE S == Cells(i)
           before == {p \in S \X S : IsBetter(p[1], p[2])}
           Rank(c) == Cardinality({d \in S : IsBetter(d, c)})
           ranked == {[cell |-> c, rank |-> Rank(c)] : c \in S}
<1>1. \A x, y \in S : <<x, y>> \in before <=> IsBetter(x, y)
  OBVIOUS
<1>2. \A n \in 0 .. Cardinality(S) - 1 : \E c \in S : Rank(c) = n
  <2> HIDE DEF before
  <2>1. \A x \in S : <<x, x>> \notin before
    BY <1>1, BetterIsTotal
  <2>2. \A x, y \in S : x # y => <<x, y>> \in before \/ <<y, x>> \in before
    BY <1>1, BetterIsTotal
  <2>3. \A x, y, z \in S : <<x, y>> \in before /\ <<y, z>> \in before => <<x, z>> \in before
    BY <1>1, BetterIsTotal
  <2>4. IsFiniteSet(S)
    BY CellsAreMany
  <2>5. \A c \in S : Lower(S, before, c) = {d \in S : IsBetter(d, c)}
    BY <1>1 DEF Lower
  <2> HIDE DEF S
  <2>6. \A n \in 0 .. Cardinality(S) - 1 :
          \E c \in S : Cardinality(Lower(S, before, c)) = n
    BY <2>1, <2>2, <2>3, <2>4, Ranks
  <2> QED
    BY <2>5, <2>6
<1>3. ASSUME NEW n \in 1 .. NumCandidates
      PROVE  TopK(i)[n] \in S /\ Rank(TopK(i)[n]) = n - 1
  <2>1. n - 1 \in 0 .. Cardinality(S) - 1
    BY CellsAreMany, Sizes
  <2>2. PICK c \in S : Rank(c) = n - 1
    BY <1>2, <2>1
  <2>3. TopK(i)[n] = (CHOOSE x \in ranked : x.rank = n - 1).cell
    BY DEF TopK
  <2>4. [cell |-> c, rank |-> Rank(c)] \in ranked
    OBVIOUS
  <2>5. ASSUME NEW x \in ranked PROVE x.cell \in S /\ Rank(x.cell) = x.rank
    <3>1. PICK d \in S : x = [cell |-> d, rank |-> Rank(d)]
      OBVIOUS
    <3> HIDE DEF S, Rank
    <3> QED
      BY <3>1
  <2> HIDE DEF ranked, S, Rank
  <2>6. \E x \in ranked : x.rank = n - 1
    BY <2>2, <2>4
  <2>7. PICK x \in ranked : x = (CHOOSE y \in ranked : y.rank = n - 1) /\ x.rank = n - 1
    BY <2>6
  <2> QED
    BY <2>3, <2>5, <2>7
<1>4. \A c \in S : IsCell(i, c)
  BY CellsOfShape
<1> QED
  BY <1>3, <1>4

(* A candidate extends the text of its row by a token, and its score is    *)
(* that of the longer text if it was meant to win.                         *)
IsCandidate(i, c) ==
  /\ c.origin \in RowNumbers /\ Position(c.origin) = i
  /\ c.id \in Tokens /\ c.score \in Int
  /\ c.tokens = Append(aliveSeq[c.origin], c.id)
  /\ c.score > Penalised => c.score = ModelScore(batchOffset[i], c.tokens)

LEMMA ConstrainedFollows ==
  ASSUME Shape, NEW i \in Positions, NEW n \in 1 .. NumCandidates
  PROVE  LET d == Constrained(i, TopK(i)[n], n)
         IN  /\ d.beam \in RowBeams /\ d.id \in Tokens /\ d.score \in Int
             /\ step < PrefixLength(i) => d.score \in {0, Penalised}
             /\ step >= PrefixLength(i) /\ d.score > Penalised =>
                  /\ topkScores[Row(i, d.beam)] > Penalised
                  /\ d.score = topkScores[Row(i, d.beam)]
                                 + model[memory[i]][topkIds[Row(i, d.beam)]][d.id]
<1>1. PICK c : c = TopK(i)[n]
  OBVIOUS
<1>2. IsCell(i, c)
  BY <1>1, BestCells
<1>3. /\ c = [beam |-> c.beam, id |-> c.id, score |-> c.score, flat |-> c.flat]
      /\ c.beam \in RowBeams /\ c.id \in Tokens /\ c.score \in Int
      /\ c.score > Penalised =>
           /\ topkScores[Row(i, c.beam)] > Penalised
           /\ c.score = topkScores[Row(i, c.beam)]
                          + model[memory[i]][topkIds[Row(i, c.beam)]][c.id]
  BY <1>2, ScoreFollows DEF IsCell
<1>4. batchOffset[i] \in Batch /\ Prefix(i) \in Seq(Tokens) /\ step \in Nat
  <2>1. batchOffset[i] \in Batch /\ step \in Nat
    BY DEF Shape, Positions
  <2>2. options.prefixes \in Seq(Seq(Tokens)) /\ batchOffset[i] \in DOMAIN options.prefixes
    BY <2>1 DEF Shape, IsSearch, Batch
  <2>3. \A q \in Seq(Seq(Tokens)) : \A b \in DOMAIN q : q[b] \in Seq(Tokens)
    OBVIOUS
  <2> QED
    BY <2>1, <2>2, <2>3 DEF Prefix
<1>5. PrefixLength(i) \in Nat
  BY <1>4 DEF PrefixLength
<1>6. 1 \in RowBeams /\ 0 \in Tokens /\ Penalised \in Int
  BY RowsOfShape, Sizes
<1>7. CASE ~HasPrefix
  <2>1. Constrained(i, c, n) = c
    BY <1>7 DEF Constrained
  <2>2. Prefix(i) = <<>>
    BY <1>4, <1>7 DEF HasPrefix, Prefix
  <2>3. PrefixLength(i) = 0
    BY <2>2 DEF PrefixLength
  <2> QED
    BY <1>1, <1>3, <1>4, <2>1, <2>3
<1>8. CASE HasPrefix /\ step < PrefixLength(i)
  <2>1. Prefix(i)[step + 1] \in Tokens
    BY <1>4, <1>8 DEF PrefixLength
  <2>2. Constrained(i, c, n) = [beam |-> 1, id |-> Prefix(i)[step + 1],
                                score |-> IF n = 1 THEN 0 ELSE Penalised, flat |-> c.flat]
    <3>1. Constrained(i, c, n) = [c EXCEPT !.beam = 1, !.id = Prefix(i)[step + 1],
                                           !.score = IF n = 1 THEN 0 ELSE Penalised]
      BY <1>8, Zenon DEF Constrained
    <3> QED
      BY <1>3, <3>1
  <2>3. ~(step >= PrefixLength(i))
    BY <1>4, <1>5, <1>8
  <2> QED
    BY <1>1, <1>6, <2>1, <2>2, <2>3
<1>9. CASE HasPrefix /\ ~(step < PrefixLength(i))
  <2>1. CASE step = PrefixLength(i) /\ n > 1 /\ c.id \in options.endIds
    <3>1. Constrained(i, c, n) = [c EXCEPT !.beam = 1, !.id = 0, !.score = Penalised]
      BY <1>9, <2>1, Zenon DEF Constrained
    <3>2. Constrained(i, c, n) = [beam |-> 1, id |-> 0, score |-> Penalised, flat |-> c.flat]
      BY <1>3, <3>1
    <3> QED
      BY <1>1, <1>6, <1>9, <3>2
  <2>2. CASE ~(step = PrefixLength(i) /\ n > 1 /\ c.id \in options.endIds)
    <3>1. Constrained(i, c, n) = c
      BY <1>9, <2>2, Zenon DEF Constrained
    <3> QED
      BY <1>1, <1>3, <1>9, <3>1
  <2> QED
    BY <2>1, <2>2
<1> QED
  BY <1>7, <1>8, <1>9

LEMMA CandidatesFollow ==
  ASSUME Shape, RowsFollow, ScoresFollow, NEW i \in Positions, NEW n \in 1 .. NumCandidates
  PROVE  IsCandidate(i, Candidates(i)[n])
<1> DEFINE d == Constrained(i, TopK(i)[n], n)
           c == Candidates(i)[n]
           r == Row(i, d.beam)
           b == batchOffset[i]
<1>1. c = [origin |-> r, id |-> d.id, score |-> d.score, tokens |-> Append(aliveSeq[r], d.id)]
  BY DEF Candidates
<1>2. /\ d.beam \in RowBeams /\ d.id \in Tokens /\ d.score \in Int
      /\ step < PrefixLength(i) => d.score \in {0, Penalised}
      /\ step >= PrefixLength(i) /\ d.score > Penalised =>
           /\ topkScores[r] > Penalised
           /\ d.score = topkScores[r] + model[memory[i]][topkIds[r]][d.id]
  BY ConstrainedFollows
<1> HIDE DEF d
<1>3. r \in RowNumbers /\ Position(r) = i
  BY <1>2, RowsOfShape
<1> HIDE DEF r
<1>4. aliveSeq[r] \in Seq(Tokens) /\ Len(aliveSeq[r]) = step /\ step \in Nat
  BY <1>3 DEF Shape, RowsFollow
<1>5. b \in Batch /\ memory[i] = b
  BY DEF Shape, Positions
<1>6. PrefixLength(i) \in Nat /\ Len(options.prefixes[b]) = PrefixLength(i)
  BY <1>5 DEF Shape, IsSearch, Batch, PrefixLength, Prefix
<1>7. options.startIds[b] \in Tokens
  BY <1>5 DEF Shape, IsSearch, Batch
<1>8. SentenceAt(r) = b
  BY <1>3 DEF SentenceAt
<1>9. ASSUME d.score > Penalised
      PROVE  d.score = ModelScore(b, Append(aliveSeq[r], d.id))
  <2>1. CASE step < PrefixLength(i)
    <3>1. Append(aliveSeq[r], d.id) \in Seq(Tokens) /\ Len(Append(aliveSeq[r], d.id)) = step + 1
      BY <1>2, <1>4
    <3>2. ModelScore(b, Append(aliveSeq[r], d.id)) = 0
      <4>1. Len(Append(aliveSeq[r], d.id)) <= PrefixLength(i)
        BY <1>4, <1>6, <2>1, <3>1
      <4>2. TextScore(model[b], options.startIds[b], PrefixLength(i),
                      Append(aliveSeq[r], d.id)) = 0
        BY <1>6, <3>1, <4>1, TextScoreOfForced
      <4> QED
        BY <1>6, <4>2, Zenon DEF ModelScore
    <3> QED
      BY <1>2, <1>9, <2>1, <3>2
  <2>2. CASE step >= PrefixLength(i)
    <3>1. /\ topkScores[r] > Penalised
          /\ d.score = topkScores[r] + model[b][topkIds[r]][d.id]
      BY <1>2, <1>5, <1>9, <2>2
    <3>2. topkScores[r] = ModelScore(b, aliveSeq[r])
      BY <1>3, <1>8, <3>1 DEF ScoresFollow
    <3>3. topkIds[r] = Last(<<options.startIds[b]>> \o aliveSeq[r])
      BY <1>3, <1>8 DEF RowsFollow
    <3>4. TextScore(model[b], options.startIds[b], PrefixLength(i), Append(aliveSeq[r], d.id))
            = TextScore(model[b], options.startIds[b], PrefixLength(i), aliveSeq[r])
                + model[b][Last(<<options.startIds[b]>> \o aliveSeq[r])][d.id]
      <4>1. Len(aliveSeq[r]) >= PrefixLength(i)
        BY <1>4, <2>2
      <4> QED
        BY <1>2, <1>4, <1>6, <1>7, <4>1, TextScoreOfNext
    <3>5. ModelScore(b, Append(aliveSeq[r], d.id)) =
            ModelScore(b, aliveSeq[r]) + model[b][topkIds[r]][d.id]
      BY <1>6, <3>3, <3>4, Zenon DEF ModelScore
    <3> QED
      BY <3>1, <3>2, <3>5, Zenon
  <2> QED
    BY <1>4, <1>6, <2>1, <2>2
<1> HIDE DEF b
<1>10. /\ c.origin = r /\ c.id = d.id /\ c.score = d.score
       /\ c.tokens = Append(aliveSeq[r], d.id)
  BY <1>1
<1> HIDE DEF c
<1> QED
  BY <1>2, <1>3, <1>9, <1>10 DEF IsCandidate, b, c

-----------------------------------------------------------------------------
(* The rows that go on.                                                    *)

LEMMA NextBeamIsCandidate ==
  ASSUME NEW i, NEW cands, NEW k \in Beams
  PROVE  NextBeam(i, cands, k) \in 1 .. NumCandidates
<1> DEFINE upto == {m \in Ending(i, cands) : m <= k}
           spares == {n \in BeamSize + 1 .. NumCandidates : ~IsEos(cands[n])}
           rank == Cardinality(upto)
<1>1. BeamSize \in Nat \ {0} /\ NumCandidates = 2 * BeamSize
  BY Sizes
<1>2. k \in 1 .. NumCandidates
  BY <1>1 DEF Beams
<1>3. ASSUME k \in Ending(i, cands), rank <= Len(Spare(cands))
      PROVE  Spare(cands)[rank] \in 1 .. NumCandidates
  <2>1. spares \in SUBSET (BeamSize + 1 .. NumCandidates) /\ upto \in SUBSET (1 .. BeamSize)
    BY DEF Ending, Beams
  <2>2. IsFiniteSet(BeamSize + 1 .. NumCandidates) /\ IsFiniteSet(1 .. BeamSize)
    <3>1. BeamSize + 1 \in Int /\ NumCandidates \in Int /\ 1 \in Int /\ BeamSize \in Int
      BY <1>1
    <3> QED
      BY <3>1, FS_Interval
  <2>3. k \in upto
    BY <1>1, <1>3 DEF Beams
  <2> HIDE DEF upto, spares
  <2>4. IsFiniteSet(spares) /\ IsFiniteSet(upto)
    BY <2>1, <2>2, FS_Subset
  <2>5. rank \in Nat /\ rank # 0
    BY <2>3, <2>4, FS_CardinalityType, FS_EmptySet
  <2>6. spares \in SUBSET Int
    <3>1. BeamSize + 1 .. NumCandidates \subseteq Int
      BY <1>1
    <3> QED
      BY <2>1, <3>1
  <2>7. Cardinality(spares) \in Nat /\ Ascending(spares) \in [1 .. Cardinality(spares) -> spares]
    BY <2>4, <2>6, AscendingIs
  <2>8. Spare(cands) = Ascending(spares)
    BY DEF Spare, spares
  <2> HIDE DEF rank
  <2>9. rank \in 1 .. Cardinality(spares)
    BY <1>3, <2>5, <2>7, <2>8
  <2>10. Spare(cands)[rank] \in spares
    BY <2>7, <2>8, <2>9
  <2>11. BeamSize + 1 .. NumCandidates \subseteq 1 .. NumCandidates
    <3>1. BeamSize \in Nat /\ NumCandidates \in Nat
      BY <1>1
    <3> QED
      BY <3>1
  <2> QED
    BY <2>1, <2>10, <2>11
<1> QED
  BY <1>2, <1>3 DEF NextBeam

LEMMA KeptArePositions ==
  ASSUME NEW cands, Len(batchOffset) \in Nat
  PROVE  LET kept == NonFinished(cands)
         IN  /\ Len(kept) \in Nat /\ kept \in [1 .. Len(kept) -> Positions]
             /\ \A p \in 1 .. Len(kept) : ~IsLastStep(kept[p])
<1> DEFINE S == {i \in Positions : ~IsFinished(i, cands[i])}
<1>1. S \in SUBSET Int /\ S \in SUBSET Positions
  BY DEF Positions
<1>2. IsFiniteSet(Positions)
  BY FS_Interval DEF Positions
<1>3. NonFinished(cands) = Ascending(S)
  BY DEF NonFinished
<1>4. \A i \in S : ~IsLastStep(i)
  BY DEF IsFinished
<1> HIDE DEF S
<1>5. IsFiniteSet(S)
  BY <1>1, <1>2, FS_Subset
<1>6. Cardinality(S) \in Nat /\ Ascending(S) \in [1 .. Cardinality(S) -> S]
  BY <1>1, <1>5, AscendingIs
<1>7. Len(Ascending(S)) = Cardinality(S)
  BY <1>6
<1> QED
  BY <1>1, <1>3, <1>4, <1>6, <1>7

LEMMA ActiveFollows ==
  ASSUME Shape, RowsFollow, ScoresFollow
  PROVE  LET kept == NonFinished(StepCandidates)
             active == Active(StepCandidates, kept)
         IN  /\ DOMAIN active = 1 .. BeamSize * Len(kept)
             /\ \A r \in 1 .. BeamSize * Len(kept) :
                  /\ ((r - 1) \div BeamSize) + 1 \in 1 .. Len(kept)
                  /\ IsCandidate(kept[((r - 1) \div BeamSize) + 1], active[r])
<1> DEFINE cands == StepCandidates
           kept == NonFinished(cands)
           active == Active(cands, kept)
<1>1. Len(batchOffset) \in Nat
  BY DEF Shape
<1>2. Len(kept) \in Nat /\ kept \in [1 .. Len(kept) -> Positions]
  BY <1>1, KeptArePositions
<1>3. DOMAIN active = 1 .. BeamSize * Len(kept)
  BY DEF Active
<1>4. ASSUME NEW r \in 1 .. BeamSize * Len(kept)
      PROVE  /\ ((r - 1) \div BeamSize) + 1 \in 1 .. Len(kept)
             /\ IsCandidate(kept[((r - 1) \div BeamSize) + 1], active[r])
  <2> DEFINE p == ((r - 1) \div BeamSize) + 1
             k == ((r - 1) % BeamSize) + 1
             i == kept[p]
             n == NextBeam(i, cands[i], k)
  <2>1. PICK size \in Nat \ {0} : size = BeamSize
    BY Sizes
  <2>2. p \in 1 .. Len(kept) /\ k \in Beams
    <3> HIDE DEF kept
    <3>1. r \in 1 .. size * Len(kept)
      BY <2>1
    <3>2. ((r - 1) \div size) + 1 \in 1 .. Len(kept) /\ ((r - 1) % size) + 1 \in 1 .. size
      BY <1>2, <3>1, RowsSplit
    <3> QED
      BY <2>1, <3>2 DEF Beams
  <2>3. i \in Positions
    BY <1>2, <2>2
  <2>4. n \in 1 .. NumCandidates
    BY <2>2, NextBeamIsCandidate
  <2>5. active[r] = cands[i][n]
    BY DEF Active
  <2>6. cands[i] = Candidates(i)
    BY <2>3 DEF StepCandidates
  <2> HIDE DEF n, i, cands
  <2>7. IsCandidate(i, Candidates(i)[n])
    BY <2>3, <2>4, CandidatesFollow
  <2> QED
    BY <2>2, <2>5, <2>6, <2>7 DEF i
<1> QED
  BY <1>3, <1>4

-----------------------------------------------------------------------------
(* Texts that grow by a token.                                             *)

LEMMA SeenGrows ==
  ASSUME NEW f \in Seq(Tokens), NEW s \in Tokens, NEW t \in Seq(Tokens), NEW x \in Tokens
  PROVE  /\ Append(f \o (<<s>> \o t), x) = f \o (<<s>> \o Append(t, x))
         /\ Last(<<s>> \o Append(t, x)) = x
<1>1. <<s>> \in Seq(Tokens) /\ Len(<<s>>) = 1
  OBVIOUS
<1>2. <<s>> \o Append(t, x) = Append(<<s>> \o t, x)
  OBVIOUS
<1>3. <<s>> \o t \in Seq(Tokens)
  OBVIOUS
<1>4. PICK u \in Seq(Tokens) : u = <<s>> \o t
  BY <1>3
<1>5. Append(f \o u, x) = f \o Append(u, x)
  <2> DEFINE l == Append(f \o u, x)
             r == f \o Append(u, x)
  <2>1. l \in Seq(Tokens) /\ r \in Seq(Tokens)
    OBVIOUS
  <2>2. Len(l) = Len(f) + Len(u) + 1 /\ Len(r) = Len(f) + Len(u) + 1
    OBVIOUS
  <2>3. \A n \in 1 .. Len(f) + Len(u) + 1 : l[n] = r[n]
    OBVIOUS
  <2> HIDE DEF l, r
  <2>4. Len(l) = Len(r) /\ \A n \in 1 .. Len(l) : l[n] = r[n]
    BY <2>2, <2>3
  <2>5. l = r
    BY <2>1, <2>4, SeqEqual
  <2> QED
    BY <2>5 DEF l, r
<1>6. Last(Append(u, x)) = x
  BY DEF Last
<1> QED
  BY <1>2, <1>4, <1>5, <1>6, Zenon

(* The text u is what f, s and t are together, and what comes before its    *)
(* last token is a prefix of it.                                           *)
Joins(f, s, t, u) ==
  /\ u = f \o (<<s>> \o t)
  /\ Last(u) = Last(<<s>> \o t)
  /\ SubSeq(u, 1, Len(f) + Len(t) + 1) = u
  /\ \A c \in Seq(Tokens), x \in Tokens :
       Append(c, x) = u => c = SubSeq(u, 1, Len(f) + Len(t))

LEMMA SeenEnds ==
  ASSUME NEW f \in Seq(Tokens), NEW s \in Tokens, NEW t \in Seq(Tokens)
  PROVE  Joins(f, s, t, Append(f, s) \o t)
<1> DEFINE u == Append(f, s) \o t
<1>1. u \in Seq(Tokens) /\ Len(u) = Len(f) + Len(t) + 1
  OBVIOUS
<1>2. u = f \o (<<s>> \o t)
  OBVIOUS
<1>3. Last(u) = Last(<<s>> \o t)
  BY DEF Last
<1> HIDE DEF u
<1>4. SubSeq(u, 1, Len(f) + Len(t) + 1) = u
  BY <1>1
<1>5. ASSUME NEW c \in Seq(Tokens), NEW x \in Tokens, Append(c, x) = u
      PROVE  c = SubSeq(u, 1, Len(f) + Len(t))
  <2>1. Len(u) = Len(c) + 1 /\ Len(c) \in Nat /\ Len(f) + Len(t) \in Nat
    BY <1>5
  <2>2. Len(c) = Len(f) + Len(t)
    BY <1>1, <2>1
  <2>3. \A n \in 1 .. Len(c) : u[n] = c[n]
    BY <1>5
  <2> QED
    BY <1>1, <2>2, <2>3
<1> QED
  BY <1>2, <1>3, <1>4, <1>5, Zenon DEF u, Joins

LEMMA MaxStepIsEnough ==
  ASSUME IsSearch(options)
  PROVE  /\ MaxStep \in Int
         /\ \A b \in Batch :
              options.maxLength + (IF options.returnPrefix THEN 0 ELSE Len(options.prefixes[b]))
                <= MaxStep
<1> DEFINE S == {Len(options.prefixes[b]) : b \in Batch}
<1>1. options.maxLength \in Nat /\ options.prefixes \in Seq(Seq(Tokens))
  BY DEF IsSearch
<1>2. \A b \in Batch : Len(options.prefixes[b]) \in Nat
  BY <1>1 DEF Batch
<1>3. IsFiniteSet(Batch)
  <2>1. Batch = 1 .. Len(options.prefixes) /\ Len(options.prefixes) \in Int /\ 1 \in Int
    BY <1>1 DEF Batch
  <2> QED
    BY <2>1, FS_Interval
<1>4. IsFiniteSet(S)
  <2> DEFINE f == [b \in Batch |-> Len(options.prefixes[b])]
  <2>1. f \in Surjection(Batch, S)
    BY DEF Surjection
  <2> HIDE DEF f, S
  <2> QED
    BY <1>3, <2>1, FS_Surjection
<1>5. {0} \cup S \in SUBSET Int /\ {0} \cup S # {}
  BY <1>2
<1>6. \A b \in Batch : Len(options.prefixes[b]) \in {0} \cup S
  OBVIOUS
<1>7. MaxStep = options.maxLength + (IF options.returnPrefix THEN 0 ELSE Max({0} \cup S))
  BY DEF MaxStep, GetMaxStep
<1> HIDE DEF S
<1>8. IsFiniteSet({0} \cup S)
  <2>1. IsFiniteSet({0})
    BY FS_Singleton
  <2> QED
    BY <1>4, <2>1, FS_Union
<1>9. Max({0} \cup S) \in Int /\ \A y \in {0} \cup S : y <= Max({0} \cup S)
  BY <1>5, <1>8, GreatestNumber
<1>10. ASSUME NEW b \in Batch
       PROVE  options.maxLength
                + (IF options.returnPrefix THEN 0 ELSE Len(options.prefixes[b])) <= MaxStep
  <2>1. Len(options.prefixes[b]) <= Max({0} \cup S) /\ Len(options.prefixes[b]) \in Nat
    BY <1>2, <1>6, <1>9
  <2>2. CASE options.returnPrefix
    BY <1>1, <1>7, <2>2
  <2>3. CASE ~options.returnPrefix
    <3>1. MaxStep = options.maxLength + Max({0} \cup S)
      BY <1>7, <2>3
    <3> QED
      BY <1>1, <1>9, <2>1, <2>3, <3>1
  <2> QED
    BY <2>2, <2>3
<1>11. MaxStep \in Int
  BY <1>1, <1>7, <1>9
<1> QED
  BY <1>10, <1>11

-----------------------------------------------------------------------------
(* The property, from the invariant.                                       *)

LEMMA ShapeTypes ==
  ASSUME Shape, NEW b \in Batch
  PROVE  /\ options.forwarded[b] \in Seq(Tokens)
         /\ options.startIds[b] \in Tokens
         /\ options.prefixes[b] \in Seq(Tokens)
<1>1. /\ options.forwarded \in Seq(Seq(Tokens)) /\ options.startIds \in Seq(Tokens)
      /\ options.prefixes \in Seq(Seq(Tokens))
      /\ Len(options.forwarded) = Len(options.prefixes)
      /\ Len(options.startIds) = Len(options.prefixes)
  BY DEF Shape, IsSearch
<1>2. b \in 1 .. Len(options.prefixes)
  BY <1>1 DEF Batch
<1> QED
  BY <1>1, <1>2

(* What the property says of the rows, with the names used here.           *)
LEMMA RowsOfGoesOn ==
  ASSUME GoesOn, NEW r \in RowNumbers
  PROVE  LET b == SentenceAt(r)
             u == Append(options.forwarded[b], options.startIds[b]) \o aliveSeq[r]
             f == Len(options.forwarded[b])
         IN  /\ b \in Batch
             /\ topkIds[r] = Last(u)
             /\ cache[r].batch = b
             /\ cache[r].tokens = SubSeq(u, 1, f + step)
             /\ Append(cache[r].tokens, topkIds[r]) = SubSeq(u, 1, f + (step + 1))
<1> DEFINE b == SentenceAt(r)
           f == options.forwarded[b]
           s == options.startIds[b]
           t == aliveSeq[r]
           u == Append(f, s) \o t
<1>1. Shape /\ RowsFollow
  BY DEF GoesOn
<1>2. b \in Batch
  <2>1. Position(r) \in Positions
    BY <1>1, RowsOfShape
  <2> QED
    BY <1>1, <2>1 DEF Shape, SentenceAt, Positions
<1> HIDE DEF b
<1>3. f \in Seq(Tokens) /\ s \in Tokens
  BY <1>1, <1>2, ShapeTypes
<1>4. /\ t \in Seq(Tokens) /\ topkIds[r] \in Tokens /\ cache[r].tokens \in Seq(Tokens)
      /\ step \in Nat
  BY <1>1 DEF Shape
<1>5. /\ Len(t) = step
      /\ topkIds[r] = Last(<<s>> \o t)
      /\ cache[r].batch = b
      /\ Append(cache[r].tokens, topkIds[r]) = f \o (<<s>> \o t)
  BY <1>1 DEF RowsFollow, b, Seen
<1> HIDE DEF f, s, t
<1>6. /\ u = f \o (<<s>> \o t)
      /\ Last(u) = Last(<<s>> \o t)
      /\ SubSeq(u, 1, Len(f) + Len(t) + 1) = u
      /\ \A c \in Seq(Tokens), x \in Tokens :
           Append(c, x) = u => c = SubSeq(u, 1, Len(f) + Len(t))
  <2>1. Joins(f, s, t, u)
    BY <1>3, <1>4, SeenEnds
  <2> HIDE DEF u
  <2> QED
    BY <2>1, Zenon DEF Joins
<1> HIDE DEF u
<1>7. Append(cache[r].tokens, topkIds[r]) = u
  BY <1>5, <1>6
<1>8. cache[r].tokens = SubSeq(u, 1, Len(f) + step)
  BY <1>4, <1>5, <1>6, <1>7
<1>9. Len(f) + Len(t) + 1 = Len(f) + (step + 1)
  BY <1>3, <1>4, <1>5
<1> QED
  BY <1>2, <1>5, <1>6, <1>7, <1>8, <1>9, Zenon DEF b, f, s, t, u

LEMMA GoesOnImplies ==
  ASSUME GoesOn, searching
  PROVE  StateFollowsSequences
<1> DEFINE size == IF IsExpanded THEN BeamSize ELSE 1
<1>1. Shape /\ ScoresFollow
  BY DEF GoesOn
<1>2. PerSentence = size /\ (IF IsExpanded \/ ~searching THEN BeamSize ELSE 1) = size
  BY DEF PerSentence
<1>3. memory = batchOffset /\ DOMAIN cache = RowNumbers /\ DOMAIN topkIds = RowNumbers
        /\ DOMAIN aliveSeq = RowNumbers
  BY <1>1 DEF Shape
<1>4. Len(cache) = size * Len(batchOffset)
  <2>1. size \in Nat /\ Len(batchOffset) \in Nat
    BY <1>1, <1>2, RowsOfShape
  <2>2. DOMAIN cache = 1 .. size * Len(batchOffset) /\ size * Len(batchOffset) \in Nat
    BY <1>2, <1>3, <2>1 DEF RowNumbers
  <2> QED
    BY <1>1, <2>2
<1>5. ASSUME NEW r \in RowNumbers
      PROVE  /\ Position(r) = ((r - 1) \div size) + 1
             /\ SentenceAt(r) = batchOffset[((r - 1) \div size) + 1]
             /\ ~IsExpanded => ((r - 1) \div size) + 1 = r
  <2>1. ~IsExpanded => ((r - 1) \div size) + 1 = r
    <3>1. r \in Nat \ {0}
      <4>1. PerSentence \in Nat /\ Len(batchOffset) \in Nat
        BY <1>1, RowsOfShape
      <4> QED
        BY <4>1 DEF RowNumbers
    <3>2. ((r - 1) \div 1) + 1 = r
      BY <3>1
    <3> QED
      BY <3>2
  <2> QED
    BY <1>2, <2>1, Zenon DEF Position, SentenceAt
<1>6. ASSUME NEW r \in RowNumbers, topkScores[r] > Penalised
      PROVE  topkScores[r] = ModelScore(batchOffset[((r - 1) \div size) + 1], aliveSeq[r])
  BY <1>1, <1>5, <1>6 DEF ScoresFollow
<1>7. ASSUME NEW r \in RowNumbers
      PROVE  LET p == ((r - 1) \div size) + 1
                 b == batchOffset[p]
                 q == IF IsExpanded THEN r ELSE p
                 u == Append(options.forwarded[b], options.startIds[b]) \o aliveSeq[q]
             IN  /\ topkIds[r] = Last(Append(options.forwarded[b], options.startIds[b])
                                        \o aliveSeq[r])
                 /\ cache[r].batch = b
                 /\ cache[r].tokens = SubSeq(u, 1, Len(options.forwarded[b]) + step)
  <2>1. SentenceAt(r) = batchOffset[((r - 1) \div size) + 1]
    BY <1>5
  <2>2. (IF IsExpanded THEN r ELSE ((r - 1) \div size) + 1) = r
    BY <1>5, Zenon
  <2> HIDE DEF size
  <2> QED
    BY <2>1, <2>2, RowsOfGoesOn, Zenon
<1> QED
  BY <1>2, <1>3, <1>4, <1>6, <1>7, Zenon DEF StateFollowsSequences

-----------------------------------------------------------------------------
(* The steps.                                                              *)

LEMMA FedRows ==
  ASSUME Shape
  PROVE  /\ DOMAIN Fed = RowNumbers
         /\ \A r \in RowNumbers :
              /\ Fed[r] \in [batch : Batch, tokens : Seq(Tokens)]
              /\ Fed[r].batch = cache[r].batch
              /\ Fed[r].tokens = Append(cache[r].tokens, topkIds[r])
<1>1. DOMAIN Fed = RowNumbers
  BY DEF Shape, Fed
<1>2. ASSUME NEW r \in RowNumbers
      PROVE  /\ Fed[r] \in [batch : Batch, tokens : Seq(Tokens)]
             /\ Fed[r].batch = cache[r].batch
             /\ Fed[r].tokens = Append(cache[r].tokens, topkIds[r])
  <2>1. cache[r] \in [batch : Batch, tokens : Seq(Tokens)] /\ topkIds[r] \in Tokens
    BY DEF Shape
  <2>2. Fed[r] = [cache[r] EXCEPT !.tokens = Append(@, topkIds[r])]
    BY <1>1 DEF Fed
  <2>3. cache[r].tokens \in Seq(Tokens)
    BY <2>1
  <2>4. Append(cache[r].tokens, topkIds[r]) \in Seq(Tokens)
    BY <2>1, <2>3
  <2> QED
    BY <2>1, <2>2, <2>4
<1> QED
  BY <1>1, <1>2

(* When the search stops, the state has a row for each beam.               *)
LEMMA StopStep ==
  ASSUME GoesOn, StopSearch
  PROVE  ~searching' /\ StateFollowsSequences'
<1> DEFINE q(r) == IF IsExpanded THEN r ELSE ((r - 1) \div BeamSize) + 1
           L == Len(batchOffset)
           size == IF IsExpanded THEN BeamSize ELSE 1
<1>1. Shape
  BY DEF GoesOn
<1>2. /\ options' = options /\ model' = model /\ step' = step /\ batchOffset' = batchOffset
      /\ topkIds' = topkIds /\ topkScores' = topkScores /\ aliveSeq' = aliveSeq
      /\ memory' = memory /\ ~searching'
      /\ cache' = IF IsExpanded THEN Fed ELSE RepeatBatch(Fed, BeamSize)
  BY DEF StopSearch, FinishSentences
<1>3. IsExpanded' <=> IsExpanded
  BY <1>2 DEF IsExpanded
<1>4. L \in Nat /\ BeamSize \in Nat \ {0}
  BY <1>1, RowsOfShape, Sizes
<1>5. PICK n \in Nat \ {0} : n = BeamSize
  BY <1>4
<1>6. memory = batchOffset /\ DOMAIN topkIds = RowNumbers
  BY <1>1 DEF Shape
<1>7. PerSentence = size
  BY DEF PerSentence
<1>8. ASSUME NEW r \in 1 .. BeamSize * L
      PROVE  /\ q(r) \in RowNumbers
             /\ SentenceAt(q(r)) = batchOffset[((r - 1) \div BeamSize) + 1]
  <2>1. CASE IsExpanded
    BY <1>7, <2>1 DEF RowNumbers, SentenceAt, Position
  <2>2. CASE ~IsExpanded
    <3>1. RowNumbers = 1 .. L
      <4>1. PerSentence * L = L
        BY <1>4, <1>7, <2>2
      <4> QED
        BY <4>1 DEF RowNumbers
    <3>2. ((r - 1) \div BeamSize) + 1 \in 1 .. L
      <4>1. r \in 1 .. n * L
        BY <1>5
      <4>2. ((r - 1) \div n) + 1 \in 1 .. L
        BY <1>4, <4>1, RowsSplit
      <4> QED
        BY <1>5, <4>2
    <3>3. \A p \in 1 .. L : ((p - 1) \div 1) + 1 = p
      BY <1>4
    <3>4. q(r) = ((r - 1) \div BeamSize) + 1
      BY <2>2
    <3>5. \A p : SentenceAt(p) = batchOffset[((p - 1) \div 1) + 1]
      BY <1>7, <2>2 DEF SentenceAt, Position
    <3> HIDE DEF q, L
    <3> QED
      BY <3>1, <3>2, <3>3, <3>4, <3>5
  <2> QED
    BY <2>1, <2>2
<1>9. /\ DOMAIN cache' = 1 .. BeamSize * L /\ Len(cache') = BeamSize * L
      /\ \A r \in 1 .. BeamSize * L : cache'[r] = Fed[q(r)]
  <2>1. BeamSize * L \in Nat
    BY <1>4, <1>5
  <2>2. CASE IsExpanded
    <3>1. cache' = Fed /\ RowNumbers = 1 .. BeamSize * L
      BY <1>2, <1>7, <2>2 DEF RowNumbers
    <3>2. Fed = [r \in 1 .. BeamSize * L |-> Fed[r]]
      BY <1>1, <3>1, FedRows DEF Fed
    <3>3. Len(Fed) = BeamSize * L
      BY <2>1, <3>2
    <3> QED
      BY <1>1, <2>2, <3>1, <3>3, FedRows
  <2>3. CASE ~IsExpanded
    <3>1. RowNumbers = 1 .. L
      <4>1. PerSentence * L = L
        BY <1>4, <1>7, <2>3
      <4> QED
        BY <4>1 DEF RowNumbers
    <3>2. Fed = [r \in 1 .. L |-> Fed[r]]
      BY <1>1, <3>1, FedRows DEF Fed
    <3>3. Len(Fed) = L
      BY <1>4, <3>2
    <3>4. cache' = [r \in 1 .. BeamSize * L |-> Fed[((r - 1) \div BeamSize) + 1]]
      BY <1>2, <2>3, <3>3 DEF RepeatBatch
    <3>5. \A r : q(r) = ((r - 1) \div BeamSize) + 1
      BY <2>3
    <3> HIDE DEF q, L
    <3> QED
      BY <2>1, <3>4, <3>5
  <2> QED
    BY <2>2, <2>3
<1>10. ASSUME NEW r \in 1 .. BeamSize * L
       PROVE  LET b == batchOffset[((r - 1) \div BeamSize) + 1]
                  u == Append(options.forwarded[b], options.startIds[b]) \o aliveSeq[q(r)]
              IN  /\ cache'[r].batch = b
                  /\ cache'[r].tokens = SubSeq(u, 1, Len(options.forwarded[b]) + (step + 1))
  <2>1. PICK x \in RowNumbers : x = q(r)
    BY <1>8
  <2>2. SentenceAt(x) = batchOffset[((r - 1) \div BeamSize) + 1] /\ cache'[r] = Fed[x]
    BY <1>8, <1>9, <2>1
  <2>3. Fed[x].batch = cache[x].batch /\ Fed[x].tokens = Append(cache[x].tokens, topkIds[x])
    BY <1>1, FedRows
  <2> HIDE DEF q, L
  <2>4. LET b == SentenceAt(x)
            u == Append(options.forwarded[b], options.startIds[b]) \o aliveSeq[x]
        IN  /\ cache[x].batch = b
            /\ Append(cache[x].tokens, topkIds[x])
                 = SubSeq(u, 1, Len(options.forwarded[b]) + (step + 1))
    BY RowsOfGoesOn
  <2> QED
    BY <2>1, <2>2, <2>3, <2>4, Zenon
<1>11. ASSUME NEW r \in RowNumbers
       PROVE  LET b == batchOffset[((r - 1) \div size) + 1]
              IN  topkIds[r] = Last(Append(options.forwarded[b], options.startIds[b])
                                      \o aliveSeq[r])
  <2>1. SentenceAt(r) = batchOffset[((r - 1) \div size) + 1]
    BY <1>7 DEF SentenceAt, Position
  <2> HIDE DEF size
  <2> QED
    BY <2>1, RowsOfGoesOn, Zenon
<1> HIDE DEF L
<1> QED
  BY <1>2, <1>3, <1>6, <1>9, <1>10, <1>11 DEF StateFollowsSequences, L

(* When it goes on, every row goes on with what its candidate extends.     *)
LEMMA ContinueStep ==
  ASSUME GoesOn, ContinueSearch
  PROVE  searching' /\ GoesOn'
<1> DEFINE kept == NonFinished(StepCandidates)
           active == Active(StepCandidates, kept)
           N == 1 .. BeamSize * Len(kept)
           at(r) == ((r - 1) \div BeamSize) + 1
<1>1. Shape /\ RowsFollow /\ ScoresFollow /\ StepsAreLeft
  BY DEF GoesOn
<1>2. /\ kept # <<>> /\ options' = options /\ model' = model
      /\ batchOffset' = [p \in DOMAIN kept |-> batchOffset[kept[p]]]
      /\ memory' = [p \in DOMAIN kept |-> memory[kept[p]]]
      /\ topkIds' = [r \in DOMAIN active |-> active[r].id]
      /\ topkScores' = [r \in DOMAIN active |-> active[r].score]
      /\ aliveSeq' = [r \in DOMAIN active |-> active[r].tokens]
      /\ cache' = [r \in DOMAIN active |-> Fed[Origins(StepCandidates, kept)[r]]]
      /\ step' = step + 1 /\ searching' = (step' < MaxStep)
  BY DEF ContinueSearch, FinishSentences
<1>3. /\ Len(kept) \in Nat /\ kept \in [1 .. Len(kept) -> Positions]
      /\ \A p \in 1 .. Len(kept) : ~IsLastStep(kept[p])
  BY <1>1, KeptArePositions DEF Shape
<1>4. /\ DOMAIN active = N
      /\ \A r \in N : at(r) \in 1 .. Len(kept) /\ IsCandidate(kept[at(r)], active[r])
  BY <1>1, ActiveFollows
<1>5. \A r \in N : cache'[r] = Fed[active[r].origin]
  BY <1>2, <1>4 DEF Origins
<1> HIDE DEF kept, active
<1>6. step \in Nat /\ step' \in Nat /\ IsSearch(options) /\ Batch' = Batch
  BY <1>1, <1>2 DEF Shape, Batch
<1>7. /\ DOMAIN batchOffset' = 1 .. Len(kept) /\ Len(batchOffset') = Len(kept)
      /\ batchOffset' \in Seq(Batch)
      /\ \A p \in 1 .. Len(kept) : batchOffset'[p] = batchOffset[kept[p]] /\ kept[p] \in Positions
  <2>1. \A i \in Positions : batchOffset[i] \in Batch
    BY <1>1 DEF Shape, Positions
  <2>2. DOMAIN kept = 1 .. Len(kept)
    BY <1>3
  <2>3. batchOffset' = [p \in 1 .. Len(kept) |-> batchOffset[kept[p]]]
    BY <1>2, <2>2
  <2>4. batchOffset' \in [1 .. Len(kept) -> Batch]
    BY <1>3, <2>1, <2>3
  <2>5. batchOffset' \in Seq(Batch)
    BY <1>3, <2>4
  <2> QED
    BY <1>3, <2>3, <2>4, <2>5
<1>8. IsExpanded' /\ PerSentence' = BeamSize /\ RowNumbers' = N
  <2>1. IsExpanded'
    BY <1>2, <1>6 DEF IsExpanded
  <2>2. PerSentence' = BeamSize
    BY <2>1 DEF PerSentence
  <2> QED
    BY <1>7, <2>1, <2>2 DEF RowNumbers
<1>9. ASSUME NEW r \in N
      PROVE  LET c == active[r]
                 b == batchOffset'[at(r)]
             IN  /\ b \in Batch
                 /\ c.origin \in RowNumbers /\ SentenceAt(c.origin) = b
                 /\ c.id \in Tokens /\ c.score \in Int
                 /\ c.tokens = Append(aliveSeq[c.origin], c.id)
                 /\ c.tokens \in Seq(Tokens) /\ Len(c.tokens) = step'
                 /\ c.score > Penalised => c.score = ModelScore(b, c.tokens)
  <2> DEFINE c == active[r]
             i == kept[at(r)]
             b == batchOffset'[at(r)]
  <2>1. at(r) \in 1 .. Len(kept) /\ IsCandidate(i, c)
    BY <1>4
  <2>2. b = batchOffset[i] /\ b \in Batch
    BY <1>7, <2>1
  <2> HIDE DEF c, i, b
  <2>3. /\ c.origin \in RowNumbers /\ Position(c.origin) = i
        /\ c.id \in Tokens /\ c.score \in Int
        /\ c.tokens = Append(aliveSeq[c.origin], c.id)
        /\ c.score > Penalised => c.score = ModelScore(batchOffset[i], c.tokens)
    BY <2>1 DEF IsCandidate
  <2>4. SentenceAt(c.origin) = b
    BY <2>2, <2>3 DEF SentenceAt
  <2>5. aliveSeq[c.origin] \in Seq(Tokens) /\ Len(aliveSeq[c.origin]) = step
    BY <1>1, <2>3 DEF Shape, RowsFollow
  <2>6. c.tokens \in Seq(Tokens) /\ Len(c.tokens) = step'
    BY <1>2, <2>3, <2>5
  <2> QED
    BY <2>2, <2>3, <2>4, <2>6 DEF c, b
<1>10. Shape'
  <2>1. topkIds' \in [N -> Tokens] /\ topkScores' \in [N -> Int] /\ aliveSeq' \in [N -> Seq(Tokens)]
    BY <1>2, <1>4, <1>9
  <2>2. cache' \in [N -> [batch : Batch, tokens : Seq(Tokens)]]
    <3>1. cache' = [r \in N |-> cache'[r]]
      BY <1>2, <1>4
    <3>2. \A r \in N : cache'[r] \in [batch : Batch, tokens : Seq(Tokens)]
      BY <1>1, <1>5, <1>9, FedRows
    <3> QED
      BY <3>1, <3>2
  <2>3. memory' = batchOffset'
    BY <1>1, <1>2 DEF Shape
  <2>4. IsSearch(options)' /\ model' \in Models /\ (Batch \subseteq DOMAIN model)'
    BY <1>1, <1>2, <1>6 DEF Shape, IsSearch
  <2> QED
    BY <1>6, <1>7, <1>8, <2>1, <2>2, <2>3, <2>4 DEF Shape
<1>11. \A r \in N : SentenceAt(r)' = batchOffset'[at(r)]
  BY <1>8 DEF SentenceAt, Position
<1>12. ASSUME NEW r \in N
       PROVE  /\ Len(aliveSeq'[r]) = step'
              /\ topkIds'[r] = Last(<<options'.startIds[batchOffset'[at(r)]]>> \o aliveSeq'[r])
              /\ cache'[r].batch = batchOffset'[at(r)]
              /\ Append(cache'[r].tokens, topkIds'[r])
                   = Seen(options', batchOffset'[at(r)], aliveSeq'[r])
  <2> DEFINE c == active[r]
             b == batchOffset'[at(r)]
             o == c.origin
             t == aliveSeq[o]
  <2>1. topkIds'[r] = c.id /\ aliveSeq'[r] = c.tokens /\ cache'[r] = Fed[o]
    BY <1>2, <1>4, <1>5
  <2>2. /\ b \in Batch /\ o \in RowNumbers /\ SentenceAt(o) = b /\ c.id \in Tokens
        /\ c.tokens = Append(t, c.id) /\ Len(c.tokens) = step'
    BY <1>9
  <2> HIDE DEF c, b
  <2>3. t \in Seq(Tokens)
    BY <1>1, <2>2 DEF Shape
  <2>4. /\ cache[o].batch = b
        /\ Append(cache[o].tokens, topkIds[o]) = Seen(options, b, t)
    BY <1>1, <2>2 DEF RowsFollow
  <2>5. Fed[o].batch = cache[o].batch /\ Fed[o].tokens = Append(cache[o].tokens, topkIds[o])
    BY <1>1, <2>2, FedRows
  <2> HIDE DEF o, t
  <2>6. options.forwarded[b] \in Seq(Tokens) /\ options.startIds[b] \in Tokens
    BY <1>1, <2>2, ShapeTypes
  <2>7. /\ Append(Seen(options, b, t), c.id) = Seen(options, b, Append(t, c.id))
        /\ Last(<<options.startIds[b]>> \o Append(t, c.id)) = c.id
    <3>1. PICK f \in Seq(Tokens), s \in Tokens, u \in Seq(Tokens), x \in Tokens :
            f = options.forwarded[b] /\ s = options.startIds[b] /\ u = t /\ x = c.id
      BY <2>2, <2>3, <2>6
    <3>2. /\ Append(f \o (<<s>> \o u), x) = f \o (<<s>> \o Append(u, x))
          /\ Last(<<s>> \o Append(u, x)) = x
      BY SeenGrows
    <3> QED
      BY <3>1, <3>2, Zenon DEF Seen
  <2> QED
    BY <1>2, <2>1, <2>2, <2>4, <2>5, <2>7, Zenon DEF b
<1>13. RowsFollow'
  BY <1>8, <1>11, <1>12, Zenon DEF RowsFollow
<1>14. ScoresFollow'
  <2>1. ASSUME NEW r \in N, topkScores'[r] > Penalised
        PROVE  topkScores'[r] =
                 TextScore(model'[batchOffset'[at(r)]], options'.startIds[batchOffset'[at(r)]],
                           Len(options'.prefixes[batchOffset'[at(r)]]), aliveSeq'[r])
    <3>1. topkScores'[r] = active[r].score /\ aliveSeq'[r] = active[r].tokens
      BY <1>2, <1>4
    <3>2. active[r].score = ModelScore(batchOffset'[at(r)], active[r].tokens)
      BY <1>9, <2>1, <3>1
    <3> QED
      BY <1>2, <3>1, <3>2, Zenon DEF ModelScore
  <2> QED
    BY <1>8, <1>11, <2>1, Zenon DEF ScoresFollow, ModelScore
<1>15. ASSUME NEW p \in 1 .. Len(kept)
       PROVE  LET more == IF options.returnPrefix
                            THEN 0 ELSE Len(options.prefixes[batchOffset'[p]])
              IN  step' < options.maxLength + more /\ options.maxLength + more <= MaxStep
  <2> DEFINE more == IF options.returnPrefix THEN 0 ELSE Len(options.prefixes[batchOffset'[p]])
  <2>1. batchOffset'[p] = batchOffset[kept[p]] /\ kept[p] \in Positions /\ batchOffset'[p] \in Batch
    BY <1>7
  <2>2. step < options.maxLength + more
    BY <1>1, <2>1 DEF StepsAreLeft, PrefixLength, Prefix
  <2>3. step + 1 # options.maxLength + more
    BY <1>3, <2>1 DEF IsLastStep, LastStep, PrefixLength, Prefix
  <2>4. options.maxLength + more \in Nat
    <3>1. options.maxLength \in Nat
      BY <1>6 DEF IsSearch
    <3>2. Len(options.prefixes[batchOffset'[p]]) \in Nat
      BY <1>1, <2>1, ShapeTypes
    <3> QED
      BY <3>1, <3>2
  <2>5. options.maxLength + more <= MaxStep
    BY <1>6, <2>1, MaxStepIsEnough
  <2> HIDE DEF more
  <2> QED
    BY <1>2, <1>6, <2>2, <2>3, <2>4, <2>5 DEF more
<1>16. StepsAreLeft'
  <2>1. Positions' = 1 .. Len(kept)
    BY <1>7 DEF Positions
  <2> QED
    BY <1>2, <1>15, <2>1, Zenon DEF StepsAreLeft, PrefixLength, Prefix
<1>17. searching'
  <2>1. 1 \in 1 .. Len(kept)
    <3>1. Len(kept) # 0
      BY <1>2, <1>3
    <3> QED
      BY <1>3, <3>1
  <2>2. PICK limit \in Int : step' < limit /\ limit <= MaxStep
    <3>1. options.maxLength + (IF options.returnPrefix
                                 THEN 0 ELSE Len(options.prefixes[batchOffset'[1]])) \in Int
      <4>1. options.maxLength \in Nat /\ batchOffset'[1] \in Batch
        BY <1>6, <1>7, <2>1 DEF IsSearch
      <4>2. Len(options.prefixes[batchOffset'[1]]) \in Nat
        BY <1>1, <4>1, ShapeTypes
      <4> QED
        BY <4>1, <4>2
    <3> QED
      BY <1>15, <2>1, <3>1
  <2>3. MaxStep \in Int
    BY <1>6, MaxStepIsEnough
  <2>4. step' < MaxStep
    BY <1>6, <2>2, <2>3
  <2>5. (step' < MaxStep) = TRUE
    BY <2>4
  <2> QED
    BY <1>2, <2>5, Zenon
<1> QED
  BY <1>10, <1>13, <1>14, <1>16, <1>17 DEF GoesOn

(* Before the first step every row has its start token and no text.        *)
LEMMA SearchStarts ==
  ASSUME InitSearch, IsSearch(options), \A m \in Models : Batch \subseteq DOMAIN m
  PROVE  IInv
<1> DEFINE N == Len(options.prefixes)
           start == [i \in Batch |-> [batch |-> i, tokens |-> options.forwarded[i]]]
           ids == options.startIds
<1>1. /\ model \in Models /\ step = 0 /\ searching = TRUE
      /\ batchOffset = [b \in Batch |-> b] /\ memory = [b \in Batch |-> b]
  BY DEF InitSearch
<1>2. /\ options.maxLength \in Nat \ {0} /\ options.prefixes \in Seq(Seq(Tokens))
      /\ ids \in Seq(Tokens) /\ options.forwarded \in Seq(Seq(Tokens))
      /\ Len(ids) = N /\ Len(options.forwarded) = N /\ N \in Nat
      /\ options.expandAfterFirst \in BOOLEAN
  BY DEF IsSearch
<1>3. Batch = 1 .. N
  BY <1>2 DEF Batch
<1>4. Len(batchOffset) = N /\ batchOffset \in Seq(Batch) /\ memory = batchOffset
  <2>1. batchOffset = [b \in 1 .. N |-> b]
    BY <1>1, <1>3
  <2> HIDE DEF N
  <2> QED
    BY <1>1, <1>2, <1>3, <2>1
<1>5. /\ \A b \in Batch : /\ options.forwarded[b] \in Seq(Tokens) /\ ids[b] \in Tokens
                          /\ options.prefixes[b] \in Seq(Tokens)
                          /\ Len(options.prefixes[b]) \in Nat
      /\ \A b \in Batch : batchOffset[b] = b
  BY <1>1, <1>2, <1>3
<1>6. Len(start) = N
  BY <1>2, <1>3
<1> HIDE DEF ids, start
<1>7. PICK n \in Nat \ {0} : n = PerSentence
  <2>1. PerSentence \in Nat \ {0}
    BY Sizes DEF PerSentence
  <2> QED
    BY <2>1
<1> HIDE DEF N
<1>8. RowNumbers = 1 .. n * N
  BY <1>4, <1>7 DEF RowNumbers
<1>9. ASSUME NEW r \in RowNumbers
      PROVE  SentenceAt(r) = ((r - 1) \div n) + 1 /\ SentenceAt(r) \in Batch
  <2>1. ((r - 1) \div n) + 1 \in 1 .. N
    BY <1>2, <1>8, RowsSplit
  <2> QED
    BY <1>3, <1>5, <1>7, <2>1 DEF SentenceAt, Position
<1>10. /\ DOMAIN topkIds = RowNumbers /\ topkScores \in [RowNumbers -> {0, Lowest}]
       /\ aliveSeq = [r \in RowNumbers |-> <<>>]
       /\ DOMAIN cache = RowNumbers
       /\ topkIds = [r \in DOMAIN topkIds |-> topkIds[r]]
       /\ cache = [r \in DOMAIN cache |-> cache[r]]
       /\ \A r \in RowNumbers : topkIds[r] = ids[SentenceAt(r)] /\ cache[r] = start[SentenceAt(r)]
  <2>1. CASE options.expandAfterFirst
    <3>1. ~IsExpanded /\ n = 1
      <4>1. ~IsExpanded
        BY <1>1, <2>1 DEF IsExpanded
      <4> QED
        BY <1>7, <4>1 DEF PerSentence
    <3>2. RowNumbers = Batch
      BY <1>2, <1>3, <1>8, <3>1
    <3>3. /\ cache = start /\ topkIds = ids /\ topkScores = [i \in Batch |-> 0]
          /\ aliveSeq = [i \in Batch |-> <<>>]
      BY <2>1 DEF InitSearch, start, ids
    <3>4. \A r \in RowNumbers : SentenceAt(r) = r
      <4>1. \A r \in 1 .. N : ((r - 1) \div 1) + 1 = r
        BY <1>2
      <4> QED
        BY <1>3, <1>9, <3>1, <3>2, <4>1
    <3>5. DOMAIN ids = Batch /\ DOMAIN start = Batch
      BY <1>2, <1>3 DEF ids, start
    <3>6. ids = [r \in DOMAIN ids |-> ids[r]] /\ start = [r \in DOMAIN start |-> start[r]]
      BY <1>2 DEF start
    <3> QED
      BY <3>2, <3>3, <3>4, <3>5, <3>6
  <2>2. CASE ~options.expandAfterFirst
    <3>1. IsExpanded /\ n = BeamSize
      <4>1. IsExpanded
        BY <2>2 DEF IsExpanded
      <4> QED
        BY <1>7, <4>1 DEF PerSentence
    <3>2. /\ cache = RepeatBatch(start, BeamSize) /\ topkIds = RepeatBatch(ids, BeamSize)
          /\ topkScores = [r \in DOMAIN topkIds |->
                             IF (r - 1) % BeamSize = 0 THEN 0 ELSE Lowest]
          /\ aliveSeq = [r \in DOMAIN topkIds |-> <<>>]
      BY <2>2 DEF InitSearch, start, ids
    <3>3. /\ cache = [r \in RowNumbers |-> start[((r - 1) \div n) + 1]]
          /\ topkIds = [r \in RowNumbers |-> ids[((r - 1) \div n) + 1]]
      <4>1. Len(ids) = N /\ RowNumbers = 1 .. BeamSize * N
        BY <1>2, <1>8, <3>1
      <4> QED
        BY <1>6, <3>1, <3>2, <4>1, Zenon DEF RepeatBatch
    <3>4. DOMAIN topkIds = RowNumbers /\ DOMAIN cache = RowNumbers
      BY <3>3
    <3>5. topkScores \in [RowNumbers -> {0, Lowest}] /\ aliveSeq = [r \in RowNumbers |-> <<>>]
      BY <3>2, <3>4
    <3> QED
      BY <1>9, <3>3, <3>4, <3>5
  <2> QED
    BY <1>2, <2>1, <2>2
<1>11. \A b \in Batch : start[b] = [batch |-> b, tokens |-> options.forwarded[b]]
  BY DEF start
<1>12. Shape
  <2>1. topkIds \in [RowNumbers -> Tokens]
    BY <1>5, <1>9, <1>10
  <2>2. topkScores \in [RowNumbers -> Int]
    BY <1>10, Sizes
  <2>3. aliveSeq \in [RowNumbers -> Seq(Tokens)]
    BY <1>10
  <2>4. cache \in [RowNumbers -> [batch : Batch, tokens : Seq(Tokens)]]
    <3>1. ASSUME NEW r \in RowNumbers
          PROVE  cache[r] \in [batch : Batch, tokens : Seq(Tokens)]
      <4>1. PICK b \in Batch : b = SentenceAt(r)
        BY <1>9
      <4>2. cache[r] = [batch |-> b, tokens |-> options.forwarded[b]]
        BY <1>10, <1>11, <4>1
      <4> QED
        BY <1>5, <4>2
    <3> QED
      BY <1>10, <3>1
  <2> QED
    BY <1>1, <1>4, <2>1, <2>2, <2>3, <2>4 DEF Shape
<1>13. ASSUME NEW r \in RowNumbers
       PROVE  /\ Len(aliveSeq[r]) = step
              /\ topkIds[r] = Last(<<options.startIds[SentenceAt(r)]>> \o aliveSeq[r])
              /\ cache[r].batch = SentenceAt(r)
              /\ Append(cache[r].tokens, topkIds[r]) = Seen(options, SentenceAt(r), aliveSeq[r])
  <2>1. PICK b \in Batch : b = SentenceAt(r)
    BY <1>9
  <2>2. PICK f \in Seq(Tokens), s \in Tokens : f = options.forwarded[b] /\ s = ids[b]
    BY <1>5
  <2>3. /\ aliveSeq[r] = <<>> /\ topkIds[r] = s
        /\ cache[r] = [batch |-> b, tokens |-> f]
    BY <1>10, <1>11, <2>1, <2>2
  <2>4. Last(<<s>> \o <<>>) = s /\ Append(f, s) = f \o (<<s>> \o <<>>)
    BY DEF Last
  <2>5. Len(aliveSeq[r]) = step
    BY <1>1, <2>3
  <2>6. cache[r].batch = b /\ cache[r].tokens = f
    BY <2>3
  <2> QED
    BY <2>1, <2>2, <2>3, <2>4, <2>5, <2>6, Zenon DEF ids, Seen
<1>14. ASSUME NEW r \in RowNumbers, topkScores[r] > Penalised
       PROVE  topkScores[r] = ModelScore(SentenceAt(r), aliveSeq[r])
  <2>1. topkScores[r] = 0 /\ aliveSeq[r] = <<>>
    BY <1>10, <1>14, Sizes
  <2>2. PICK forced \in Nat : forced = Len(options.prefixes[SentenceAt(r)])
    BY <1>5, <1>9
  <2>3. PICK t \in Seq(Tokens) : t = <<>> /\ Len(t) <= forced
    <3>1. <<>> \in Seq(Tokens) /\ Len(<<>>) <= forced
      BY <2>2
    <3> QED
      BY <3>1
  <2>4. \A m, s : TextScore(m, s, forced, t) = 0
    BY <2>3, TextScoreOfForced
  <2> QED
    BY <2>1, <2>2, <2>3, <2>4, Zenon DEF ModelScore
<1>15. StepsAreLeft
  <2>1. \A i \in Positions : batchOffset[i] \in Batch
    BY <1>4 DEF Positions
  <2> QED
    BY <1>1, <1>2, <1>5, <2>1 DEF StepsAreLeft, PrefixLength, Prefix
<1> QED
  BY <1>1, <1>12, <1>13, <1>14, <1>15, Zenon DEF IInv, GoesOn, RowsFollow, ScoresFollow

LEMMA SearchSteps ==
  ASSUME IInv, [StopSearch \/ ContinueSearch]_vars
  PROVE  IInv'
<1>1. CASE StopSearch
  <2>1. searching
    BY <1>1 DEF StopSearch
  <2>2. GoesOn
    BY <2>1 DEF IInv
  <2> QED
    BY <1>1, <2>2, StopStep DEF IInv
<1>2. CASE ContinueSearch
  <2>1. searching
    BY <1>2 DEF ContinueSearch
  <2>2. GoesOn
    BY <2>1 DEF IInv
  <2> QED
    BY <1>2, <2>2, ContinueStep DEF IInv
<1>3. CASE UNCHANGED vars
  <2>1. Shape => Shape'
    BY <1>3 DEF vars, Shape, Batch, RowNumbers, PerSentence, IsExpanded
  <2>2. RowsFollow => RowsFollow'
    BY <1>3 DEF vars, RowsFollow, RowNumbers, PerSentence, IsExpanded, SentenceAt, Position
  <2>3. ScoresFollow => ScoresFollow'
    BY <1>3 DEF vars, ScoresFollow, RowNumbers, PerSentence, IsExpanded, SentenceAt, Position,
                ModelScore
  <2>4. StepsAreLeft => StepsAreLeft'
    BY <1>3 DEF vars, StepsAreLeft, Positions, PrefixLength, Prefix
  <2>5. StateFollowsSequences => StateFollowsSequences'
    BY <1>3 DEF vars, StateFollowsSequences, IsExpanded, ModelScore
  <2>6. searching' = searching
    BY <1>3 DEF vars
  <2> QED
    BY <2>1, <2>2, <2>3, <2>4, <2>5, <2>6 DEF IInv, GoesOn
<1> QED
  BY <1>1, <1>2, <1>3

LEMMA SearchFollows == IInv => StateFollowsSequences
BY GoesOnImplies DEF IInv

(* A search for the words after a prefix is a search like the others.      *)
LEMMA ExpansionIsSearch ==
  ASSUME NEW r \in AllRequests
  PROVE  /\ IsSearch(Expansion(r))
         /\ DOMAIN Expansion(r).prefixes = {1}
<1> DEFINE start == StartTokens(r)
<1>1. r.prompt \in Seq(Tokens) /\ r.prompt # <<>> /\ r.maxLength \in Nat \ {0} /\ IsSearch(r.search)
  BY AlternativesAssumption
<1>2. start \in Seq(Tokens) /\ start # <<>>
  <2>1. PICK l \in Nat \ {0}, m \in Nat : l = Len(r.prompt) /\ m = r.maxLength + 1 /\ m > 0
    BY <1>1
  <2>2. Min({l, m}) \in {l, m} /\ Min({l, m}) <= l
    <3>1. \E x \in {l, m} : \A y \in {l, m} : x <= y
      <4>1. CASE l <= m
        BY <4>1
      <4>2. CASE m <= l
        BY <4>2
      <4> QED
        BY <4>1, <4>2
    <3>2. Min({l, m}) \in {l, m} /\ \A y \in {l, m} : Min({l, m}) <= y
      BY <3>1 DEF Min
    <3> QED
      BY <3>2
  <2>3. Min({Len(r.prompt), r.maxLength + 1}) \in 1 .. Len(r.prompt)
    <3>1. Min({l, m}) \in 1 .. l
      BY <2>1, <2>2
    <3> QED
      BY <2>1, <3>1, Zenon
  <2>4. PICK k \in 1 .. Len(r.prompt) : start = SubSeq(r.prompt, 1, k)
    BY <2>3 DEF StartTokens
  <2> QED
    BY <1>1, <2>4
<1> HIDE DEF start
<1>3. Last(start) \in Tokens /\ Front(start) \in Seq(Tokens)
  BY <1>2 DEF Last, Front
<1>4. PICK l \in Tokens, f \in Seq(Tokens) : l = Last(start) /\ f = Front(start)
  BY <1>3
<1>5. Expansion(r) = [r.search EXCEPT !.maxLength = 1, !.minLength = 1, !.lengthPenalty = 0,
                        !.numHypotheses = BeamSize, !.maxCandidates = BeamSize,
                        !.prefixes = <<<<>>>>, !.startIds = <<l>>, !.forwarded = <<f>>]
  BY <1>4 DEF Expansion, start
<1>6. /\ <<<<>>>> \in Seq(Seq(Tokens)) /\ <<l>> \in Seq(Tokens) /\ <<f>> \in Seq(Seq(Tokens))
      /\ Len(<<<<>>>>) = 1 /\ Len(<<l>>) = 1 /\ Len(<<f>>) = 1 /\ DOMAIN <<<<>>>> = {1}
  OBVIOUS
<1>7. PICK p \in Seq(Seq(Tokens)), i \in Seq(Tokens), w \in Seq(Seq(Tokens)) :
        /\ p = <<<<>>>> /\ i = <<l>> /\ w = <<f>>
        /\ Len(p) = 1 /\ Len(i) = 1 /\ Len(w) = 1 /\ DOMAIN p = {1}
  BY <1>6
<1>8. PICK o : o = Expansion(r)
  OBVIOUS
<1>9. o = [r.search EXCEPT !.maxLength = 1, !.minLength = 1, !.lengthPenalty = 0,
             !.numHypotheses = BeamSize, !.maxCandidates = BeamSize,
             !.prefixes = p, !.startIds = i, !.forwarded = w]
  BY <1>5, <1>7, <1>8, Zenon
<1>10. /\ o \in [maxLength : Nat \ {0}, minLength : Nat, lengthPenalty : {0, 1},
                numHypotheses : Nat \ {0}, maxCandidates : Nat,
                returnPrefix : BOOLEAN, includeEos : BOOLEAN, endIds : SUBSET Tokens,
                prefixes : Seq(Seq(Tokens)), startIds : Seq(Tokens),
                forwarded : Seq(Seq(Tokens)),
                expandAfterFirst : BOOLEAN, firstWins : BOOLEAN]
       /\ o.maxLength = 1 /\ o.minLength = 1
       /\ o.numHypotheses = BeamSize /\ o.maxCandidates = BeamSize
       /\ o.prefixes = p /\ o.startIds = i /\ o.forwarded = w
       /\ o.expandAfterFirst = r.search.expandAfterFirst
  <2>1. PICK q : q = r.search
    OBVIOUS
  <2>2. q \in [maxLength : Nat \ {0}, minLength : Nat, lengthPenalty : {0, 1},
               numHypotheses : Nat \ {0}, maxCandidates : Nat,
               returnPrefix : BOOLEAN, includeEos : BOOLEAN, endIds : SUBSET Tokens,
               prefixes : Seq(Seq(Tokens)), startIds : Seq(Tokens),
               forwarded : Seq(Seq(Tokens)),
               expandAfterFirst : BOOLEAN, firstWins : BOOLEAN]
    BY <1>1, <2>1 DEF IsSearch
  <2>3. o = [maxLength |-> 1, minLength |-> 1, lengthPenalty |-> 0,
             numHypotheses |-> BeamSize, maxCandidates |-> BeamSize,
             returnPrefix |-> q.returnPrefix, includeEos |-> q.includeEos,
             endIds |-> q.endIds, prefixes |-> p, startIds |-> i, forwarded |-> w,
             expandAfterFirst |-> q.expandAfterFirst, firstWins |-> q.firstWins]
    BY <1>9, <2>1, <2>2
  <2>4. /\ q.returnPrefix \in BOOLEAN /\ q.includeEos \in BOOLEAN /\ q.endIds \in SUBSET Tokens
        /\ q.expandAfterFirst \in BOOLEAN /\ q.firstWins \in BOOLEAN
    BY <2>2
  <2> QED
    BY <1>7, <2>1, <2>3, <2>4, Sizes
<1>11. IsSearch(o)
  <2>1. o.minLength <= o.maxLength /\ o.numHypotheses <= o.maxCandidates
    BY <1>10, Sizes
  <2>2. o.expandAfterFirst => NumCandidates <= VocabularySize
    BY <1>1, <1>10 DEF IsSearch
  <2> QED
    BY <1>7, <1>10, <2>1, <2>2 DEF IsSearch
<1> QED
  BY <1>7, <1>8, <1>10, <1>11

-----------------------------------------------------------------------------
(* After every step of a search the decoder has seen, for each row, the    *)
(* tokens of the row that it now continues, for the sentence at its        *)
(* position, and the scores are those of these tokens: the gathers of the  *)
(* state, of the finished sentences and of the alive sequences in          *)
(* BeamSearch::search agree, in all their combinations.                    *)
THEOREM StateFollows == Spec => []StateFollowsSequences
<1>1. Init => IInv
  <2> SUFFICES ASSUME Init PROVE IInv
    OBVIOUS
  <2>1. IsSearch(options) /\ \A m \in Models : Batch \subseteq DOMAIN m
    BY BeamSearchAssumption DEF Init, Batch
  <2>2. InitSearch
    BY DEF Init
  <2> QED
    BY <2>1, <2>2, SearchStarts
<1>2. IInv /\ [Next]_vars => IInv'
  BY SearchSteps DEF Next, Terminated
<1> QED
  BY <1>1, <1>2, SearchFollows, PTL DEF Spec

LEMMA StartsInAlternatives == InitAll => IInv
<1> SUFFICES ASSUME InitAll PROVE IInv
  OBVIOUS
<1>1. InitSearch
  BY DEF InitAll
<1>2. CASE InitAlternatives
  <2>1. request \in AllRequests /\ options = Expansion(request)
    BY <1>2 DEF InitAlternatives
  <2>2. IsSearch(options) /\ Batch = {1}
    BY <2>1, ExpansionIsSearch DEF Batch
  <2>3. \A m \in Models : 1 \in DOMAIN m
    BY <2>1, AlternativesAssumption
  <2> QED
    BY <1>1, <2>2, <2>3, SearchStarts
<1>3. CASE options \in Options
  <2>1. IsSearch(options) /\ \A m \in Models : Batch \subseteq DOMAIN m
    BY <1>3, BeamSearchAssumption DEF Batch
  <2> QED
    BY <1>1, <2>1, SearchStarts
<1> QED
  BY <1>2, <1>3 DEF InitAll

(* The same of the search for the words that may follow a prefix, which    *)
(* decode_alternatives runs on a state that has seen the prefix.           *)
THEOREM StateFollowsInAlternatives == SpecAll => []StateFollowsSequences
<1>1. InitAll => IInv
  BY StartsInAlternatives
<1>2. IInv /\ [NextAll]_allVars => IInv'
  <2> SUFFICES ASSUME IInv, [NextAll]_allVars PROVE IInv'
    OBVIOUS
  <2>1. [StopSearch \/ ContinueSearch]_vars
    BY DEF NextAll, allVars, Search, KeepAlternatives, ContinueAlternatives, Return
  <2> QED
    BY <2>1, SearchSteps
<1> QED
  BY <1>1, <1>2, SearchFollows, PTL DEF SpecAll

-----------------------------------------------------------------------------
(* Scores decrease.                                                        *)

LEMMA PlusIsLess ==
  ASSUME NEW a \in Int, NEW b \in Int, b < 0
  PROVE  Plus(a, b) <= a
<1>1. PICK c \in Int : c = a + b /\ c < a
  OBVIOUS
<1> QED
  BY <1>1 DEF Plus

LEMMA ScoreIsLess ==
  ASSUME Shape, NEW i \in Positions, NEW k \in RowBeams, NEW t \in Tokens
  PROVE  Score(i, k, t) <= topkScores[Row(i, k)]
<1> DEFINE r == Row(i, k)
           logProb == IF r \in MinLengthRows /\ t \in options.endIds
                        THEN Lowest ELSE model[memory[i]][topkIds[r]][t]
<1>1. r \in RowNumbers
  BY RowsOfShape
<1>2. topkScores[r] \in Int /\ topkIds[r] \in Tokens
  BY <1>1 DEF Shape
<1>3. memory[i] \in DOMAIN model
  BY DEF Shape, Positions
<1>4. model[memory[i]][topkIds[r]][t] \in Int /\ model[memory[i]][topkIds[r]][t] < 0
  BY <1>2, <1>3, BeamSearchAssumption DEF Shape
<1>5. logProb \in Int /\ logProb < 0
  BY <1>4, Sizes
<1>6. Score(i, k, t) = Plus(topkScores[r], logProb)
  BY DEF Score
<1> HIDE DEF logProb
<1> QED
  BY <1>2, <1>5, <1>6, PlusIsLess

(* Every beam and token has a cell.                                        *)
LEMMA CellExists ==
  ASSUME Shape, NEW i \in Positions, NEW k \in RowBeams, NEW t \in Tokens
  PROVE  \E c \in Cells(i) : c.score = Score(i, k, t)
<1>1. PICK v \in Nat \ {0}, m \in Nat \ {0} : v = VocabularySize /\ m = PerSentence
  BY Sizes, RowsOfShape
<1>2. k \in 1 .. m
  BY <1>1, RowsOfShape
<1>3. PICK u \in 1 .. v : u = t + 1 /\ u - 1 = t
  <2>1. t \in 0 .. v - 1
    BY <1>1 DEF Tokens
  <2>2. t + 1 \in 1 .. v /\ (t + 1) - 1 = t
    BY <2>1
  <2> QED
    BY <2>2
<1>4. PICK n \in Nat \ {0} : n = (k - 1) * v + u /\ ((n - 1) \div v) + 1 = k /\ ((n - 1) % v) + 1 = u
  <2>1. k \in Nat \ {0}
    BY <1>2
  <2> QED
    BY <2>1, RowsFlat
<1>5. (n - 1) % v = t
  <2>1. PICK x \in Int : x = (n - 1) % v
    <3>1. (n - 1) % v \in Int
      OBVIOUS
    <3> QED
      BY <3>1
  <2> QED
    BY <1>3, <1>4, <2>1
<1>6. n \in CellNumbers
  <2>1. (k - 1) * v + u \in 1 .. v * m
    BY <1>2, RowsFit
  <2> QED
    BY <1>1, <1>4, <2>1 DEF CellNumbers
<1>7. CellAt(i, n) = [beam |-> k, id |-> t, score |-> Score(i, k, t), flat |-> n]
  BY <1>1, <1>4, <1>5 DEF CellAt
<1>8. CellAt(i, n) \in Cells(i)
  BY <1>6, CellsOfShape
<1> QED
  BY <1>7, <1>8

LEMMA TopIsBest ==
  ASSUME Shape, NEW i \in Positions, NEW c \in Cells(i)
  PROVE  TopK(i)[1].score >= c.score
<1>1. 1 \in 1 .. NumCandidates
  BY Sizes
<1>2. PICK x \in Cells(i) : x = TopK(i)[1] /\ Cardinality({d \in Cells(i) : IsBetter(d, x)}) = 1 - 1
  BY <1>1, BestCells
<1>3. PICK S : S = {d \in Cells(i) : IsBetter(d, x)}
  OBVIOUS
<1>4. IsFiniteSet(S) /\ Cardinality(S) = 0
  <2>1. S \in SUBSET Cells(i)
    BY <1>3
  <2> QED
    BY <1>2, <1>3, <2>1, CellsAreMany, FS_Subset
<1>5. S = {}
  BY <1>4, FS_EmptySet
<1>6. ~IsBetter(c, x)
  BY <1>3, <1>5
<1>7. \A d \in Cells(i) : d.score \in Int
  BY CellsOfShape DEF IsCell
<1>8. ~(c.score > x.score)
  BY <1>6 DEF IsBetter
<1> QED
  BY <1>2, <1>7, <1>8

(* When the search has come to its prefix, the constraint only penalises.  *)
LEMMA ConstrainedScores ==
  ASSUME Shape, NEW i \in Positions, NEW n \in 1 .. NumCandidates, step >= PrefixLength(i)
  PROVE  LET c == TopK(i)[n]
         IN  /\ Candidates(i)[n].score \in Int
             /\ \/ Candidates(i)[n].score = c.score
                \/ step = PrefixLength(i) /\ n > 1 /\ Candidates(i)[n].score = Penalised
<1>1. PICK c : c = TopK(i)[n]
  OBVIOUS
<1>2. IsCell(i, c)
  BY <1>1, BestCells
<1>3. PICK d : d = Constrained(i, c, n)
  OBVIOUS
<1>4. Candidates(i)[n].score = d.score
  BY <1>1, <1>3 DEF Candidates
<1>5. batchOffset[i] \in Batch /\ Prefix(i) \in Seq(Tokens) /\ step \in Nat
  <2>1. batchOffset[i] \in Batch /\ step \in Nat
    BY DEF Shape, Positions
  <2> QED
    BY <2>1, ShapeTypes DEF Prefix
<1>6. PrefixLength(i) \in Nat /\ ~(step < PrefixLength(i))
  <2>1. PrefixLength(i) \in Nat
    BY <1>5 DEF PrefixLength
  <2> QED
    BY <1>5, <2>1
<1>7. c = [beam |-> c.beam, id |-> c.id, score |-> c.score, flat |-> c.flat] /\ c.score \in Int
  BY <1>2 DEF IsCell
<1>8. CASE HasPrefix /\ step = PrefixLength(i) /\ n > 1 /\ c.id \in options.endIds
  <2>1. d = [c EXCEPT !.beam = 1, !.id = 0, !.score = Penalised]
    BY <1>3, <1>6, <1>8, Zenon DEF Constrained
  <2>2. d.score = Penalised
    BY <1>7, <2>1
  <2> QED
    BY <1>4, <1>8, <2>2, Sizes
<1>9. CASE ~(HasPrefix /\ step = PrefixLength(i) /\ n > 1 /\ c.id \in options.endIds)
  <2>1. d = c
    BY <1>3, <1>6, <1>9, Zenon DEF Constrained
  <2> QED
    BY <1>1, <1>4, <1>7, <2>1
<1> QED
  BY <1>8, <1>9

(* After the prefix no candidate is better than the beam that it extends.  *)
LEMMA CandidatesAreLess ==
  ASSUME Shape, NEW i \in Positions, step > PrefixLength(i), PrefixLength(i) \in Nat,
         NEW n \in 1 .. NumCandidates
  PROVE  \E k \in RowBeams : /\ Candidates(i)[n].score \in Int
                             /\ Candidates(i)[n].score <= topkScores[Row(i, k)]
<1>1. step \in Nat /\ step >= PrefixLength(i) /\ step # PrefixLength(i)
  BY DEF Shape
<1>2. PICK c : c = TopK(i)[n] /\ IsCell(i, c)
  BY BestCells
<1>3. Candidates(i)[n].score \in Int /\ Candidates(i)[n].score = c.score
  BY <1>1, <1>2, ConstrainedScores
<1>4. c.beam \in RowBeams /\ c.id \in Tokens /\ c.score = Score(i, c.beam, c.id)
  BY <1>2 DEF IsCell
<1> QED
  BY <1>3, <1>4, ScoreIsLess

(* Log probabilities that no float addition absorbs, and a word to go on.  *)
ModelsAreFinite == \A m \in Models : \A b \in DOMAIN m, t, u \in Tokens : m[b][t][u] > Penalised
WordsAreLeft(o) == o.endIds # Tokens

(* From the end of the prefix on the first candidate is the best one.      *)
LEMMA FirstIsBest ==
  ASSUME Shape, ModelsAreFinite, WordsAreLeft(options), NEW i \in Positions,
         step >= PrefixLength(i), step <= PrefixLength(i) => topkScores[Row(i, 1)] = 0,
         NEW n \in 1 .. NumCandidates
  PROVE  /\ Candidates(i)[1].score \in Int /\ Candidates(i)[n].score \in Int
         /\ Candidates(i)[1].score >= Candidates(i)[n].score
<1>1. 1 \in 1 .. NumCandidates
  BY Sizes
<1>2. PICK x \in Int : x = Candidates(i)[1].score /\ x = TopK(i)[1].score
  BY <1>1, ConstrainedScores
<1>3. PICK y \in Int : y = Candidates(i)[n].score
                         /\ (y = TopK(i)[n].score \/ (step = PrefixLength(i) /\ y = Penalised))
  <2>1. PICK y : y = Candidates(i)[n].score
    OBVIOUS
  <2>2. y \in Int /\ (y = TopK(i)[n].score \/ (step = PrefixLength(i) /\ y = Penalised))
    BY <2>1, ConstrainedScores
  <2> QED
    BY <2>1, <2>2
<1>4. CASE y = TopK(i)[n].score
  <2>1. TopK(i)[n] \in Cells(i)
    BY BestCells
  <2> QED
    BY <1>2, <1>3, <1>4, <2>1, TopIsBest
<1>5. CASE step = PrefixLength(i) /\ y = Penalised
  <2>1. topkScores[Row(i, 1)] = 0 /\ 1 \in RowBeams
    <3>1. step \in Nat
      BY DEF Shape
    <3>2. step <= PrefixLength(i)
      BY <1>5, <3>1
    <3> QED
      BY <3>2, RowsOfShape
  <2>2. PICK t \in Tokens : t \notin options.endIds
    <3>1. options.endIds \subseteq Tokens
      BY DEF Shape, IsSearch
    <3> QED
      BY <3>1 DEF WordsAreLeft
  <2>3. memory[i] \in DOMAIN model /\ topkIds[Row(i, 1)] \in Tokens
    <3>1. Row(i, 1) \in RowNumbers
      BY <2>1, RowsOfShape
    <3> QED
      BY <3>1 DEF Shape, Positions
  <2>4. PICK z \in Int : z = model[memory[i]][topkIds[Row(i, 1)]][t] /\ z > Penalised
    <3>1. PICK b, u : b = memory[i] /\ u = topkIds[Row(i, 1)]
      OBVIOUS
    <3>2. model \in Models /\ b \in DOMAIN model /\ u \in Tokens
      BY <2>3, <3>1 DEF Shape
    <3>3. model[b][u][t] \in Int
      BY <3>2, BeamSearchAssumption
    <3>4. model[b][u][t] > Penalised
      BY <3>2 DEF ModelsAreFinite
    <3> QED
      BY <3>1, <3>3, <3>4
  <2>5. Score(i, 1, t) = Plus(0, z)
    BY <2>1, <2>2, <2>4, Zenon DEF Score
  <2>6. Plus(0, z) = z
    BY <2>4 DEF Plus, Penalised
  <2>7. PICK c \in Cells(i) : c.score = z
    BY <2>1, <2>5, <2>6, CellExists
  <2>8. x >= z
    BY <1>2, <2>7, TopIsBest
  <2> QED
    BY <1>2, <1>3, <1>5, <2>4, <2>8, Sizes
<1> QED
  BY <1>3, <1>4, <1>5

-----------------------------------------------------------------------------
(* Hypotheses and their scores.                                            *)

IsScored(s) == \E A : s \in Seq(A) /\ \A a \in A : a.score \in Int

(* Some hypothesis of s is at least as good as x.                          *)
HasScore(s, x) == \E n \in 1 .. Len(s) : s[n].score >= x

(* The hypotheses of the beams that end are added, each once.              *)
AreParts(all, old, length, i, cands, order, count) ==
  /\ length \in Nat /\ count \in Nat
  /\ IsScored(all) /\ Len(all) = length + count /\ DOMAIN all = 1 .. length + count
  /\ Len(old) = length /\ DOMAIN old = 1 .. length
  /\ order \in [1 .. count -> Ending(i, cands)]
  /\ \A k \in Ending(i, cands) : \E n \in 1 .. count : order[n] = k
  /\ \A m, n \in 1 .. count : order[m] = order[n] => m = n
  /\ \A n \in 1 .. length : all[n] = old[n]
  /\ \A n \in 1 .. count : all[length + n] = Hypothesis(i, cands[order[n]])

LEMMA EndingAre ==
  ASSUME NEW i, NEW cands
  PROVE  /\ Ending(i, cands) \subseteq 1 .. NumCandidates /\ Ending(i, cands) \in SUBSET Int
         /\ IsFiniteSet(Ending(i, cands))
<1>1. PICK E : E = Ending(i, cands)
  OBVIOUS
<1>2. PICK m \in Nat, size \in Nat : m = NumCandidates /\ size = BeamSize /\ size <= m
  BY Sizes
<1>3. E \subseteq 1 .. size
  BY <1>1, <1>2 DEF Ending, Beams
<1>4. IsFiniteSet(1 .. size)
  BY <1>2, FS_Interval
<1>5. IsFiniteSet(E)
  BY <1>3, <1>4, FS_Subset
<1>6. \A k \in E : k \in 1 .. m /\ k \in Int
  BY <1>2, <1>3
<1> QED
  BY <1>1, <1>2, <1>5, <1>6

LEMMA RegisteredParts ==
  ASSUME NEW i, NEW cands, IsScored(results[batchOffset[i]]),
         \A n \in 1 .. NumCandidates : cands[n].score \in Int
  PROVE  \E length, order, count :
           AreParts(Registered(i, cands), results[batchOffset[i]], length, i, cands, order, count)
<1>1. PICK A : results[batchOffset[i]] \in Seq(A) /\ \A a \in A : a.score \in Int
  BY DEF IsScored
<1>2. PICK E, C : E = Ending(i, cands) /\ C = Cardinality(E)
  OBVIOUS
<1>3. E \subseteq 1 .. NumCandidates /\ E \in SUBSET Int /\ IsFiniteSet(E)
  BY <1>2, EndingAre
<1>4. PICK order : order = Ascending(E)
  OBVIOUS
<1>5. /\ C \in Nat /\ order \in [1 .. C -> E]
      /\ \A k \in E : \E n \in 1 .. C : order[n] = k
      /\ \A m, n \in 1 .. C : order[m] = order[n] => m = n
  BY <1>2, <1>3, <1>4, AscendingIs
<1>6. PICK old \in Seq(A) : old = results[batchOffset[i]]
  BY <1>1
<1>7. PICK new : new = [n \in 1 .. C |-> Hypothesis(i, cands[order[n]])]
  OBVIOUS
<1>8. Registered(i, cands) = old \o new
  BY <1>2, <1>4, <1>6, <1>7 DEF Registered
<1>9. PICK B : B = A \cup {Hypothesis(i, cands[k]) : k \in E}
  OBVIOUS
<1>10. \A k \in E : Hypothesis(i, cands[k]).score = cands[k].score
  BY DEF Hypothesis
<1>11. \A b \in B : b.score \in Int
  BY <1>1, <1>3, <1>9, <1>10
<1>12. old \in Seq(B) /\ new \in Seq(B) /\ Len(new) = C
  <2>1. \A n \in 1 .. C : Hypothesis(i, cands[order[n]]) \in B
    BY <1>5, <1>9
  <2>2. A \subseteq B
    BY <1>9
  <2> QED
    BY <1>5, <1>7, <2>1, <2>2
<1>13. PICK length \in Nat : length = Len(old) /\ DOMAIN old = 1 .. length
  OBVIOUS
<1>14. PICK s \in Seq(B), t \in Seq(B) : s = old /\ t = new /\ Len(s) = length /\ Len(t) = C
  BY <1>12, <1>13
<1>15. PICK all : all = s \o t
  OBVIOUS
<1>16. all \in Seq(B) /\ Len(all) = length + C /\ DOMAIN all = 1 .. length + C
  <2>1. s \o t \in Seq(B) /\ Len(s \o t) = Len(s) + Len(t) /\ DOMAIN (s \o t) = 1 .. Len(s) + Len(t)
    OBVIOUS
  <2> QED
    BY <1>14, <1>15, <2>1, Zenon
<1>17. \A n \in 1 .. length : all[n] = old[n]
  BY <1>14, <1>15
<1>18. \A n \in 1 .. C : all[length + n] = Hypothesis(i, cands[order[n]])
  <2>1. \A n \in 1 .. Len(t) : (s \o t)[Len(s) + n] = t[n]
    OBVIOUS
  <2>2. \A n \in 1 .. C : all[length + n] = new[n]
    BY <1>14, <1>15, <2>1, Zenon
  <2> QED
    BY <1>7, <2>2
<1>19. IsScored(all)
  BY <1>11, <1>16 DEF IsScored
<1>20. all = Registered(i, cands)
  BY <1>8, <1>14, <1>15
<1>21. AreParts(Registered(i, cands), results[batchOffset[i]], length, i, cands, order, C)
  BY <1>2, <1>5, <1>6, <1>13, <1>16, <1>17, <1>18, <1>19, <1>20 DEF AreParts
<1> QED
  BY <1>21

LEMMA RegisteredIs ==
  ASSUME NEW i, NEW cands, IsScored(results[batchOffset[i]]),
         \A n \in 1 .. NumCandidates : cands[n].score \in Int
  PROVE  /\ IsScored(Registered(i, cands))
         /\ \A k \in Ending(i, cands) : HasScore(Registered(i, cands), cands[k].score)
         /\ \A x : HasScore(results[batchOffset[i]], x) => HasScore(Registered(i, cands), x)
<1>1. PICK old, all : old = results[batchOffset[i]] /\ all = Registered(i, cands)
  OBVIOUS
<1>2. PICK length, order, count : AreParts(all, old, length, i, cands, order, count)
  BY <1>1, RegisteredParts
<1>3. length \in Nat /\ count \in Nat /\ Len(all) = length + count /\ Len(old) = length
  BY <1>2 DEF AreParts
<1>4. ASSUME NEW k \in Ending(i, cands) PROVE HasScore(all, cands[k].score)
  <2>1. PICK n \in 1 .. count : order[n] = k
    BY <1>2 DEF AreParts
  <2>2. all[length + n] = Hypothesis(i, cands[k])
    BY <1>2, <2>1 DEF AreParts
  <2>3. all[length + n].score = cands[k].score
    BY <2>2 DEF Hypothesis
  <2>4. cands[k].score \in Int
    BY EndingAre
  <2>5. length + n \in 1 .. Len(all)
    BY <1>3
  <2>6. \E m \in 1 .. Len(all) : all[m].score >= cands[k].score
    BY <2>3, <2>4, <2>5
  <2> QED
    BY <2>6 DEF HasScore
<1>5. ASSUME NEW x, HasScore(old, x) PROVE HasScore(all, x)
  <2>1. PICK n \in 1 .. length : old[n].score >= x
    BY <1>3, <1>5 DEF HasScore
  <2>2. n \in 1 .. Len(all) /\ all[n] = old[n]
    <3>1. n \in 1 .. Len(all)
      BY <1>3
    <3> QED
      BY <1>2, <3>1 DEF AreParts
  <2> QED
    BY <2>1, <2>2 DEF HasScore
<1> QED
  BY <1>1, <1>2, <1>4, <1>5 DEF AreParts

(* Without a length penalty the first result has the best score.           *)
LEMMA BestFirst ==
  ASSUME NEW h, IsScored(h), NEW num \in Nat \ {0}, NEW x \in Int, HasScore(h, x)
  PROVE  Finalize(h, num, 0)[1].score >= x
<1> DEFINE places == DOMAIN h
           Before(n) == {m \in places : Precedes(h, m, n, 0)}
           before == {p \in places \X places : Precedes(h, p[1], p[2], 0)}
<1>1. PICK A : h \in Seq(A) /\ \A a \in A : a.score \in Int
  BY DEF IsScored
<1>2. PICK length \in Nat : length = Len(h) /\ places = 1 .. length
  BY <1>1
<1>3. \A n \in places : n \in Int /\ h[n].score \in Int
  BY <1>1, <1>2
<1>4. \A m, n \in places :
        Precedes(h, m, n, 0) <=> h[m].score > h[n].score \/ (m < n /\ ~(h[n].score > h[m].score))
  BY DEF Precedes, BetterScore
<1>5. \A m, n \in places : <<m, n>> \in before <=> Precedes(h, m, n, 0)
  OBVIOUS
<1>6. IsFiniteSet(places) /\ Cardinality(places) = length
  <2>1. 1 \in Int /\ length \in Int /\ (IF 1 > length THEN 0 ELSE length - 1 + 1) = length
    BY <1>2
  <2> QED
    BY <1>2, <2>1, FS_Interval
<1>7. PICK best \in 1 .. length : h[best].score >= x
  BY <1>2 DEF HasScore
<1>8. \A n \in places : Lower(places, before, n) = Before(n)
  BY <1>5 DEF Lower
<1> HIDE DEF places, before
<1>9. \E n \in places : Cardinality(Lower(places, before, n)) = 0
  <2>1. \A m \in places : <<m, m>> \notin before
    BY <1>3, <1>4, <1>5
  <2>2. \A m, n \in places : m # n => <<m, n>> \in before \/ <<n, m>> \in before
    BY <1>3, <1>4, <1>5
  <2>3. \A l, m, n \in places : <<l, m>> \in before /\ <<m, n>> \in before => <<l, n>> \in before
    BY <1>3, <1>4, <1>5
  <2>4. \A n \in 0 .. Cardinality(places) - 1 :
          \E m \in places : Cardinality(Lower(places, before, m)) = n
    BY <1>6, <2>1, <2>2, <2>3, Ranks
  <2>5. 0 \in 0 .. Cardinality(places) - 1
    BY <1>6, <1>7
  <2> QED
    BY <2>4, <2>5
<1>10. PICK first : first = CHOOSE n \in places : Cardinality(Before(n)) = 1 - 1
  OBVIOUS
<1>11. first \in places /\ Cardinality(Before(first)) = 0
  <2>1. \E n \in places : Cardinality(Before(n)) = 1 - 1
    BY <1>8, <1>9
  <2>2. first \in places /\ Cardinality(Before(first)) = 1 - 1
    BY <1>10, <2>1, Zenon
  <2> QED
    BY <2>2
<1>12. Before(first) = {}
  <2>1. Before(first) \in SUBSET places
    OBVIOUS
  <2> QED
    BY <1>6, <1>11, <2>1, FS_Subset, FS_EmptySet
<1>13. h[first].score >= h[best].score
  <2>1. best \in places
    BY <1>2
  <2>2. ~Precedes(h, best, first, 0)
    BY <1>12, <2>1
  <2> QED
    BY <1>3, <1>4, <1>11, <2>1, <2>2
<1>14. Ranking(h, 0)[1] = first
  <2>1. 1 \in places
    BY <1>2, <1>7
  <2> QED
    BY <1>10, <2>1 DEF Ranking, places
<1>15. 1 \in 1 .. Min({num, Len(h)})
  <2>1. length \in Nat \ {0}
    BY <1>7
  <2>2. \E y \in {num, length} : \A z \in {num, length} : y <= z
    <3>1. CASE num <= length
      BY <3>1
    <3>2. CASE ~(num <= length)
      BY <3>2
    <3> QED
      BY <3>1, <3>2
  <2>3. Min({num, length}) \in {num, length}
    BY <2>2 DEF Min
  <2> QED
    BY <1>2, <2>1, <2>3
<1>16. Finalize(h, num, 0)[1] = h[first]
  BY <1>14, <1>15 DEF Finalize
<1> QED
  BY <1>2, <1>3, <1>7, <1>11, <1>13, <1>16

-----------------------------------------------------------------------------
(* What makes it safe to stop early.                                       *)

OffsetsDiffer ==
  \A i, j \in Positions : batchOffset[i] = batchOffset[j] => i = j

(* The sentences that the batch still has.                                 *)
Pending(i) ==
  /\ batchOffset[i] \notin finished
  /\ IsScored(results[batchOffset[i]])

SentencesInv == OffsetsDiffer /\ \A i \in Positions : Pending(i)

(* The results of a sentence cover its beams once its best beam has ended, *)
(* and no beam is better than the first one while the prefix is decoded.   *)
Covered(i) ==
  /\ step <= PrefixLength(i) => topkScores[Row(i, 1)] = 0 /\ ~topFinished[i]
  /\ topFinished[i] =>
       \A k \in RowBeams : HasScore(results[batchOffset[i]], topkScores[Row(i, k)])

EarlyInv == SentencesInv /\ \A i \in Positions : Covered(i)

LEMMA ScoresAreCovered ==
  ASSUME NEW s, IsScored(s), NEW x \in Int, NEW y \in Int, y <= x, HasScore(s, x)
  PROVE  HasScore(s, y)
<1>1. PICK n \in 1 .. Len(s) : s[n].score >= x
  BY DEF HasScore
<1>2. s[n].score \in Int
  BY DEF IsScored
<1> QED
  BY <1>1, <1>2 DEF HasScore

LEMMA LengthsOfShape ==
  ASSUME Shape, NEW i \in Positions
  PROVE  /\ batchOffset[i] \in Batch /\ Prefix(i) \in Seq(Tokens)
         /\ PrefixLength(i) \in Nat /\ step \in Nat
<1>1. batchOffset[i] \in Batch /\ step \in Nat
  BY DEF Shape, Positions
<1>2. Prefix(i) \in Seq(Tokens)
  BY <1>1, ShapeTypes DEF Prefix
<1> QED
  BY <1>1, <1>2 DEF PrefixLength

(* The hypotheses of a sentence whose best beam has ended cover all        *)
(* candidates of the step.                                                 *)
LEMMA CandidatesAreCovered ==
  ASSUME GoesOn, ModelsAreFinite, WordsAreLeft(options), NEW i \in Positions,
         Pending(i), Covered(i), ~IsLastStep(i), TopHasFinished(i, Candidates(i)), NEW n \in 1 .. NumCandidates
  PROVE  HasScore(Registered(i, Candidates(i)), Candidates(i)[n].score)
<1>1. Shape /\ RowsFollow /\ ScoresFollow
  BY DEF GoesOn
<1>2. \A m \in 1 .. NumCandidates : Candidates(i)[m].score \in Int
  BY <1>1, CandidatesFollow DEF IsCandidate
<1>3. PICK cands : cands = Candidates(i)
  OBVIOUS
<1>4. IsScored(results[batchOffset[i]])
  BY DEF Pending
<1>5. /\ IsScored(Registered(i, cands))
      /\ \A k \in Ending(i, cands) : HasScore(Registered(i, cands), cands[k].score)
      /\ \A x : HasScore(results[batchOffset[i]], x) => HasScore(Registered(i, cands), x)
  BY <1>2, <1>3, <1>4, RegisteredIs
<1>6. PrefixLength(i) \in Nat /\ step \in Nat
  BY <1>1, LengthsOfShape
<1>7. CASE topFinished[i]
  <2>1. ~(step <= PrefixLength(i))
    BY <1>7 DEF Covered
  <2>2. step > PrefixLength(i)
    BY <1>6, <2>1
  <2>3. PICK k \in RowBeams : /\ Candidates(i)[n].score \in Int
                              /\ Candidates(i)[n].score <= topkScores[Row(i, k)]
    BY <1>1, <1>6, <2>2, CandidatesAreLess
  <2>4. PICK x : x = topkScores[Row(i, k)]
    OBVIOUS
  <2>5. x \in Int
    <3>1. Row(i, k) \in RowNumbers
      BY <1>1, RowsOfShape
    <3> QED
      BY <1>1, <2>4, <3>1 DEF Shape
  <2>6. HasScore(Registered(i, cands), x)
    BY <1>5, <1>7, <2>4 DEF Covered
  <2> QED
    BY <1>3, <1>5, <2>3, <2>4, <2>5, <2>6, ScoresAreCovered
<1>8. CASE 1 \in Ending(i, cands)
  <2>1. step >= PrefixLength(i)
    BY <1>8 DEF Ending
  <2>2. step <= PrefixLength(i) => topkScores[Row(i, 1)] = 0
    BY DEF Covered
  <2>3. /\ cands[1].score \in Int /\ cands[n].score \in Int
        /\ cands[1].score >= cands[n].score
    BY <1>1, <1>3, <2>1, <2>2, FirstIsBest
  <2>4. cands[n].score <= cands[1].score
    BY <2>3
  <2>5. HasScore(Registered(i, cands), cands[1].score)
    BY <1>5, <1>8
  <2> QED
    BY <1>3, <1>5, <2>3, <2>4, <2>5, ScoresAreCovered
<1> QED
  BY <1>3, <1>7, <1>8 DEF TopHasFinished

(* Before the end of the prefix nothing ends, and the first beam goes on.  *)
LEMMA PrefixGoesOn ==
  ASSUME Shape, NEW i \in Positions, step < PrefixLength(i), ~IsLastStep(i), ~topFinished[i]
  PROVE  LET cands == Candidates(i)
         IN  /\ ~TopHasFinished(i, cands)
             /\ NextBeam(i, cands, 1) = 1
             /\ cands[1].score = 0
<1>1. PICK cands : cands = Candidates(i)
  OBVIOUS
<1>2. PrefixLength(i) \in Nat /\ step \in Nat /\ Prefix(i) \in Seq(Tokens) /\ batchOffset[i] \in Batch
  BY LengthsOfShape
<1>3. ~(step >= PrefixLength(i))
  BY <1>2
<1>4. Ending(i, cands) = {}
  BY <1>3 DEF Ending
<1>5. ~TopHasFinished(i, cands) /\ NextBeam(i, cands, 1) = 1
  BY <1>4 DEF TopHasFinished, NextBeam
<1>6. HasPrefix
  <2>1. Prefix(i) # <<>>
    BY <1>2 DEF PrefixLength
  <2> QED
    BY <1>2, <2>1 DEF Prefix, HasPrefix
<1>7. 1 \in 1 .. NumCandidates
  BY Sizes
<1>8. PICK c : c = TopK(i)[1]
  OBVIOUS
<1>9. c = [beam |-> c.beam, id |-> c.id, score |-> c.score, flat |-> c.flat]
  BY <1>7, <1>8, BestCells DEF IsCell
<1>10. PICK d : d = Constrained(i, c, 1)
  OBVIOUS
<1>11. d = [c EXCEPT !.beam = 1, !.id = Prefix(i)[step + 1], !.score = 0]
  BY <1>6, <1>10, Zenon DEF Constrained
<1>12. d.score = 0
  BY <1>9, <1>11
<1>13. cands[1].score = d.score
  BY <1>1, <1>7, <1>8, <1>10 DEF Candidates
<1> QED
  BY <1>1, <1>5, <1>12, <1>13

(* The positions that go on are those that are not finished, each once.    *)
LEMMA KeptIs ==
  ASSUME NEW cands, Len(batchOffset) \in Nat
  PROVE  LET kept == NonFinished(cands)
         IN  /\ Len(kept) \in Nat /\ kept \in [1 .. Len(kept) -> Positions]
             /\ \A p \in 1 .. Len(kept) : ~IsFinished(kept[p], cands[kept[p]])
             /\ \A i \in Positions : ~IsFinished(i, cands[i]) => i \in Range(kept)
             /\ \A p, q \in 1 .. Len(kept) : kept[p] = kept[q] => p = q
<1> DEFINE S == {i \in Positions : ~IsFinished(i, cands[i])}
<1>1. S \in SUBSET Int /\ S \in SUBSET Positions
  BY DEF Positions
<1>2. IsFiniteSet(Positions)
  BY FS_Interval DEF Positions
<1>3. NonFinished(cands) = Ascending(S)
  BY DEF NonFinished
<1>4. /\ \A i \in S : ~IsFinished(i, cands[i])
      /\ \A i \in Positions : ~IsFinished(i, cands[i]) => i \in S
  OBVIOUS
<1> HIDE DEF S
<1>5. IsFiniteSet(S)
  BY <1>1, <1>2, FS_Subset
<1>6. PICK kept, C : kept = Ascending(S) /\ C = Cardinality(S)
  OBVIOUS
<1>7. /\ C \in Nat /\ kept \in [1 .. C -> S]
      /\ \A x \in S : \E n \in 1 .. C : kept[n] = x
      /\ \A m, n \in 1 .. C : kept[m] = kept[n] => m = n
  BY <1>1, <1>5, <1>6, AscendingIs
<1>8. Len(kept) = C /\ DOMAIN kept = 1 .. C
  BY <1>7
<1>9. \A x \in S : x \in Range(kept)
  BY <1>7, <1>8 DEF Range
<1> QED
  BY <1>1, <1>3, <1>4, <1>6, <1>7, <1>8, <1>9

(* What FinishSentences does with the sentence at a position.              *)
LEMMA SentenceAfterStep ==
  ASSUME Shape, OffsetsDiffer, NEW i \in Positions, Pending(i),
         NEW kept, kept = NonFinished(StepCandidates),
         FinishSentences(StepCandidates, kept)
  PROVE  LET b == batchOffset[i]
             cands == Candidates(i)
         IN  /\ results'[b] = IF IsFinished(i, cands)
                                THEN FinalizeResult(Registered(i, cands))
                                ELSE Registered(i, cands)
             /\ b \in finished' => IsFinished(i, cands)
<1>1. PICK b, cands : b = batchOffset[i] /\ cands = Candidates(i)
  OBVIOUS
<1>2. StepCandidates[i] = cands
  BY <1>1 DEF StepCandidates
<1>3. b \in Batch
  BY <1>1, LengthsOfShape
<1>4. {j \in Positions : batchOffset[j] = b} = {i}
  BY <1>1 DEF OffsetsDiffer
<1>5. results'[b] = ResultsAfter(StepCandidates)[b]
  BY DEF FinishSentences
<1>6. (CHOOSE j \in {i} : TRUE) = i
  OBVIOUS
<1>7. ResultsAfter(StepCandidates)[b] =
        CASE {i} = {} -> results[b]
          [] {i} # {} /\ IsFinished(i, StepCandidates[i]) ->
               FinalizeResult(Registered(i, StepCandidates[i]))
          [] OTHER -> Registered(i, StepCandidates[i])
  BY <1>3, <1>4, <1>6, Zenon DEF ResultsAfter
<1>8. results'[b] = IF IsFinished(i, cands)
                      THEN FinalizeResult(Registered(i, cands)) ELSE Registered(i, cands)
  <2>1. CASE IsFinished(i, cands)
    BY <1>2, <1>5, <1>7, <2>1
  <2>2. CASE ~IsFinished(i, cands)
    BY <1>2, <1>5, <1>7, <2>2
  <2> QED
    BY <2>1, <2>2
<1>9. ASSUME b \in finished' PROVE IsFinished(i, cands)
  <2>1. b \notin finished
    BY <1>1 DEF Pending
  <2>2. PICK j \in Positions \ Range(kept) : batchOffset[j] = b
    BY <1>9, <2>1 DEF FinishSentences
  <2>3. i \notin Range(kept)
    BY <1>1, <2>2 DEF OffsetsDiffer
  <2>4. Len(batchOffset) \in Nat
    BY DEF Shape
  <2> QED
    BY <1>2, <2>3, <2>4, KeptIs
<1> QED
  BY <1>1, <1>8, <1>9

(* What EarlyExitIsSafe says of a step.                                    *)
ExitsSafely(i) ==
  LET b == batchOffset[i]
  IN  b \in finished' /\ ~IsLastStep(i) /\ AllowEarlyExit =>
        \A n \in DOMAIN Candidates(i) :
          results'[b][1].score >= Candidates(i)[n].score

LEMMA StepExitsSafely ==
  ASSUME GoesOn, EarlyInv, ModelsAreFinite, WordsAreLeft(options),
         FinishSentences(StepCandidates, NonFinished(StepCandidates)),
         NEW i \in Positions
  PROVE  ExitsSafely(i)
<1> SUFFICES ASSUME batchOffset[i] \in finished', ~IsLastStep(i), AllowEarlyExit,
                    NEW n \in DOMAIN Candidates(i)
             PROVE  results'[batchOffset[i]][1].score >= Candidates(i)[n].score
  BY DEF ExitsSafely
<1>1. Shape /\ RowsFollow /\ ScoresFollow
  BY DEF GoesOn
<1>2. OffsetsDiffer /\ Pending(i) /\ Covered(i)
  BY DEF EarlyInv, SentencesInv
<1>3. n \in 1 .. NumCandidates
  BY DEF Candidates
<1>4. \A m \in 1 .. NumCandidates : Candidates(i)[m].score \in Int
  BY <1>1, CandidatesFollow DEF IsCandidate
<1>5. PICK cands, h : cands = Candidates(i) /\ h = Registered(i, cands)
  OBVIOUS
<1>6. IsFinished(i, cands) /\ results'[batchOffset[i]] = FinalizeResult(h)
  BY <1>1, <1>2, <1>5, SentenceAfterStep
<1>7. TopHasFinished(i, cands) /\ options.lengthPenalty = 0
  BY <1>6 DEF IsFinished, AllowEarlyExit
<1>8. HasScore(h, cands[n].score)
  BY <1>2, <1>3, <1>5, <1>7, CandidatesAreCovered
<1>9. IsScored(h)
  BY <1>2, <1>4, <1>5, RegisteredIs DEF Pending
<1>10. PICK num \in Nat \ {0} : num = options.numHypotheses
  BY <1>1 DEF Shape, IsSearch
<1>11. results'[batchOffset[i]] = Finalize(h, num, 0)
  BY <1>6, <1>7, <1>10 DEF FinalizeResult
<1> QED
  BY <1>3, <1>4, <1>5, <1>8, <1>9, <1>11, BestFirst

(* How the sentence at position i goes on at position p.                   *)
ContinuesAt(p, i) ==
  LET cands == Candidates(i)
  IN  /\ i \in Positions /\ ~IsFinished(i, cands) /\ ~IsLastStep(i)
      /\ batchOffset'[p] = batchOffset[i]
      /\ results'[batchOffset[i]] = Registered(i, cands) /\ batchOffset[i] \notin finished'
      /\ topFinished'[p] = TopHasFinished(i, cands)
      /\ PrefixLength(p)' = PrefixLength(i)
      /\ \A k \in Beams :
           /\ topkScores'[(p - 1) * BeamSize + k] = cands[NextBeam(i, cands, k)].score
           /\ aliveSeq'[(p - 1) * BeamSize + k] = cands[NextBeam(i, cands, k)].tokens

LEMMA SentenceContinues ==
  ASSUME GoesOn, SentencesInv, ContinueSearch,
         NEW kept, kept = NonFinished(StepCandidates), NEW p \in 1 .. Len(kept)
  PROVE  ContinuesAt(p, kept[p])
<1>1. Shape
  BY DEF GoesOn
<1>2. PICK active : active = Active(StepCandidates, kept)
  OBVIOUS
<1>3. /\ options' = options
      /\ batchOffset' = [q \in DOMAIN kept |-> batchOffset[kept[q]]]
      /\ topFinished' = KeptTopFinished(StepCandidates, kept)
      /\ topkScores' = [r \in DOMAIN active |-> active[r].score]
      /\ aliveSeq' = [r \in DOMAIN active |-> active[r].tokens]
      /\ FinishSentences(StepCandidates, kept)
  BY <1>2 DEF ContinueSearch, FinishSentences
<1>4. /\ Len(kept) \in Nat /\ kept \in [1 .. Len(kept) -> Positions]
      /\ \A q \in 1 .. Len(kept) : ~IsFinished(kept[q], StepCandidates[kept[q]])
  BY <1>1, KeptIs DEF Shape
<1>5. PICK i \in Positions : i = kept[p]
  BY <1>4
<1>6. PICK cands : cands = Candidates(i)
  OBVIOUS
<1>7. StepCandidates[i] = cands
  BY <1>6 DEF StepCandidates
<1>8. ~IsFinished(i, cands) /\ ~IsLastStep(i)
  BY <1>4, <1>5, <1>7 DEF IsFinished
<1>9. OffsetsDiffer /\ Pending(i)
  BY DEF SentencesInv
<1>10. PICK b : b = batchOffset[i]
  OBVIOUS
<1>11. results'[b] = Registered(i, cands) /\ b \notin finished'
  BY <1>1, <1>3, <1>6, <1>8, <1>9, <1>10, SentenceAfterStep
<1>12. batchOffset'[p] = b
  BY <1>3, <1>4, <1>5, <1>10
<1>13. PrefixLength(p)' = PrefixLength(i)
  BY <1>3, <1>10, <1>12 DEF PrefixLength, Prefix
<1>14. topFinished'[p] = TopHasFinished(i, cands)
  BY <1>3, <1>4, <1>5, <1>7 DEF KeptTopFinished
<1>15. ASSUME NEW k \in Beams
       PROVE  /\ topkScores'[(p - 1) * BeamSize + k] = cands[NextBeam(i, cands, k)].score
              /\ aliveSeq'[(p - 1) * BeamSize + k] = cands[NextBeam(i, cands, k)].tokens
  <2>1. PICK n \in Nat \ {0} : n = BeamSize
    BY Sizes
  <2>2. p \in Nat \ {0} /\ k \in 1 .. n
    BY <1>4, <2>1 DEF Beams
  <2>3. PICK r \in Nat \ {0} : r = (p - 1) * n + k /\ ((r - 1) \div n) + 1 = p /\ ((r - 1) % n) + 1 = k
    BY <2>2, RowsFlat
  <2>4. r \in 1 .. BeamSize * Len(kept)
    <3>1. PICK l \in Nat : l = Len(kept)
      BY <1>4
    <3>2. (p - 1) * n + k \in 1 .. n * l
      BY <2>2, <3>1, RowsFit
    <3> QED
      BY <2>1, <2>3, <3>1, <3>2
  <2>5. active[r] = StepCandidates[kept[p]][NextBeam(kept[p], StepCandidates[kept[p]], k)]
    BY <1>2, <2>1, <2>3, <2>4, Zenon DEF Active
  <2>6. active[r] = cands[NextBeam(i, cands, k)]
    BY <1>5, <1>7, <2>5, Zenon
  <2>7. r \in DOMAIN active
    BY <1>2, <2>4 DEF Active
  <2>8. /\ topkScores'[r] = cands[NextBeam(i, cands, k)].score
        /\ aliveSeq'[r] = cands[NextBeam(i, cands, k)].tokens
    BY <1>3, <2>6, <2>7
  <2> QED
    BY <2>1, <2>3, <2>8, Zenon
<1> QED
  BY <1>5, <1>6, <1>8, <1>10, <1>11, <1>12, <1>13, <1>14, <1>15 DEF ContinuesAt

(* After a step the batch has BeamSize rows for each sentence.             *)
LEMMA RowsAfterStep ==
  ASSUME GoesOn, ContinueSearch
  PROVE  /\ IsExpanded' /\ RowBeams' = Beams /\ step' = step + 1 /\ step \in Nat
         /\ options' = options
         /\ \A p, k : Row(p, k)' = (p - 1) * BeamSize + k
         /\ Positions' = 1 .. Len(NonFinished(StepCandidates))
<1>1. Shape /\ step \in Nat
  BY DEF GoesOn, Shape
<1>2. step' = step + 1 /\ options' = options
  BY DEF ContinueSearch, FinishSentences
<1>3. IsExpanded'
  <2>1. step' > 0
    BY <1>1, <1>2
  <2> QED
    BY <2>1 DEF IsExpanded
<1>4. RowBeams' = Beams /\ \A p, k : Row(p, k)' = (p - 1) * BeamSize + k
  BY <1>3 DEF RowBeams, Row
<1>5. PICK kept : kept = NonFinished(StepCandidates)
  OBVIOUS
<1>6. batchOffset' = [q \in DOMAIN kept |-> batchOffset[kept[q]]]
  BY <1>5 DEF ContinueSearch
<1>7. Len(kept) \in Nat /\ DOMAIN kept = 1 .. Len(kept)
  BY <1>1, <1>5, KeptIs DEF Shape
<1>8. Positions' = 1 .. Len(kept)
  BY <1>6, <1>7 DEF Positions
<1> QED
  BY <1>1, <1>2, <1>3, <1>4, <1>5, <1>8

LEMMA SentencesRemain ==
  ASSUME GoesOn, SentencesInv, ContinueSearch
  PROVE  SentencesInv'
<1>1. Shape /\ RowsFollow /\ ScoresFollow
  BY DEF GoesOn
<1>2. PICK kept : kept = NonFinished(StepCandidates)
  OBVIOUS
<1>3. /\ Len(kept) \in Nat /\ kept \in [1 .. Len(kept) -> Positions]
      /\ \A p, q \in 1 .. Len(kept) : kept[p] = kept[q] => p = q
  BY <1>1, <1>2, KeptIs DEF Shape
<1>4. Positions' = 1 .. Len(kept)
  BY <1>2, RowsAfterStep
<1>5. ASSUME NEW p \in 1 .. Len(kept) PROVE Pending(p)'
  <2>1. PICK i, cands : i = kept[p] /\ cands = Candidates(i)
    OBVIOUS
  <2>2. ContinuesAt(p, i)
    BY <1>2, <2>1, SentenceContinues
  <2>3. i \in Positions /\ Pending(i)
    BY <1>3, <2>1 DEF SentencesInv
  <2>4. \A n \in 1 .. NumCandidates : cands[n].score \in Int
    BY <1>1, <2>1, <2>3, CandidatesFollow DEF IsCandidate
  <2>5. IsScored(Registered(i, cands))
    BY <2>3, <2>4, RegisteredIs DEF Pending
  <2> QED
    BY <2>1, <2>2, <2>5 DEF ContinuesAt, Pending
<1>6. OffsetsDiffer'
  <2>1. \A p \in 1 .. Len(kept) : batchOffset'[p] = batchOffset[kept[p]]
    BY <1>2, SentenceContinues DEF ContinuesAt
  <2>2. \A i, j \in Positions : batchOffset[i] = batchOffset[j] => i = j
    BY DEF SentencesInv, OffsetsDiffer
  <2>3. \A p, q \in 1 .. Len(kept) : batchOffset'[p] = batchOffset'[q] => p = q
    BY <1>3, <2>1, <2>2
  <2> QED
    BY <1>4, <2>3 DEF OffsetsDiffer
<1> QED
  BY <1>4, <1>5, <1>6 DEF SentencesInv

(* A sentence that goes on remains covered.                                *)
LEMMA CoverRemains ==
  ASSUME GoesOn, EarlyInv, ModelsAreFinite, WordsAreLeft(options), ContinueSearch
  PROVE  EarlyInv'
<1>1. Shape /\ SentencesInv /\ SentencesInv'
  BY SentencesRemain DEF GoesOn, EarlyInv
<1>2. PICK kept : kept = NonFinished(StepCandidates)
  OBVIOUS
<1>3. /\ Positions' = 1 .. Len(kept) /\ RowBeams' = Beams /\ step' = step + 1
      /\ \A p, k : Row(p, k)' = (p - 1) * BeamSize + k
  BY <1>2, RowsAfterStep
<1>4. ASSUME NEW p \in 1 .. Len(kept) PROVE Covered(p)'
  <2>1. PICK i, cands : i = kept[p] /\ cands = Candidates(i)
    OBVIOUS
  <2>2. ContinuesAt(p, i)
    BY <1>1, <1>2, <2>1, SentenceContinues
  <2>3. /\ i \in Positions /\ ~IsLastStep(i) /\ batchOffset'[p] = batchOffset[i]
        /\ results'[batchOffset[i]] = Registered(i, cands)
        /\ topFinished'[p] = TopHasFinished(i, cands) /\ PrefixLength(p)' = PrefixLength(i)
        /\ \A k \in Beams :
             topkScores'[(p - 1) * BeamSize + k] = cands[NextBeam(i, cands, k)].score
    BY <2>1, <2>2 DEF ContinuesAt
  <2>4. Pending(i) /\ Covered(i)
    BY <2>3 DEF EarlyInv, SentencesInv
  <2>5. PrefixLength(i) \in Nat /\ step \in Nat
    BY <1>1, <2>3, LengthsOfShape
  <2>6. ASSUME step' <= PrefixLength(i)
        PROVE  topkScores'[(p - 1) * BeamSize + 1] = 0 /\ ~topFinished'[p]
    <3>1. step < PrefixLength(i)
      BY <1>3, <2>5, <2>6
    <3>2. ~topFinished[i]
      BY <2>4, <2>5, <3>1 DEF Covered
    <3>3. ~TopHasFinished(i, cands) /\ NextBeam(i, cands, 1) = 1 /\ cands[1].score = 0
      BY <1>1, <2>1, <2>3, <3>1, <3>2, PrefixGoesOn
    <3>4. 1 \in Beams
      BY Sizes DEF Beams
    <3> QED
      BY <2>3, <3>3, <3>4
  <2>7. ASSUME topFinished'[p], NEW k \in Beams
        PROVE  HasScore(results'[batchOffset[i]], topkScores'[(p - 1) * BeamSize + k])
    <3>1. PICK n \in 1 .. NumCandidates : n = NextBeam(i, cands, k)
      BY NextBeamIsCandidate
    <3>2. HasScore(Registered(i, cands), cands[n].score)
      BY <2>1, <2>3, <2>4, <2>7, CandidatesAreCovered
    <3> QED
      BY <2>3, <3>1, <3>2
  <2> QED
    BY <1>3, <2>3, <2>6, <2>7 DEF Covered
<1> QED
  BY <1>1, <1>3, <1>4 DEF EarlyInv

LEMMA CoverStarts ==
  ASSUME InitSearch, IInv
  PROVE  SentencesInv /\ EarlyInv
<1>1. Shape /\ step = 0 /\ searching = TRUE
  BY DEF InitSearch, IInv, GoesOn
<1>2. batchOffset = [b \in Batch |-> b] /\ topFinished = [b \in Batch |-> FALSE]
      /\ results = [b \in Batch |-> <<>>] /\ finished = {}
  BY DEF InitSearch
<1>3. PICK N \in Nat : N = Len(options.prefixes) /\ Batch = 1 .. N
  BY <1>1 DEF Shape, IsSearch, Batch
<1>4. Positions = 1 .. N
  BY <1>2, <1>3 DEF Positions
<1>5. OffsetsDiffer
  BY <1>2, <1>3, <1>4 DEF OffsetsDiffer
<1>6. ASSUME NEW i \in Positions PROVE topkScores[Row(i, 1)] = 0
  <2>1. 1 \in RowBeams /\ Row(i, 1) \in RowNumbers
    BY <1>1, RowsOfShape
  <2>2. DOMAIN topkScores = RowNumbers /\ DOMAIN topkIds = RowNumbers
    BY <1>1 DEF Shape
  <2>3. CASE options.expandAfterFirst
    <3>1. topkScores = [j \in Batch |-> 0]
      BY <2>3 DEF InitSearch
    <3> QED
      BY <2>1, <2>2, <3>1
  <2>4. CASE ~options.expandAfterFirst
    <3>1. topkScores = [r \in DOMAIN topkIds |-> IF (r - 1) % BeamSize = 0 THEN 0 ELSE Lowest]
      BY <2>4 DEF InitSearch
    <3>2. PICK n \in Nat \ {0} : n = BeamSize
      BY Sizes
    <3>3. PICK r \in Nat \ {0} : r = (i - 1) * n + 1 /\ ((r - 1) % n) + 1 = 1
      <4>1. i \in Nat \ {0} /\ 1 \in 1 .. n
        BY <1>4
      <4> QED
        BY <4>1, RowsFlat
    <3>4. Row(i, 1) = r
      BY <2>4, <3>2, <3>3 DEF Row, IsExpanded
    <3>5. (r - 1) % BeamSize = 0
      <4>1. PICK x \in Int : x = (r - 1) % n
        <5>1. (r - 1) % n \in Int
          OBVIOUS
        <5> QED
          BY <5>1
      <4>2. x + 1 = 1
        BY <3>3, <4>1, Zenon
      <4>3. x = 0
        BY <4>2
      <4> QED
        BY <3>2, <4>1, <4>2
    <3> QED
      BY <2>1, <2>2, <3>1, <3>4, <3>5
  <2> QED
    BY <2>3, <2>4
<1>7. IsScored(<<>>)
  <2>1. PICK A : A = {}
    OBVIOUS
  <2>2. <<>> \in Seq(A) /\ \A a \in A : a.score \in Int
    BY <2>1, EmptySeq
  <2> QED
    BY <2>2, Zenon DEF IsScored
<1> QED
  BY <1>2, <1>3, <1>4, <1>5, <1>6, <1>7 DEF EarlyInv, SentencesInv, Pending, Covered

(* The invariant of the early exit.                                        *)
ExitInv ==
  /\ IInv
  /\ WordsAreLeft(options)
  /\ searching => EarlyInv

LEMMA ExitStarts ==
  ASSUME InitSearch, IInv, WordsAreLeft(options)
  PROVE  ExitInv
BY CoverStarts DEF ExitInv

LEMMA ExitSteps ==
  ASSUME ModelsAreFinite, ExitInv, [StopSearch \/ ContinueSearch]_vars
  PROVE  ExitInv' /\ (UNCHANGED vars \/ \A i \in Positions : ExitsSafely(i))
<1>1. IInv' /\ WordsAreLeft(options)'
  <2>1. IInv'
    BY SearchSteps DEF ExitInv
  <2>2. options' = options
    BY DEF StopSearch, ContinueSearch, FinishSentences, vars
  <2> QED
    BY <2>1, <2>2 DEF ExitInv
<1>2. CASE StopSearch
  <2>1. searching /\ ~searching'
    BY <1>2 DEF StopSearch
  <2>2. GoesOn /\ EarlyInv
    BY <2>1 DEF IInv, ExitInv
  <2>3. FinishSentences(StepCandidates, <<>>) /\ NonFinished(StepCandidates) = <<>>
    BY <1>2 DEF StopSearch
  <2>4. FinishSentences(StepCandidates, NonFinished(StepCandidates))
    BY <2>3
  <2> QED
    BY <1>1, <2>1, <2>2, <2>4, StepExitsSafely DEF ExitInv
<1>3. CASE ContinueSearch
  <2>1. searching
    BY <1>3 DEF ContinueSearch
  <2>2. GoesOn /\ EarlyInv
    BY <2>1 DEF IInv, ExitInv
  <2>3. FinishSentences(StepCandidates, NonFinished(StepCandidates))
    BY <1>3 DEF ContinueSearch
  <2>4. EarlyInv'
    BY <1>3, <2>2, CoverRemains DEF ExitInv
  <2> QED
    BY <1>1, <2>2, <2>3, <2>4, StepExitsSafely DEF ExitInv
<1>4. CASE UNCHANGED vars
  <2>1. EarlyInv => EarlyInv'
    BY <1>4 DEF vars, EarlyInv, SentencesInv, OffsetsDiffer, Pending, Covered, Positions, PrefixLength, Prefix,
                RowBeams, Row, IsExpanded
  <2>2. searching' = searching
    BY <1>4 DEF vars
  <2> QED
    BY <1>1, <1>4, <2>1, <2>2 DEF ExitInv
<1> QED
  BY <1>2, <1>3, <1>4

(* "We can exit early when the first beam finishes and no penalties are    *)
(* used": in BeamSearch::search a sentence that is finished before its     *)
(* last step has a first hypothesis that no candidate of the step could    *)
(* improve, for every model whose log probabilities are finite, as long as *)
(* some token does not end a text.                                         *)
THEOREM EarlyExitLosesNothing ==
  ASSUME ModelsAreFinite, \A o \in Options : WordsAreLeft(o)
  PROVE  Spec => EarlyExitIsSafe
<1>1. Init => ExitInv
  <2> SUFFICES ASSUME Init PROVE ExitInv
    OBVIOUS
  <2>1. options \in Options /\ InitSearch
    BY DEF Init
  <2>2. IsSearch(options) /\ \A m \in Models : Batch \subseteq DOMAIN m
    BY <2>1, BeamSearchAssumption DEF Batch
  <2> QED
    BY <2>1, <2>2, SearchStarts, ExitStarts
<1>2. ExitInv /\ [Next]_vars => ExitInv' /\ [\A i \in Positions : ExitsSafely(i)]_vars
  BY ExitSteps DEF Next, Terminated
<1> QED
  BY <1>1, <1>2, PTL DEF Spec, EarlyExitIsSafe, ExitsSafely

(* The same of the searches of decode_alternatives, in which all sentences *)
(* end at the last step, and of the searches beside them.                  *)
THEOREM EarlyExitLosesNothingInAlternatives ==
  ASSUME ModelsAreFinite, \A o \in Options : WordsAreLeft(o),
         \A r \in AllRequests : WordsAreLeft(r.search)
  PROVE  SpecAll => EarlyExitIsSafe
<1>1. InitAll => ExitInv
  <2> SUFFICES ASSUME InitAll PROVE ExitInv
    OBVIOUS
  <2>1. InitSearch
    BY DEF InitAll
  <2>2. IInv
    BY StartsInAlternatives
  <2>3. WordsAreLeft(options)
    <3>1. CASE InitAlternatives
      <4>1. PICK r \in AllRequests : options = Expansion(r)
        BY <3>1 DEF InitAlternatives
      <4>2. Expansion(r).endIds = r.search.endIds
        <5>1. r.search \in [maxLength : Nat \ {0}, minLength : Nat, lengthPenalty : {0, 1},
                            numHypotheses : Nat \ {0}, maxCandidates : Nat,
                            returnPrefix : BOOLEAN, includeEos : BOOLEAN, endIds : SUBSET Tokens,
                            prefixes : Seq(Seq(Tokens)), startIds : Seq(Tokens),
                            forwarded : Seq(Seq(Tokens)),
                            expandAfterFirst : BOOLEAN, firstWins : BOOLEAN]
          BY AlternativesAssumption DEF IsSearch
        <5> QED
          BY <5>1 DEF Expansion
      <4> QED
        BY <4>1, <4>2 DEF WordsAreLeft
    <3>2. CASE options \in Options
      BY <3>2
    <3> QED
      BY <3>1, <3>2 DEF InitAll
  <2> QED
    BY <2>1, <2>2, <2>3, ExitStarts
<1>2. ExitInv /\ [NextAll]_allVars => ExitInv' /\ [\A i \in Positions : ExitsSafely(i)]_vars
  <2> SUFFICES ASSUME ExitInv, [NextAll]_allVars
               PROVE  ExitInv' /\ [\A i \in Positions : ExitsSafely(i)]_vars
    OBVIOUS
  <2>1. [StopSearch \/ ContinueSearch]_vars
    BY DEF NextAll, allVars, Search, KeepAlternatives, ContinueAlternatives, Return
  <2> QED
    BY <2>1, ExitSteps
<1> QED
  BY <1>1, <1>2, PTL DEF SpecAll, EarlyExitIsSafe, ExitsSafely

-----------------------------------------------------------------------------
(* The texts of the candidates.                                            *)

(* The texts of a sentence start with its prefix, and those that were      *)
(* meant to win differ.                                                    *)
RowsStart(i) ==
  \A k \in RowBeams, n \in 1 .. PrefixLength(i) : n <= step => aliveSeq[Row(i, k)][n] = Prefix(i)[n]

RowsDiffer(i) ==
  \A k, l \in RowBeams :
    topkScores[Row(i, k)] > Penalised /\ topkScores[Row(i, l)] > Penalised
      /\ aliveSeq[Row(i, k)] = aliveSeq[Row(i, l)] => k = l

(* So do those of the candidates.                                          *)
CandidatesStart(i, cands) ==
  \A m \in 1 .. NumCandidates, n \in 1 .. PrefixLength(i) :
    n <= step + 1 => cands[m].tokens[n] = Prefix(i)[n]

CandidatesDiffer(cands) ==
  \A m, n \in 1 .. NumCandidates :
    cands[m].score > Penalised /\ cands[n].score > Penalised
      /\ cands[m].tokens = cands[n].tokens => m = n

LEMMA CellsDiffer ==
  ASSUME Shape, NEW i \in Positions, NEW x \in Cells(i), NEW y \in Cells(i),
         x.beam = y.beam, x.id = y.id
  PROVE  x = y
<1>1. PICK m \in CellNumbers : x = CellAt(i, m)
  BY CellsOfShape
<1>2. PICK n \in CellNumbers : y = CellAt(i, n)
  BY CellsOfShape
<1>3. PICK v \in Nat \ {0}, l \in Nat : v = VocabularySize /\ l = PerSentence
  BY Sizes, RowsOfShape
<1>4. m \in 1 .. v * l /\ n \in 1 .. v * l
  BY <1>3 DEF CellNumbers
<1>5. /\ ((m - 1) \div v) + 1 = x.beam /\ (m - 1) % v = x.id
      /\ ((n - 1) \div v) + 1 = y.beam /\ (n - 1) % v = y.id
  BY <1>1, <1>2, <1>3 DEF CellAt
<1>6. /\ m = ((((m - 1) \div v) + 1) - 1) * v + ((m - 1) % v) + 1
      /\ n = ((((n - 1) \div v) + 1) - 1) * v + ((n - 1) % v) + 1
  BY <1>4, RowsSplit
<1>7. m = (x.beam - 1) * v + x.id + 1
  BY <1>5, <1>6, Zenon
<1>8. n = (x.beam - 1) * v + x.id + 1
  BY <1>5, <1>6, Zenon
<1> QED
  BY <1>1, <1>2, <1>7, <1>8, Zenon

(* The constraints that leave a candidate its score, or give it a forced   *)
(* token.                                                                  *)
LEMMA ConstrainedTexts ==
  ASSUME Shape, NEW i \in Positions, NEW n \in 1 .. NumCandidates
  PROVE  LET c == TopK(i)[n]
             d == Constrained(i, c, n)
         IN  /\ step < PrefixLength(i) => d.id = Prefix(i)[step + 1]
             /\ d.score > Penalised =>
                  IF step < PrefixLength(i) THEN n = 1 ELSE d = c
<1>1. PICK c : c = TopK(i)[n] /\ IsCell(i, c)
  BY BestCells
<1>2. c = [beam |-> c.beam, id |-> c.id, score |-> c.score, flat |-> c.flat]
  BY <1>1 DEF IsCell
<1>3. PrefixLength(i) \in Nat /\ step \in Nat /\ Prefix(i) \in Seq(Tokens) /\ batchOffset[i] \in Batch
  BY LengthsOfShape
<1>4. PICK d : d = Constrained(i, c, n)
  OBVIOUS
<1>5. CASE ~HasPrefix
  <2>1. d = c
    BY <1>4, <1>5 DEF Constrained
  <2>2. Prefix(i) = <<>>
    BY <1>3, <1>5 DEF HasPrefix, Prefix
  <2>3. ~(step < PrefixLength(i))
    BY <1>3, <2>2 DEF PrefixLength
  <2> QED
    BY <1>1, <1>4, <2>1, <2>3
<1>6. CASE HasPrefix /\ step < PrefixLength(i)
  <2>1. d = [c EXCEPT !.beam = 1, !.id = Prefix(i)[step + 1],
                      !.score = IF n = 1 THEN 0 ELSE Penalised]
    BY <1>4, <1>6, Zenon DEF Constrained
  <2>2. d.id = Prefix(i)[step + 1] /\ d.score = IF n = 1 THEN 0 ELSE Penalised
    BY <1>2, <2>1
  <2>3. ~(Penalised > Penalised)
    BY Sizes
  <2> QED
    BY <1>1, <1>4, <1>6, <2>2, <2>3
<1>7. CASE HasPrefix /\ ~(step < PrefixLength(i))
  <2>1. CASE step = PrefixLength(i) /\ n > 1 /\ c.id \in options.endIds
    <3>1. d = [c EXCEPT !.beam = 1, !.id = 0, !.score = Penalised]
      BY <1>4, <1>7, <2>1, Zenon DEF Constrained
    <3>2. d.score = Penalised
      BY <1>2, <3>1
    <3>3. ~(Penalised > Penalised)
      BY Sizes
    <3> QED
      BY <1>1, <1>4, <1>7, <3>2, <3>3
  <2>2. CASE ~(step = PrefixLength(i) /\ n > 1 /\ c.id \in options.endIds)
    <3>1. d = c
      BY <1>4, <1>7, <2>2, Zenon DEF Constrained
    <3> QED
      BY <1>1, <1>4, <1>7, <3>1
  <2> QED
    BY <2>1, <2>2
<1> QED
  BY <1>5, <1>6, <1>7

LEMMA AppendsDiffer ==
  ASSUME NEW S, NEW s \in Seq(S), NEW t \in Seq(S), NEW x \in S, NEW y \in S,
         Len(s) = Len(t), Append(s, x) = Append(t, y)
  PROVE  s = t /\ x = y
<1>1. PICK l \in Nat : l = Len(s) /\ l = Len(t)
  OBVIOUS
<1>2. /\ \A n \in 1 .. l : Append(s, x)[n] = s[n] /\ Append(t, y)[n] = t[n]
      /\ Append(s, x)[l + 1] = x /\ Append(t, y)[l + 1] = y
  BY <1>1
<1>3. x = y /\ \A n \in 1 .. l : s[n] = t[n]
  BY <1>2
<1> QED
  BY <1>1, <1>3, SeqEqual

LEMMA CandidateTexts ==
  ASSUME Shape, RowsFollow, NEW i \in Positions, RowsStart(i), RowsDiffer(i)
  PROVE  CandidatesStart(i, Candidates(i)) /\ CandidatesDiffer(Candidates(i))
<1> DEFINE d(n) == Constrained(i, TopK(i)[n], n)
           r(n) == Row(i, d(n).beam)
<1>1. \A n \in 1 .. NumCandidates :
        /\ Candidates(i)[n].score = d(n).score
        /\ Candidates(i)[n].tokens = Append(aliveSeq[r(n)], d(n).id)
  BY DEF Candidates
<1>2. \A n \in 1 .. NumCandidates :
        /\ d(n).beam \in RowBeams /\ d(n).id \in Tokens /\ d(n).score \in Int
        /\ step >= PrefixLength(i) /\ d(n).score > Penalised => topkScores[r(n)] > Penalised
  BY ConstrainedFollows
<1>3. \A n \in 1 .. NumCandidates :
        /\ step < PrefixLength(i) => d(n).id = Prefix(i)[step + 1]
        /\ d(n).score > Penalised =>
             IF step < PrefixLength(i) THEN n = 1 ELSE d(n) = TopK(i)[n]
  BY ConstrainedTexts
<1> HIDE DEF d
<1>4. \A n \in 1 .. NumCandidates :
        aliveSeq[r(n)] \in Seq(Tokens) /\ Len(aliveSeq[r(n)]) = step
  <2>1. \A n \in 1 .. NumCandidates : r(n) \in RowNumbers
    BY <1>2, RowsOfShape
  <2> QED
    BY <2>1 DEF Shape, RowsFollow
<1> HIDE DEF r
<1>5. PrefixLength(i) \in Nat /\ step \in Nat
  BY LengthsOfShape
<1>6. ASSUME NEW m \in 1 .. NumCandidates, NEW n \in 1 .. PrefixLength(i), n <= step + 1
      PROVE  Candidates(i)[m].tokens[n] = Prefix(i)[n]
  <2>1. PICK s \in Seq(Tokens), x \in Tokens : s = aliveSeq[r(m)] /\ x = d(m).id /\ Len(s) = step
    BY <1>2, <1>4
  <2>2. Candidates(i)[m].tokens = Append(s, x)
    BY <1>1, <2>1
  <2>3. CASE n <= step
    <3>1. Append(s, x)[n] = s[n]
      BY <1>5, <2>1, <2>3
    <3>2. s[n] = Prefix(i)[n]
      BY <1>2, <2>1, <2>3 DEF RowsStart, r
    <3> QED
      BY <2>2, <3>1, <3>2
  <2>4. CASE n = step + 1
    <3>1. Append(s, x)[n] = x
      BY <1>5, <2>1, <2>4
    <3>2. step < PrefixLength(i)
      BY <1>5, <2>4
    <3>3. x = Prefix(i)[n]
      BY <1>3, <2>1, <2>4, <3>2
    <3> QED
      BY <2>2, <3>1, <3>3
  <2> QED
    BY <1>5, <1>6, <2>3, <2>4
<1>7. ASSUME NEW m \in 1 .. NumCandidates, NEW n \in 1 .. NumCandidates,
             Candidates(i)[m].score > Penalised, Candidates(i)[n].score > Penalised,
             Candidates(i)[m].tokens = Candidates(i)[n].tokens
      PROVE  m = n
  <2>1. d(m).score > Penalised /\ d(n).score > Penalised
    BY <1>1, <1>7
  <2>2. CASE step < PrefixLength(i)
    BY <1>3, <2>1, <2>2
  <2>3. CASE ~(step < PrefixLength(i))
    <3>1. d(m) = TopK(i)[m] /\ d(n) = TopK(i)[n]
      BY <1>3, <2>1, <2>3
    <3>2. step >= PrefixLength(i)
      BY <1>5, <2>3
    <3>3. topkScores[r(m)] > Penalised /\ topkScores[r(n)] > Penalised
      BY <1>2, <2>1, <3>2
    <3>4. aliveSeq[r(m)] = aliveSeq[r(n)] /\ d(m).id = d(n).id
      <4>1. Append(aliveSeq[r(m)], d(m).id) = Append(aliveSeq[r(n)], d(n).id)
        BY <1>1, <1>7
      <4>2. PICK s \in Seq(Tokens), t \in Seq(Tokens), x \in Tokens, y \in Tokens :
              /\ s = aliveSeq[r(m)] /\ t = aliveSeq[r(n)] /\ x = d(m).id /\ y = d(n).id
              /\ Len(s) = step /\ Len(t) = step
        BY <1>2, <1>4
      <4>3. Append(s, x) = Append(t, y) /\ Len(s) = Len(t)
        BY <4>1, <4>2
      <4>4. s = t /\ x = y
        BY <4>3, AppendsDiffer
      <4> QED
        BY <4>2, <4>4
    <3>5. d(m).beam = d(n).beam
      BY <1>2, <3>3, <3>4 DEF RowsDiffer, r
    <3>6. PICK x \in Cells(i), y \in Cells(i) :
            /\ x = TopK(i)[m] /\ y = TopK(i)[n]
            /\ Cardinality({c \in Cells(i) : IsBetter(c, x)}) = m - 1
            /\ Cardinality({c \in Cells(i) : IsBetter(c, y)}) = n - 1
      BY BestCells
    <3>7. x = y
      BY <3>1, <3>4, <3>5, <3>6, CellsDiffer
    <3>8. m - 1 = n - 1
      BY <3>6, <3>7
    <3> QED
      BY <3>8
  <2> QED
    BY <2>2, <2>3
<1> QED
  BY <1>6, <1>7 DEF CandidatesStart, CandidatesDiffer

(* The beams that end up to the k-th one, and what may take their places.  *)
EndedUpTo(i, cands, k) == {m \in Ending(i, cands) : m <= k}
Spares(cands) == {n \in BeamSize + 1 .. NumCandidates : ~IsEos(cands[n])}

LEMMA SparesAre ==
  ASSUME NEW cands
  PROVE  /\ IsFiniteSet(Spares(cands)) /\ Cardinality(Spares(cands)) \in Nat
         /\ \A n \in Spares(cands) : n \in Int /\ n > BeamSize /\ n \in 1 .. NumCandidates
         /\ Spare(cands) \in [1 .. Cardinality(Spares(cands)) -> Spares(cands)]
         /\ \A m, n \in 1 .. Cardinality(Spares(cands)) : Spare(cands)[m] = Spare(cands)[n] => m = n
<1>1. PICK size \in Nat \ {0}, num \in Nat : size = BeamSize /\ num = NumCandidates
  BY Sizes
<1>2. Spares(cands) \in SUBSET (size + 1 .. num)
  BY <1>1 DEF Spares
<1>3. IsFiniteSet(size + 1 .. num)
  <2>1. size + 1 \in Int /\ num \in Int
    OBVIOUS
  <2> QED
    BY <2>1, FS_Interval
<1>4. IsFiniteSet(Spares(cands))
  BY <1>2, <1>3, FS_Subset
<1>5. \A n \in Spares(cands) : n \in Int /\ n > size /\ n \in 1 .. num
  BY <1>2
<1>6. Spares(cands) \in SUBSET Int
  BY <1>5
<1>7. Spare(cands) = Ascending(Spares(cands))
  BY DEF Spare, Spares
<1> QED
  BY <1>1, <1>4, <1>5, <1>6, <1>7, AscendingIs

LEMMA EndedAre ==
  ASSUME NEW i, NEW cands, NEW k \in Beams
  PROVE  /\ IsFiniteSet(EndedUpTo(i, cands, k)) /\ Cardinality(EndedUpTo(i, cands, k)) \in Nat
         /\ k \in Ending(i, cands) => Cardinality(EndedUpTo(i, cands, k)) # 0
<1>1. EndedUpTo(i, cands, k) \in SUBSET Ending(i, cands)
  BY DEF EndedUpTo
<1>2. IsFiniteSet(EndedUpTo(i, cands, k))
  BY <1>1, EndingAre, FS_Subset
<1>3. k \in Ending(i, cands) => k \in EndedUpTo(i, cands, k)
  BY Sizes DEF EndedUpTo, Beams
<1> QED
  BY <1>2, <1>3, FS_CardinalityType, FS_EmptySet

(* A beam that ends is replaced by the spare of its rank, if there is one. *)
LEMMA NextBeamIs ==
  ASSUME NEW i, NEW cands, NEW k \in Beams
  PROVE  LET rank == Cardinality(EndedUpTo(i, cands, k))
             num == Cardinality(Spares(cands))
         IN  IF k \in Ending(i, cands) /\ rank <= num
               THEN /\ rank \in 1 .. num
                    /\ NextBeam(i, cands, k) = Spare(cands)[rank]
                    /\ NextBeam(i, cands, k) \in Spares(cands)
               ELSE NextBeam(i, cands, k) = k
<1>1. PICK rank \in Nat : /\ rank = Cardinality(EndedUpTo(i, cands, k))
                          /\ k \in Ending(i, cands) => rank # 0
  BY EndedAre
<1>2. PICK num \in Nat : num = Cardinality(Spares(cands))
  BY SparesAre
<1>3. Spare(cands) \in [1 .. num -> Spares(cands)] /\ Len(Spare(cands)) = num
  BY <1>2, SparesAre
<1>4. CASE k \in Ending(i, cands) /\ rank <= num
  <2>1. rank \in 1 .. num
    BY <1>1, <1>4
  <2>2. NextBeam(i, cands, k) = Spare(cands)[rank]
    BY <1>1, <1>3, <1>4 DEF NextBeam, EndedUpTo
  <2> QED
    BY <1>1, <1>2, <1>3, <1>4, <2>1, <2>2
<1>5. CASE ~(k \in Ending(i, cands) /\ rank <= num)
  <2>1. NextBeam(i, cands, k) = k
    BY <1>1, <1>3, <1>5 DEF NextBeam, EndedUpTo
  <2> QED
    BY <1>1, <1>2, <1>5, <2>1
<1> QED
  BY <1>4, <1>5

(* No candidate goes on twice.                                             *)
LEMMA NextBeamsDiffer ==
  ASSUME NEW i, NEW cands, NEW k \in Beams, NEW l \in Beams,
         NextBeam(i, cands, k) = NextBeam(i, cands, l)
  PROVE  k = l
<1> DEFINE E == Ending(i, cands)
           U(m) == EndedUpTo(i, cands, m)
           rank(m) == Cardinality(U(m))
           num == Cardinality(Spares(cands))
<1>1. \A m \in Beams : m \in Int /\ ~(m > BeamSize)
  BY Sizes DEF Beams
<1>2. ASSUME NEW x \in E, NEW y \in E, x \in Beams, y \in Beams, x < y
      PROVE  rank(x) # rank(y)
  <2>0. /\ \A m : m \in U(x) <=> m \in E /\ m <= x
        /\ \A m : m \in U(y) <=> m \in E /\ m <= y
    BY DEF EndedUpTo
  <2>a. x \in Int /\ y \in Int /\ \A m \in E : m \in Int
    BY <1>1, <1>2, EndingAre
  <2>1. U(x) \cup {y} \in SUBSET U(y) /\ y \notin U(x)
    <3> HIDE DEF E, U
    <3>1. y \notin U(x)
      BY <1>2, <2>0, <2>a
    <3>2. ASSUME NEW m \in U(x) PROVE m \in U(y)
      <4>1. m \in E /\ m <= x /\ m \in Int
        BY <2>0, <2>a
      <4>2. m <= y
        BY <1>2, <2>a, <4>1
      <4> QED
        BY <2>0, <4>1, <4>2
    <3>3. y \in U(y)
      <4>1. y <= y
        BY <2>a
      <4> QED
        BY <2>0, <4>1
    <3> QED
      BY <3>1, <3>2, <3>3
  <2>2. IsFiniteSet(U(x)) /\ IsFiniteSet(U(y)) /\ rank(x) \in Nat /\ rank(y) \in Nat
    BY <1>2, EndedAre
  <2> HIDE DEF U
  <2>3. Cardinality(U(x) \cup {y}) = rank(x) + 1
    BY <2>1, <2>2, FS_AddElement
  <2>4. Cardinality(U(x) \cup {y}) <= rank(y)
    BY <2>1, <2>2, FS_Subset
  <2> QED
    BY <2>2, <2>3, <2>4
<1>3. CASE (k \in E /\ rank(k) <= num) /\ (l \in E /\ rank(l) <= num)
  <2>1. /\ rank(k) \in 1 .. num /\ NextBeam(i, cands, k) = Spare(cands)[rank(k)]
        /\ rank(l) \in 1 .. num /\ NextBeam(i, cands, l) = Spare(cands)[rank(l)]
    BY <1>3, NextBeamIs
  <2>2. rank(k) = rank(l)
    BY <2>1, SparesAre
  <2>3. ~(k < l) /\ ~(l < k)
    BY <1>2, <1>3, <2>2
  <2> QED
    BY <1>1, <2>3
<1>4. CASE (k \in E /\ rank(k) <= num) /\ ~(l \in E /\ rank(l) <= num)
  <2>1. NextBeam(i, cands, k) \in Spares(cands) /\ NextBeam(i, cands, l) = l
    BY <1>4, NextBeamIs
  <2>2. l > BeamSize
    BY <2>1, SparesAre
  <2> QED
    BY <1>1, <2>2
<1>5. CASE ~(k \in E /\ rank(k) <= num) /\ (l \in E /\ rank(l) <= num)
  <2>1. NextBeam(i, cands, l) \in Spares(cands) /\ NextBeam(i, cands, k) = k
    BY <1>5, NextBeamIs
  <2>2. k > BeamSize
    BY <2>1, SparesAre
  <2> QED
    BY <1>1, <2>2
<1>6. CASE ~(k \in E /\ rank(k) <= num) /\ ~(l \in E /\ rank(l) <= num)
  <2>1. NextBeam(i, cands, l) = l /\ NextBeam(i, cands, k) = k
    BY <1>6, NextBeamIs
  <2> QED
    BY <2>1
<1> QED
  BY <1>3, <1>4, <1>5, <1>6

-----------------------------------------------------------------------------
(* The texts of the hypotheses.                                            *)

(* Where the text of a hypothesis starts, and the length that is registered *)
(* at this step, at least.                                                 *)
Start(b) == IF options.returnPrefix THEN 0 ELSE Len(options.prefixes[b])
NewLength(b) == (step - Start(b)) + (IF options.includeEos THEN 1 ELSE 0)

(* An end token that is cut off can be one of several, or only one.        *)
OneEndToken(o) == \A t, u \in o.endIds : t = u
EndsAreKnown(o) == o.includeEos \/ OneEndToken(o)

LEMMA StartIs ==
  ASSUME Shape, NEW i \in Positions
  PROVE  /\ Start(batchOffset[i]) \in Nat /\ Start(batchOffset[i]) <= PrefixLength(i)
         /\ \A cands : Ending(i, cands) # {} => Start(batchOffset[i]) <= step
<1>1. PICK l \in Nat : l = PrefixLength(i) /\ l = Len(options.prefixes[batchOffset[i]])
  BY LengthsOfShape DEF PrefixLength, Prefix
<1>2. step \in Nat /\ options.maxLength \in Nat \ {0}
  BY DEF Shape, IsSearch
<1>3. PICK start \in {0, l} : start = Start(batchOffset[i]) /\ start = IF options.returnPrefix THEN 0 ELSE l
  BY <1>1 DEF Start
<1>4. ASSUME NEW cands, NEW k \in Ending(i, cands) PROVE start <= step
  <2>1. CASE step >= l
    BY <1>1, <1>2, <1>3, <2>1
  <2>2. CASE IsLastStep(i)
    <3>1. step + 1 = options.maxLength + start
      BY <1>1, <1>3, <2>2 DEF IsLastStep, LastStep
    <3> QED
      BY <1>1, <1>2, <1>3, <3>1
  <2> QED
    BY <1>1, <2>1, <2>2 DEF Ending
<1> QED
  BY <1>1, <1>3, <1>4

CandidateIs(c) ==
  /\ c.tokens \in Seq(Tokens) /\ Len(c.tokens) = step + 1
  /\ c.id \in Tokens /\ c.tokens[step + 1] = c.id /\ c.score \in Int

LEMMA CandidatesAre ==
  ASSUME GoesOn, NEW i \in Positions, NEW n \in 1 .. NumCandidates
  PROVE  CandidateIs(Candidates(i)[n])
<1>1. PICK c : c = Candidates(i)[n]
  OBVIOUS
<1>2. /\ c.origin \in RowNumbers /\ c.id \in Tokens /\ c.score \in Int
      /\ c.tokens = Append(aliveSeq[c.origin], c.id)
  BY <1>1, CandidatesFollow DEF GoesOn, IsCandidate
<1>3. PICK s \in Seq(Tokens), x \in Tokens :
        s = aliveSeq[c.origin] /\ x = c.id /\ Len(s) = step /\ step \in Nat
  BY <1>2 DEF GoesOn, Shape, RowsFollow
<1>4. /\ Append(s, x) \in Seq(Tokens) /\ Len(Append(s, x)) = step + 1
      /\ Append(s, x)[step + 1] = x
  BY <1>3
<1> QED
  BY <1>1, <1>2, <1>3, <1>4 DEF CandidateIs

(* What Hypothesis makes of a candidate: what it leaves at the start and   *)
(* at the end.                                                             *)
Cut(c) == IF IsEos(c) /\ ~options.includeEos THEN step ELSE step + 1

HypothesisOf(h, c, start, end) ==
  /\ h.score = c.score
  /\ start \in Nat /\ start <= end /\ end <= Len(c.tokens)
  /\ h.tokens \in Seq(Tokens) /\ Len(h.tokens) = end - start
  /\ \A n \in 1 .. end - start : h.tokens[n] = c.tokens[start + n]

LEMMA HypothesisIs ==
  ASSUME Shape, NEW i \in Positions, NEW cands, NEW k \in Ending(i, cands), CandidateIs(cands[k])
  PROVE  HypothesisOf(Hypothesis(i, cands[k]), cands[k], Start(batchOffset[i]), Cut(cands[k]))
<1>1. PICK c, h : c = cands[k] /\ h = Hypothesis(i, c)
  OBVIOUS
<1>2. PICK start \in Nat : start = Start(batchOffset[i]) /\ start <= step
  BY StartIs
<1>3. step \in Nat
  BY DEF Shape
<1>4. PICK end \in {step, step + 1} :
        end = Cut(c) /\ end = IF IsEos(c) /\ ~options.includeEos THEN step ELSE step + 1
  BY DEF Cut
<1>5. h = [tokens |-> SubSeq(c.tokens, start + 1, end), score |-> c.score]
  BY <1>1, <1>2, <1>4 DEF Hypothesis, Start, PrefixLength, Prefix
<1>6. PICK t \in Seq(Tokens) : t = c.tokens /\ Len(t) = step + 1
  BY <1>1 DEF CandidateIs
<1>7. end \in Nat /\ start <= end /\ end <= Len(t)
  BY <1>2, <1>3, <1>4, <1>6
<1>8. PICK s : s = SubSeq(t, start + 1, end)
  OBVIOUS
<1>9. /\ s \in Seq(Tokens) /\ Len(s) = end - start
      /\ \A n \in 1 .. end - start : s[n] = t[start + n]
  <2>1. start + 1 \in 1 .. Len(t) + 1 /\ end \in start .. Len(t)
    BY <1>7
  <2>2. /\ SubSeq(t, start + 1, end) \in Seq(Tokens)
        /\ Len(SubSeq(t, start + 1, end)) = end - start
        /\ \A n \in 1 .. end - start : SubSeq(t, start + 1, end)[n] = t[start + n]
    <3>1. PICK m \in 1 .. Len(t) + 1 : m = start + 1
      BY <2>1
    <3>2. m \in Int /\ end \in Int /\ \A n \in m .. end : t[n] \in Tokens
      BY <1>7, <3>1
    <3>3. /\ SubSeq(t, m, end) \in Seq(Tokens)
          /\ Len(SubSeq(t, m, end)) = IF m <= end THEN end - m + 1 ELSE 0
          /\ \A n \in 1 .. end - m + 1 : SubSeq(t, m, end)[n] = t[m + n - 1]
      BY <3>2, SubSeqProperties
    <3>4. /\ (IF m <= end THEN end - m + 1 ELSE 0) = end - start
          /\ end - m + 1 = end - start
          /\ \A n \in 1 .. end - start : m + n - 1 = start + n
      BY <1>7, <3>1
    <3> QED
      BY <3>1, <3>3, <3>4
  <2> QED
    BY <1>8, <2>2
<1>10. h.score = c.score /\ h.tokens = s
  BY <1>5, <1>6, <1>8
<1>11. HypothesisOf(h, c, start, end)
  BY <1>6, <1>7, <1>9, <1>10 DEF HypothesisOf
<1> QED
  BY <1>1, <1>2, <1>4, <1>11, Zenon

-----------------------------------------------------------------------------
(* The answers.                                                            *)

(* What a sentence has registered so far: texts that differ and that are   *)
(* shorter than those of the next step.                                    *)
AreAnswers(rs, length) ==
  /\ \A n \in DOMAIN rs : IsResult(rs[n]) /\ Len(rs[n].tokens) < length
  /\ HypothesesDiffer(rs)

Answering(i) == AreAnswers(results[batchOffset[i]], NewLength(batchOffset[i]))

LEMMA NewHypotheses ==
  ASSUME GoesOn, NEW i \in Positions, NEW k \in Ending(i, Candidates(i))
  PROVE  LET b == batchOffset[i]
             h == Hypothesis(i, Candidates(i)[k])
         IN  /\ IsResult(h) /\ h.score = Candidates(i)[k].score
             /\ Len(h.tokens) >= NewLength(b)
             /\ ~IsLastStep(i) => Len(h.tokens) = NewLength(b)
<1>1. PICK c, h : c = Candidates(i)[k] /\ h = Hypothesis(i, c)
  OBVIOUS
<1>2. CandidateIs(c)
  BY <1>1, EndingAre, CandidatesAre
<1>3. PICK start \in Nat : start = Start(batchOffset[i]) /\ start <= step
  BY StartIs DEF GoesOn
<1>4. HypothesisOf(h, c, start, Cut(c))
  BY <1>1, <1>2, <1>3, HypothesisIs DEF GoesOn
<1>5. step \in Nat
  BY DEF GoesOn, Shape
<1>6. PICK end \in {step, step + 1} :
        end = Cut(c) /\ end = IF IsEos(c) /\ ~options.includeEos THEN step ELSE step + 1
  BY DEF Cut
<1>7. PICK l \in Nat : l = Len(h.tokens)
  BY <1>4 DEF HypothesisOf
<1>8. l = end - start /\ h.tokens \in Seq(Tokens) /\ h.score = c.score
  BY <1>4, <1>6, <1>7 DEF HypothesisOf
<1>9. IsResult(h)
  <2>1. Tokens \subseteq Int
    BY Sizes
  <2>2. PICK T : T = Tokens
    OBVIOUS
  <2>3. PICK t \in Seq(T) : t = h.tokens
    BY <1>8, <2>2
  <2>4. t \in [1 .. Len(t) -> T] /\ Len(t) \in Nat
    OBVIOUS
  <2>5. t \in [1 .. Len(t) -> Int]
    BY <2>1, <2>2, <2>4
  <2>6. t \in Seq(Int)
    BY <2>4, <2>5
  <2> QED
    BY <1>2, <1>8, <2>3, <2>6 DEF IsResult, CandidateIs
<1>10. PICK new \in Int : new = NewLength(batchOffset[i]) /\ new = (step - start) + (IF options.includeEos THEN 1 ELSE 0)
  BY <1>3, <1>5 DEF NewLength
<1>11. l >= new
  <2>1. CASE options.includeEos
    BY <1>3, <1>5, <1>6, <1>8, <1>10, <2>1
  <2>2. CASE ~options.includeEos
    BY <1>3, <1>5, <1>6, <1>8, <1>10, <2>2
  <2> QED
    BY <2>1, <2>2
<1>12. ASSUME ~IsLastStep(i) PROVE l = new
  <2>1. IsEos(c)
    BY <1>1, <1>12 DEF Ending
  <2>2. CASE options.includeEos
    BY <1>3, <1>5, <1>6, <1>8, <1>10, <2>2
  <2>3. CASE ~options.includeEos
    BY <1>3, <1>5, <1>6, <1>8, <1>10, <2>1, <2>3
  <2> QED
    BY <2>2, <2>3
<1> QED
  BY <1>1, <1>7, <1>8, <1>9, <1>10, <1>11, <1>12

(* Two candidates that give the same text are the same.                    *)
LEMMA NewHypothesesDiffer ==
  ASSUME GoesOn, EndsAreKnown(options), NEW i \in Positions, RowsStart(i), RowsDiffer(i),
         NEW k \in Ending(i, Candidates(i)), NEW l \in Ending(i, Candidates(i)),
         Hypothesis(i, Candidates(i)[k]).score > Penalised,
         Hypothesis(i, Candidates(i)[l]).score > Penalised,
         Hypothesis(i, Candidates(i)[k]).tokens = Hypothesis(i, Candidates(i)[l]).tokens
  PROVE  k = l
<1>1. PICK c, d : c = Candidates(i)[k] /\ d = Candidates(i)[l]
  OBVIOUS
<1>2. CandidateIs(c) /\ CandidateIs(d) /\ k \in 1 .. NumCandidates /\ l \in 1 .. NumCandidates
  BY <1>1, EndingAre, CandidatesAre
<1>3. PICK start \in Nat : start = Start(batchOffset[i]) /\ start <= step /\ start <= PrefixLength(i)
  BY StartIs DEF GoesOn
<1>4. PICK g, h : g = Hypothesis(i, c) /\ h = Hypothesis(i, d)
  OBVIOUS
<1>5. HypothesisOf(g, c, start, Cut(c)) /\ HypothesisOf(h, d, start, Cut(d))
  BY <1>1, <1>2, <1>3, <1>4, HypothesisIs DEF GoesOn
<1>6. step \in Nat /\ PrefixLength(i) \in Nat
  BY LengthsOfShape DEF GoesOn
<1>7. g.tokens = h.tokens /\ c.score > Penalised /\ d.score > Penalised
  BY <1>1, <1>4, <1>5 DEF HypothesisOf
<1>8. Cut(c) \in {step, step + 1} /\ Cut(d) \in {step, step + 1}
  BY DEF Cut
<1>9. PICK e \in {step, step + 1} : e = Cut(c)
  BY <1>8
<1>10. Cut(d) = e
  <2>1. PICK f \in {step, step + 1} : f = Cut(d)
    BY <1>8
  <2>2. Len(g.tokens) = e - start /\ Len(h.tokens) = f - start
    BY <1>5, <1>9, <2>1 DEF HypothesisOf
  <2>3. e - start = f - start
    BY <1>7, <2>2
  <2> QED
    BY <1>6, <2>1, <2>3
<1>11. PICK s \in Seq(Tokens), t \in Seq(Tokens) :
         s = c.tokens /\ t = d.tokens /\ Len(s) = step + 1 /\ Len(t) = step + 1
  BY <1>2 DEF CandidateIs
<1>12. ASSUME NEW n \in 1 .. e PROVE s[n] = t[n]
  <2>1. n \in Int /\ n >= 1 /\ n <= e /\ e \in Int
    BY <1>6
  <2>2. CASE n <= start
    <3>1. n \in 1 .. PrefixLength(i) /\ n <= step + 1
      BY <1>3, <1>6, <2>1, <2>2
    <3>2. CandidatesStart(i, Candidates(i))
      BY CandidateTexts DEF GoesOn
    <3>3. c.tokens[n] = Prefix(i)[n] /\ d.tokens[n] = Prefix(i)[n]
      BY <1>1, <1>2, <3>1, <3>2 DEF CandidatesStart
    <3> QED
      BY <1>11, <3>3
  <2>3. CASE n > start
    <3>1. PICK m \in 1 .. e - start : n = start + m
      <4>1. n - start \in 1 .. e - start /\ n = start + (n - start)
        BY <2>1, <2>3
      <4> QED
        BY <4>1
    <3>2. g.tokens[m] = c.tokens[start + m] /\ h.tokens[m] = d.tokens[start + m]
      BY <1>5, <1>9, <1>10 DEF HypothesisOf
    <3> QED
      BY <1>7, <1>11, <3>1, <3>2
  <2> QED
    BY <2>1, <2>2, <2>3
<1>13. s[step + 1] = t[step + 1]
  <2>1. CASE e = step + 1
    <3>1. step + 1 \in 1 .. e
      BY <1>6, <2>1
    <3> QED
      BY <1>12, <3>1
  <2>2. CASE e = step
    <3>1. step # step + 1
      BY <1>6
    <3>2. IsEos(c) /\ IsEos(d) /\ ~options.includeEos
      BY <1>9, <1>10, <2>2, <3>1 DEF Cut
    <3>3. c.id = d.id
      BY <3>2 DEF IsEos, EndsAreKnown, OneEndToken
    <3> QED
      BY <1>2, <1>11, <3>3 DEF CandidateIs
  <2> QED
    BY <2>1, <2>2
<1>14. s = t
  <2>1. \A n \in 1 .. step + 1 : s[n] = t[n]
    <3>1. \A n \in 1 .. step + 1 : n = step + 1 \/ n \in 1 .. e
      BY <1>6
    <3> QED
      BY <1>12, <1>13, <3>1
  <2> QED
    BY <1>11, <2>1, SeqEqual
<1>15. CandidatesDiffer(Candidates(i))
  BY CandidateTexts DEF GoesOn
<1> QED
  BY <1>1, <1>2, <1>7, <1>11, <1>14, <1>15 DEF CandidatesDiffer

LEMMA RegisteredAnswers ==
  ASSUME GoesOn, EndsAreKnown(options), NEW i \in Positions, RowsStart(i), RowsDiffer(i),
         Pending(i), Answering(i)
  PROVE  LET all == Registered(i, Candidates(i))
         IN  /\ Len(all) \in Nat /\ DOMAIN all = 1 .. Len(all)
             /\ \A n \in DOMAIN all : IsResult(all[n])
             /\ HypothesesDiffer(all)
             /\ ~IsLastStep(i) => AreAnswers(all, NewLength(batchOffset[i]) + 1)
             /\ IsLastStep(i) => Len(all) >= BeamSize
<1>1. PICK cands, old, all : /\ cands = Candidates(i) /\ old = results[batchOffset[i]]
                             /\ all = Registered(i, cands)
  OBVIOUS
<1>2. PICK length, order, count : AreParts(all, old, length, i, cands, order, count)
  <2>1. \A n \in 1 .. NumCandidates : cands[n].score \in Int
    BY <1>1, CandidatesFollow DEF GoesOn, IsCandidate
  <2>2. IsScored(results[batchOffset[i]])
    BY DEF Pending
  <2> QED
    BY <1>1, <2>1, <2>2, RegisteredParts
<1>3. /\ length \in Nat /\ count \in Nat
      /\ Len(all) = length + count /\ DOMAIN all = 1 .. length + count /\ DOMAIN old = 1 .. length
      /\ order \in [1 .. count -> Ending(i, cands)]
      /\ \A k \in Ending(i, cands) : \E n \in 1 .. count : order[n] = k
      /\ \A m, n \in 1 .. count : order[m] = order[n] => m = n
      /\ \A n \in 1 .. length : all[n] = old[n]
      /\ \A n \in 1 .. count : all[length + n] = Hypothesis(i, cands[order[n]])
  BY <1>2 DEF AreParts
<1>4. PICK new \in Int : new = NewLength(batchOffset[i])
  <2>1. Start(batchOffset[i]) \in Nat /\ step \in Nat
    BY StartIs DEF GoesOn, Shape
  <2> QED
    BY <2>1 DEF NewLength
<1>5. \A n \in 1 .. length : IsResult(all[n]) /\ Len(all[n].tokens) < new
  BY <1>1, <1>3, <1>4 DEF Answering, AreAnswers
<1>6. \A n \in DOMAIN all : n \notin 1 .. length => n - length \in 1 .. count /\ n = length + (n - length)
  BY <1>3
<1>7. \A n \in 1 .. count :
        /\ IsResult(all[length + n]) /\ Len(all[length + n].tokens) >= new
        /\ ~IsLastStep(i) => Len(all[length + n].tokens) = new
  <2> TAKE n \in 1 .. count
  <2>1. PICK k \in Ending(i, cands) : k = order[n]
    BY <1>3
  <2>2. all[length + n] = Hypothesis(i, cands[k])
    BY <1>3, <2>1
  <2>3. PICK h : h = Hypothesis(i, cands[k])
    OBVIOUS
  <2>4. /\ IsResult(h) /\ Len(h.tokens) >= new
        /\ ~IsLastStep(i) => Len(h.tokens) = new
    BY <1>1, <1>4, <2>3, NewHypotheses
  <2> QED
    BY <2>2, <2>3, <2>4
<1>8. \A n \in DOMAIN all : IsResult(all[n])
  BY <1>5, <1>6, <1>7
<1>9. \A n \in DOMAIN all : Len(all[n].tokens) \in Nat
  BY <1>8 DEF IsResult
<1>10. \A n \in DOMAIN all : /\ n \in 1 .. length => Len(all[n].tokens) < new
                             /\ n \notin 1 .. length => Len(all[n].tokens) >= new
  BY <1>5, <1>6, <1>7
<1>11. HypothesesDiffer(all)
  <2> SUFFICES ASSUME NEW m \in DOMAIN all, NEW n \in DOMAIN all,
                      all[m].score > Penalised, all[n].score > Penalised,
                      all[m].tokens = all[n].tokens
               PROVE  m = n
    BY DEF HypothesesDiffer
  <2>1. PICK l \in Nat : l = Len(all[m].tokens) /\ l = Len(all[n].tokens)
    BY <1>9
  <2>2. CASE m \in 1 .. length
    <3>1. l < new
      BY <1>10, <2>1, <2>2
    <3>2. n \in 1 .. length
      <4>1. ~(l >= new)
        BY <1>4, <3>1
      <4> QED
        BY <1>10, <2>1, <4>1
    <3>3. HypothesesDiffer(old)
      BY <1>1 DEF Answering, AreAnswers
    <3> QED
      BY <1>3, <2>2, <3>2, <3>3 DEF HypothesesDiffer
  <2>3. CASE m \notin 1 .. length
    <3>1. l >= new
      BY <1>10, <2>1, <2>3
    <3>2. n \notin 1 .. length
      <4>1. ~(l < new)
        BY <1>4, <3>1
      <4> QED
        BY <1>10, <2>1, <4>1
    <3>3. PICK x \in 1 .. count, y \in 1 .. count : m = length + x /\ n = length + y
      BY <1>6, <2>3, <3>2
    <3>4. PICK k \in Ending(i, cands), j \in Ending(i, cands) : k = order[x] /\ j = order[y]
      BY <1>3
    <3>5. all[m] = Hypothesis(i, cands[k]) /\ all[n] = Hypothesis(i, cands[j])
      BY <1>3, <3>3, <3>4
    <3>6. k = j
      BY <1>1, <3>5, NewHypothesesDiffer
    <3> QED
      BY <1>3, <3>3, <3>4, <3>6
  <2> QED
    BY <2>2, <2>3
<1>12. ASSUME ~IsLastStep(i) PROVE AreAnswers(all, new + 1)
  <2>1. ASSUME NEW n \in DOMAIN all PROVE Len(all[n].tokens) < new + 1
    <3>1. CASE n \in 1 .. length
      BY <1>4, <1>9, <1>10, <3>1
    <3>2. CASE n \notin 1 .. length
      <4>1. Len(all[n].tokens) = new
        BY <1>6, <1>7, <1>12, <3>2
      <4> QED
        BY <1>4, <4>1
    <3> QED
      BY <3>1, <3>2
  <2> QED
    BY <1>8, <1>11, <2>1 DEF AreAnswers
<1>13. ASSUME IsLastStep(i) PROVE Len(all) >= BeamSize
  <2>1. Ending(i, cands) = Beams
    BY <1>13 DEF Ending
  <2>2. PICK size \in Nat : size = BeamSize /\ Ending(i, cands) = 1 .. size
    BY <2>1, Sizes DEF Beams
  <2>3. order \in Surjection(1 .. count, 1 .. size)
    BY <1>3, <2>2 DEF Surjection
  <2>4. IsFiniteSet(1 .. count) /\ Cardinality(1 .. count) = count /\ Cardinality(1 .. size) = size
    <3>1. \A z \in Nat : 1 \in Int /\ z \in Int /\ (IF 1 > z THEN 0 ELSE z - 1 + 1) = z
      OBVIOUS
    <3> QED
      BY <1>3, <3>1, FS_Interval
  <2>5. size <= count
    BY <2>3, <2>4, FS_Surjection
  <2> QED
    BY <1>3, <2>2, <2>5
<1> QED
  BY <1>1, <1>3, <1>4, <1>8, <1>11, <1>12, <1>13

(* The result of a sentence: as many hypotheses as were asked for, no two  *)
(* the same, the best one first.                                           *)
Answered(rs, num, lp) ==
  /\ HypothesesDiffer(rs) /\ Len(rs) = num
  /\ \A n \in 1 .. Len(rs) - 1 : ~BetterScore(rs[n + 1], rs[n], lp)

LEMMA FinalizeIs ==
  ASSUME NEW hyps, Len(hyps) \in Nat, DOMAIN hyps = 1 .. Len(hyps),
         \A n \in DOMAIN hyps : IsResult(hyps[n]), HypothesesDiffer(hyps),
         NEW num \in Nat \ {0}, num <= Len(hyps), NEW lp
  PROVE  Answered(Finalize(hyps, num, lp), num, lp)
<1>1. PICK size \in Nat : size = Len(hyps) /\ DOMAIN hyps = 1 .. size /\ num <= size
  OBVIOUS
<1>2. PICK r : r = Ranking(hyps, lp)
  OBVIOUS
<1>3. IsRanking(r, hyps, size, lp)
  BY <1>1, <1>2, RankingIs
<1>4. /\ r \in [1 .. size -> 1 .. size]
      /\ \A m, n \in 1 .. size : r[m] = r[n] => m = n
      /\ \A m, n \in 1 .. size : m < n => ~BetterScore(hyps[r[n]], hyps[r[m]], lp)
  BY <1>3 DEF IsRanking
<1>5. Min({num, Len(hyps)}) = num
  <2>1. \A x \in {num, size} : num <= x
    <3>1. num <= num
      OBVIOUS
    <3>2. num <= size
      BY <1>1
    <3> QED
      BY <3>1, <3>2, Zenon
  <2>2. PICK S : S = {num, size}
    OBVIOUS
  <2>3. \E x \in S : \A y \in S : x <= y
    BY <2>1, <2>2
  <2>4. Min(S) \in S /\ \A y \in S : Min(S) <= y
    BY <2>3, Zenon DEF Min
  <2> QED
    BY <1>1, <2>2, <2>4
<1>6. PICK rs : rs = Finalize(hyps, num, lp)
  OBVIOUS
<1>7. rs = [n \in 1 .. num |-> hyps[r[n]]]
  BY <1>2, <1>5, <1>6, Zenon DEF Finalize
<1>8. DOMAIN rs = 1 .. num /\ Len(rs) = num /\ \A n \in 1 .. num : rs[n] = hyps[r[n]]
  BY <1>7
<1>9. \A n \in 1 .. num : n \in 1 .. size /\ r[n] \in 1 .. size
  BY <1>1, <1>4
<1>10. HypothesesDiffer(rs)
  <2> SUFFICES ASSUME NEW m \in 1 .. num, NEW n \in 1 .. num,
                      rs[m].score > Penalised, rs[n].score > Penalised, rs[m].tokens = rs[n].tokens
               PROVE  m = n
    BY <1>8 DEF HypothesesDiffer
  <2>1. r[m] = r[n]
    BY <1>1, <1>8, <1>9 DEF HypothesesDiffer
  <2> QED
    BY <1>4, <1>9, <2>1
<1>11. ASSUME NEW n \in 1 .. num - 1 PROVE ~BetterScore(rs[n + 1], rs[n], lp)
  <2>1. n \in 1 .. num /\ n + 1 \in 1 .. num /\ n < n + 1
    OBVIOUS
  <2>2. ~BetterScore(hyps[r[n + 1]], hyps[r[n]], lp)
    BY <1>4, <1>9, <2>1
  <2> QED
    BY <1>8, <2>1, <2>2
<1> QED
  BY <1>6, <1>8, <1>10, <1>11 DEF Answered

EnoughBeams(o) == o.numHypotheses <= BeamSize

LEMMA FinishedIsAnswered ==
  ASSUME GoesOn, EndsAreKnown(options), EnoughBeams(options), NEW i \in Positions,
         RowsStart(i), RowsDiffer(i), Pending(i), Answering(i), IsFinished(i, Candidates(i))
  PROVE  Answered(FinalizeResult(Registered(i, Candidates(i))),
                  options.numHypotheses, options.lengthPenalty)
<1>1. PICK all : all = Registered(i, Candidates(i))
  OBVIOUS
<1>2. /\ Len(all) \in Nat /\ DOMAIN all = 1 .. Len(all)
      /\ \A n \in DOMAIN all : IsResult(all[n])
      /\ HypothesesDiffer(all)
      /\ IsLastStep(i) => Len(all) >= BeamSize
  BY <1>1, RegisteredAnswers
<1>3. PICK num \in Nat \ {0}, max \in Nat, size \in Nat :
        /\ num = options.numHypotheses /\ max = options.maxCandidates /\ size = BeamSize
        /\ num <= max /\ num <= size
  BY Sizes DEF GoesOn, Shape, IsSearch, EnoughBeams
<1>4. num <= Len(all)
  <2>1. CASE IsLastStep(i)
    BY <1>2, <1>3, <2>1
  <2>2. CASE Len(all) >= num
    BY <1>2, <1>3, <2>2
  <2>3. CASE Len(all) >= max
    BY <1>2, <1>3, <2>3
  <2> QED
    BY <1>1, <1>3, <2>1, <2>2, <2>3 DEF IsFinished
<1> QED
  BY <1>1, <1>2, <1>3, <1>4, FinalizeIs DEF FinalizeResult

-----------------------------------------------------------------------------
(* Every sentence gets its answer.                                         *)

TextsInv == \A i \in Positions : RowsStart(i) /\ RowsDiffer(i) /\ Answering(i)

SentencesFinish ==
  /\ finished \subseteq Batch
  /\ \A b \in Batch : b \in finished \/ \E i \in Positions : batchOffset[i] = b

FinishedAreAnswered ==
  \A b \in finished : Answered(results[b], options.numHypotheses, options.lengthPenalty)

(* A sentence that is finished keeps its result.                           *)
LEMMA FinishedKeepResults ==
  ASSUME Shape, SentencesInv, SentencesFinish, NEW kept, FinishSentences(StepCandidates, kept),
         NEW b \in finished
  PROVE  results'[b] = results[b]
<1>1. {i \in Positions : batchOffset[i] = b} = {}
  BY DEF SentencesInv, Pending
<1>2. b \in Batch /\ results'[b] = ResultsAfter(StepCandidates)[b]
  BY DEF SentencesFinish, FinishSentences
<1>3. ResultsAfter(StepCandidates)[b] =
        CASE {} = {} -> results[b]
          [] {} # {} /\ IsFinished(CHOOSE j \in {} : TRUE, StepCandidates[CHOOSE j \in {} : TRUE]) ->
               FinalizeResult(Registered(CHOOSE j \in {} : TRUE, StepCandidates[CHOOSE j \in {} : TRUE]))
          [] OTHER -> Registered(CHOOSE j \in {} : TRUE, StepCandidates[CHOOSE j \in {} : TRUE])
  BY <1>1, <1>2, Zenon DEF ResultsAfter
<1>4. ({} = {}) = TRUE /\ ({} # {}) = FALSE
  OBVIOUS
<1> QED
  BY <1>2, <1>3, <1>4, Zenon

LEMMA SentencesAreAnswered ==
  ASSUME GoesOn, EndsAreKnown(options), EnoughBeams(options),
         SentencesInv, TextsInv, SentencesFinish, FinishedAreAnswered,
         NEW kept, kept = NonFinished(StepCandidates), FinishSentences(StepCandidates, kept)
  PROVE  FinishedAreAnswered'
<1>1. options' = options
  BY DEF FinishSentences
<1>2. ASSUME NEW b \in finished'
      PROVE  Answered(results'[b], options.numHypotheses, options.lengthPenalty)
  <2>1. CASE b \in finished
    <3>1. results'[b] = results[b]
      BY <2>1, FinishedKeepResults DEF GoesOn
    <3> QED
      BY <2>1, <3>1 DEF FinishedAreAnswered
  <2>2. CASE b \notin finished
    <3>1. PICK i \in Positions : batchOffset[i] = b /\ i \notin Range(kept)
      BY <1>2, <2>2 DEF FinishSentences
    <3>2. IsFinished(i, StepCandidates[i])
      BY <3>1, KeptIs DEF GoesOn, Shape
    <3>3. PICK cands : cands = Candidates(i) /\ StepCandidates[i] = cands
      BY DEF StepCandidates
    <3>4. OffsetsDiffer /\ Pending(i) /\ RowsStart(i) /\ RowsDiffer(i) /\ Answering(i)
      BY DEF SentencesInv, TextsInv
    <3>5. results'[b] = FinalizeResult(Registered(i, cands))
      BY <3>1, <3>2, <3>3, <3>4, SentenceAfterStep DEF GoesOn
    <3>6. Answered(FinalizeResult(Registered(i, cands)), options.numHypotheses, options.lengthPenalty)
      BY <3>2, <3>3, <3>4, FinishedIsAnswered
    <3> QED
      BY <3>5, <3>6
  <2> QED
    BY <2>1, <2>2
<1> QED
  BY <1>1, <1>2, Zenon DEF FinishedAreAnswered

(* Every sentence goes on or is finished.                                  *)
LEMMA SentencesGoOnOrFinish ==
  ASSUME GoesOn, SentencesFinish, ContinueSearch
  PROVE  SentencesFinish'
<1>1. Shape
  BY DEF GoesOn
<1>2. PICK kept : kept = NonFinished(StepCandidates)
  OBVIOUS
<1>3. /\ batchOffset' = [q \in DOMAIN kept |-> batchOffset[kept[q]]]
      /\ finished' = finished \cup {batchOffset[i] : i \in Positions \ Range(kept)}
      /\ options' = options
  BY <1>2 DEF ContinueSearch, FinishSentences
<1>4. Len(kept) \in Nat /\ kept \in [1 .. Len(kept) -> Positions] /\ DOMAIN kept = 1 .. Len(kept)
  BY <1>1, <1>2, KeptIs DEF Shape
<1>5. Batch' = Batch
  BY <1>3 DEF Batch
<1>6. Positions' = 1 .. Len(kept)
  BY <1>2, RowsAfterStep
<1>7. \A i \in Positions : batchOffset[i] \in Batch
  BY <1>1, LengthsOfShape
<1>8. finished' \subseteq Batch
  BY <1>3, <1>7 DEF SentencesFinish
<1>9. ASSUME NEW b \in Batch, b \notin finished'
      PROVE  \E p \in 1 .. Len(kept) : batchOffset'[p] = b
  <2>1. b \notin finished /\ b \notin {batchOffset[i] : i \in Positions \ Range(kept)}
    BY <1>3, <1>9
  <2>2. PICK i \in Positions : batchOffset[i] = b
    BY <2>1 DEF SentencesFinish
  <2>3. i \in Range(kept)
    BY <2>1, <2>2
  <2>4. PICK p \in 1 .. Len(kept) : kept[p] = i
    BY <1>4, <2>3 DEF Range
  <2> QED
    BY <1>3, <1>4, <2>2, <2>4
<1> QED
  BY <1>5, <1>6, <1>8, <1>9 DEF SentencesFinish

LEMMA TextsRemain ==
  ASSUME GoesOn, EndsAreKnown(options), SentencesInv, TextsInv, ContinueSearch
  PROVE  TextsInv'
<1>1. PICK kept : kept = NonFinished(StepCandidates)
  OBVIOUS
<1>2. /\ Positions' = 1 .. Len(kept) /\ RowBeams' = Beams /\ step' = step + 1 /\ step \in Nat
      /\ \A p, k : Row(p, k)' = (p - 1) * BeamSize + k
      /\ options' = options
  BY <1>1, RowsAfterStep
<1>3. ASSUME NEW p \in 1 .. Len(kept) PROVE (RowsStart(p) /\ RowsDiffer(p) /\ Answering(p))'
  <2>1. PICK i, cands, b : i = kept[p] /\ cands = Candidates(i) /\ b = batchOffset[i]
    OBVIOUS
  <2>2. ContinuesAt(p, i)
    BY <1>1, <2>1, SentenceContinues
  <2>3. /\ i \in Positions /\ ~IsLastStep(i) /\ batchOffset'[p] = b
        /\ results'[b] = Registered(i, cands) /\ PrefixLength(p)' = PrefixLength(i)
        /\ \A k \in Beams :
             /\ topkScores'[(p - 1) * BeamSize + k] = cands[NextBeam(i, cands, k)].score
             /\ aliveSeq'[(p - 1) * BeamSize + k] = cands[NextBeam(i, cands, k)].tokens
    BY <2>1, <2>2 DEF ContinuesAt
  <2>4. Pending(i) /\ RowsStart(i) /\ RowsDiffer(i) /\ Answering(i)
    BY <2>3 DEF SentencesInv, TextsInv
  <2>5. CandidatesStart(i, cands) /\ CandidatesDiffer(cands)
    BY <2>1, <2>3, <2>4, CandidateTexts DEF GoesOn
  <2>6. \A k \in Beams : NextBeam(i, cands, k) \in 1 .. NumCandidates
    BY NextBeamIsCandidate
  <2>7. RowsStart(p)'
    <3>1. Prefix(p)' = Prefix(i)
      BY <1>2, <2>1, <2>3 DEF Prefix
    <3>2. \A k \in Beams, n \in 1 .. PrefixLength(i) :
            n <= step + 1 => aliveSeq'[(p - 1) * BeamSize + k][n] = Prefix(i)[n]
      BY <2>3, <2>5, <2>6 DEF CandidatesStart
    <3> QED
      BY <1>2, <2>3, <3>1, <3>2, Zenon DEF RowsStart
  <2>8. RowsDiffer(p)'
    <3>1. ASSUME NEW k \in Beams, NEW l \in Beams,
                 topkScores'[(p - 1) * BeamSize + k] > Penalised,
                 topkScores'[(p - 1) * BeamSize + l] > Penalised,
                 aliveSeq'[(p - 1) * BeamSize + k] = aliveSeq'[(p - 1) * BeamSize + l]
          PROVE  k = l
      <4>1. PICK m \in 1 .. NumCandidates, n \in 1 .. NumCandidates :
              m = NextBeam(i, cands, k) /\ n = NextBeam(i, cands, l)
        BY <2>6
      <4>2. cands[m].score > Penalised /\ cands[n].score > Penalised /\ cands[m].tokens = cands[n].tokens
        BY <2>3, <3>1, <4>1
      <4>3. m = n
        BY <2>5, <4>2 DEF CandidatesDiffer
      <4> QED
        BY <4>1, <4>3, NextBeamsDiffer
    <3> QED
      BY <1>2, <3>1, Zenon DEF RowsDiffer
  <2>9. Answering(p)'
    <3>1. AreAnswers(Registered(i, cands), NewLength(b) + 1)
      BY <2>1, <2>3, <2>4, RegisteredAnswers
    <3>2. NewLength(b)' = NewLength(b) + 1
      <4>1. Start(b)' = Start(b)
        BY <1>2 DEF Start
      <4>2. PICK start \in Nat : start = Start(b)
        BY <2>1, <2>3, StartIs DEF GoesOn
      <4> QED
        BY <1>2, <4>1, <4>2 DEF NewLength
    <3>3. NewLength(batchOffset[p])' = NewLength(b)'
      BY <2>3 DEF NewLength, Start
    <3>4. AreAnswers(results'[b], NewLength(b) + 1)
      BY <2>3, <3>1
    <3>5. AreAnswers(results[batchOffset[p]], NewLength(batchOffset[p]))'
          = AreAnswers(results'[batchOffset'[p]], NewLength(batchOffset[p])')
      BY DEF AreAnswers, HypothesesDiffer, IsResult
    <3> QED
      BY <2>3, <3>2, <3>3, <3>4, <3>5 DEF Answering
  <2> QED
    BY <2>7, <2>8, <2>9
<1> QED
  BY <1>2, <1>3 DEF TextsInv

LEMMA TextsStart ==
  ASSUME InitSearch, Shape
  PROVE  TextsInv /\ SentencesFinish /\ FinishedAreAnswered
<1>1. /\ step = 0 /\ batchOffset = [b \in Batch |-> b]
      /\ results = [b \in Batch |-> <<>>] /\ finished = {}
  BY DEF InitSearch
<1>2. PICK N \in Nat : N = Len(options.prefixes) /\ Batch = 1 .. N
  BY DEF Shape, IsSearch, Batch
<1>3. Positions = 1 .. N
  BY <1>1, <1>2 DEF Positions
<1>4. SentencesFinish /\ FinishedAreAnswered
  BY <1>1, <1>2, <1>3 DEF SentencesFinish, FinishedAreAnswered
<1>5. ASSUME NEW i \in Positions PROVE RowsStart(i) /\ Answering(i)
  <2>1. \A n \in 1 .. PrefixLength(i) : ~(n <= step)
    BY <1>1, LengthsOfShape
  <2>2. results[batchOffset[i]] = <<>>
    BY <1>1, <1>2, <1>3
  <2>3. DOMAIN results[batchOffset[i]] = {}
    BY <2>2
  <2> QED
    BY <2>1, <2>3 DEF RowsStart, Answering, AreAnswers, HypothesesDiffer
<1>6. ASSUME NEW i \in Positions, NEW k \in RowBeams, topkScores[Row(i, k)] > Penalised
      PROVE  k = 1
  <2>1. CASE options.expandAfterFirst
    <3>1. RowBeams = {1}
      <4>1. ~(step > 0)
        BY <1>1
      <4> QED
        BY <2>1, <4>1 DEF RowBeams, IsExpanded
    <3> QED
      BY <3>1
  <2>2. CASE ~options.expandAfterFirst
    <3>1. topkScores = [r \in DOMAIN topkIds |-> IF (r - 1) % BeamSize = 0 THEN 0 ELSE Lowest]
      BY <2>2 DEF InitSearch
    <3>2. PICK n \in Nat \ {0} : n = BeamSize
      BY Sizes
    <3>3. k \in 1 .. n
      BY <2>2, <3>2 DEF RowBeams, IsExpanded, Beams
    <3>4. PICK r \in Nat \ {0} : r = (i - 1) * n + k /\ ((r - 1) % n) + 1 = k
      <4>1. i \in Nat \ {0}
        BY <1>3
      <4> QED
        BY <3>3, <4>1, RowsFlat
    <3>5. Row(i, k) = r
      BY <2>2, <3>2, <3>4 DEF Row, IsExpanded
    <3>6. r \in DOMAIN topkIds
      <4>1. Row(i, k) \in RowNumbers
        BY RowsOfShape
      <4> QED
        BY <3>5, <4>1 DEF Shape
    <3>7. topkScores[r] = IF (r - 1) % n = 0 THEN 0 ELSE Lowest
      BY <3>1, <3>2, <3>6
    <3>8. (r - 1) % n = 0
      <4>1. ~(Lowest > Penalised)
        BY Sizes
      <4> QED
        BY <1>6, <3>5, <3>7, <4>1
    <3>9. PICK x \in Int : x = (r - 1) % n
      BY <3>8
    <3>10. x = 0 /\ x + 1 = k
      BY <3>4, <3>8, <3>9, Zenon
    <3> QED
      BY <3>10
  <2> QED
    BY <2>1, <2>2
<1>7. \A i \in Positions : RowsDiffer(i)
  BY <1>6 DEF RowsDiffer
<1> QED
  BY <1>4, <1>5, <1>7 DEF TextsInv

(* The invariant of the answers.                                           *)
AnswerInv ==
  /\ IInv
  /\ EndsAreKnown(options) /\ EnoughBeams(options)
  /\ SentencesFinish /\ FinishedAreAnswered
  /\ IF searching THEN SentencesInv /\ TextsInv ELSE finished = Batch

LEMMA AnswersStart ==
  ASSUME InitSearch, IInv, EndsAreKnown(options), EnoughBeams(options)
  PROVE  AnswerInv
<1>1. searching /\ Shape
  BY DEF InitSearch, IInv, GoesOn
<1> QED
  BY <1>1, CoverStarts, TextsStart DEF AnswerInv

LEMMA AnswersStep ==
  ASSUME AnswerInv, [StopSearch \/ ContinueSearch]_vars
  PROVE  AnswerInv'
<1>1. IInv'
  BY SearchSteps DEF AnswerInv
<1>2. EndsAreKnown(options)' /\ EnoughBeams(options)'
  <2>1. options' = options
    BY DEF StopSearch, ContinueSearch, FinishSentences, vars
  <2> QED
    BY <2>1 DEF AnswerInv, EndsAreKnown, OneEndToken, EnoughBeams
<1>3. CASE StopSearch
  <2>1. searching /\ ~searching'
    BY <1>3 DEF StopSearch
  <2>2. GoesOn /\ SentencesInv /\ TextsInv /\ SentencesFinish /\ FinishedAreAnswered
        /\ EndsAreKnown(options) /\ EnoughBeams(options)
    BY <2>1 DEF IInv, AnswerInv
  <2>3. PICK kept : kept = NonFinished(StepCandidates) /\ kept = <<>>
    BY <1>3 DEF StopSearch
  <2>4. FinishSentences(StepCandidates, kept)
    BY <1>3, <2>3 DEF StopSearch
  <2>5. FinishedAreAnswered'
    BY <2>2, <2>3, <2>4, SentencesAreAnswered
  <2>6. finished' = Batch /\ Batch' = Batch
    <3>1. Range(kept) = {}
      BY <2>3 DEF Range
    <3>2. finished' = finished \cup {batchOffset[i] : i \in Positions} /\ options' = options
      BY <2>4, <3>1 DEF FinishSentences
    <3>3. \A i \in Positions : batchOffset[i] \in Batch
      BY <2>2, LengthsOfShape DEF GoesOn
    <3> QED
      BY <2>2, <3>2, <3>3 DEF SentencesFinish, Batch
  <2>7. SentencesFinish'
    BY <2>6 DEF SentencesFinish
  <2> QED
    BY <1>1, <1>2, <2>1, <2>5, <2>6, <2>7 DEF AnswerInv
<1>4. CASE ContinueSearch
  <2>1. searching
    BY <1>4 DEF ContinueSearch
  <2>2. GoesOn /\ SentencesInv /\ TextsInv /\ SentencesFinish /\ FinishedAreAnswered
        /\ EndsAreKnown(options) /\ EnoughBeams(options)
    BY <2>1 DEF IInv, AnswerInv
  <2>3. PICK kept : kept = NonFinished(StepCandidates)
    OBVIOUS
  <2>4. FinishSentences(StepCandidates, kept)
    BY <1>4, <2>3 DEF ContinueSearch
  <2>5. FinishedAreAnswered'
    BY <2>2, <2>3, <2>4, SentencesAreAnswered
  <2>6. searching' /\ SentencesInv' /\ TextsInv' /\ SentencesFinish'
    BY <1>4, <2>2, ContinueStep, SentencesRemain, TextsRemain, SentencesGoOnOrFinish
  <2> QED
    BY <1>1, <1>2, <2>5, <2>6 DEF AnswerInv
<1>5. CASE UNCHANGED vars
  <2>1. SentencesInv => SentencesInv'
    BY <1>5 DEF vars, SentencesInv, OffsetsDiffer, Pending, Positions
  <2>2. TextsInv => TextsInv'
    BY <1>5 DEF vars, TextsInv, RowsStart, RowsDiffer, Answering, NewLength, Start, Positions,
                PrefixLength, Prefix, RowBeams, Row, IsExpanded
  <2>3. (SentencesFinish => SentencesFinish') /\ Batch' = Batch
    BY <1>5 DEF vars, SentencesFinish, Batch, Positions
  <2>4. FinishedAreAnswered => FinishedAreAnswered'
    BY <1>5 DEF vars, FinishedAreAnswered
  <2>5. searching' = searching /\ finished' = finished
    BY <1>5 DEF vars
  <2> QED
    BY <1>1, <1>2, <2>1, <2>2, <2>3, <2>4, <2>5 DEF AnswerInv
<1> QED
  BY <1>3, <1>4, <1>5

LEMMA AnswersFollow == AnswerInv => EverySentenceIsAnswered
BY DEF AnswerInv, EverySentenceIsAnswered, FinishedAreAnswered, Answered

(* When BeamSearch::search ends every sentence has its final result, with  *)
(* as many hypotheses as were asked for, the best one first and no two the *)
(* same, as long as there are no more of them than beams and an end token  *)
(* that is cut off cannot be mistaken for another one.                     *)
THEOREM EverySentenceGetsItsHypotheses ==
  ASSUME \A o \in Options : EndsAreKnown(o) /\ EnoughBeams(o)
  PROVE  Spec => []EverySentenceIsAnswered
<1>1. Init => AnswerInv
  <2> SUFFICES ASSUME Init PROVE AnswerInv
    OBVIOUS
  <2>1. options \in Options /\ InitSearch
    BY DEF Init
  <2>2. IsSearch(options) /\ \A m \in Models : Batch \subseteq DOMAIN m
    BY <2>1, BeamSearchAssumption DEF Batch
  <2> QED
    BY <2>1, <2>2, SearchStarts, AnswersStart
<1>2. AnswerInv /\ [Next]_vars => AnswerInv'
  BY AnswersStep DEF Next, Terminated
<1> QED
  BY <1>1, <1>2, AnswersFollow, PTL DEF Spec

(* The expansion of decode_alternatives always finds a word for each beam. *)
THEOREM EveryExpansionGetsItsWords ==
  ASSUME \A o \in Options : EndsAreKnown(o) /\ EnoughBeams(o),
         \A r \in AllRequests : EndsAreKnown(r.search)
  PROVE  SpecAll => []EverySentenceIsAnswered
<1>1. InitAll => AnswerInv
  <2> SUFFICES ASSUME InitAll PROVE AnswerInv
    OBVIOUS
  <2>1. InitSearch
    BY DEF InitAll
  <2>2. IInv
    BY StartsInAlternatives
  <2>3. EndsAreKnown(options) /\ EnoughBeams(options)
    <3>1. CASE InitAlternatives
      <4>1. PICK r \in AllRequests : options = Expansion(r)
        BY <3>1 DEF InitAlternatives
      <4>2. /\ Expansion(r).endIds = r.search.endIds
            /\ Expansion(r).includeEos = r.search.includeEos
            /\ Expansion(r).numHypotheses = BeamSize
        <5>1. r.search \in [maxLength : Nat \ {0}, minLength : Nat, lengthPenalty : {0, 1},
                            numHypotheses : Nat \ {0}, maxCandidates : Nat,
                            returnPrefix : BOOLEAN, includeEos : BOOLEAN, endIds : SUBSET Tokens,
                            prefixes : Seq(Seq(Tokens)), startIds : Seq(Tokens),
                            forwarded : Seq(Seq(Tokens)),
                            expandAfterFirst : BOOLEAN, firstWins : BOOLEAN]
          BY AlternativesAssumption DEF IsSearch
        <5> QED
          BY <5>1 DEF Expansion
      <4>3. BeamSize <= BeamSize
        BY Sizes
      <4> QED
        BY <4>1, <4>2, <4>3 DEF EndsAreKnown, OneEndToken, EnoughBeams
    <3>2. CASE options \in Options
      BY <3>2
    <3> QED
      BY <3>1, <3>2 DEF InitAll
  <2> QED
    BY <2>1, <2>2, <2>3, AnswersStart
<1>2. AnswerInv /\ [NextAll]_allVars => AnswerInv'
  <2> SUFFICES ASSUME AnswerInv, [NextAll]_allVars PROVE AnswerInv'
    OBVIOUS
  <2>1. [StopSearch \/ ContinueSearch]_vars
    BY DEF NextAll, allVars, Search, KeepAlternatives, ContinueAlternatives, Return
  <2> QED
    BY <2>1, AnswersStep
<1> QED
  BY <1>1, <1>2, AnswersFollow, PTL DEF SpecAll

-----------------------------------------------------------------------------
(* End tokens.                                                             *)

EndsAt(cands) == {n \in 1 .. NumCandidates : IsEos(cands[n])}

LEMMA DisjointUnion ==
  ASSUME NEW S, NEW T, IsFiniteSet(S), IsFiniteSet(T), S \cap T = {}
  PROVE  /\ Cardinality(S) \in Nat /\ Cardinality(T) \in Nat /\ Cardinality(S \cup T) \in Nat
         /\ Cardinality(S \cup T) = Cardinality(S) + Cardinality(T)
<1>1. PICK s \in Nat, t \in Nat : s = Cardinality(S) /\ t = Cardinality(T)
  BY FS_CardinalityType
<1>2. Cardinality(S \cup T) = Cardinality(S) + Cardinality(T) - Cardinality(S \cap T)
  BY FS_Union
<1>3. Cardinality(S \cap T) = 0
  BY FS_EmptySet
<1>4. (s + t) - 0 = s + t /\ s + t \in Nat
  OBVIOUS
<1> QED
  BY <1>1, <1>2, <1>3, <1>4

(* No row has two candidates that end: there are no more of them than rows.*)
LEMMA EndsAreFew ==
  ASSUME Shape, OneEndToken(options), NEW i \in Positions, step >= PrefixLength(i)
  PROVE  /\ IsFiniteSet(EndsAt(Candidates(i)))
         /\ Cardinality(EndsAt(Candidates(i))) <= BeamSize
<1> DEFINE E == EndsAt(Candidates(i))
           c(n) == TopK(i)[n]
           d(n) == Constrained(i, c(n), n)
<1>1. step \in Nat /\ PrefixLength(i) \in Nat
  BY LengthsOfShape
<1>2. \A n \in 1 .. NumCandidates :
        /\ c(n) \in Cells(i) /\ IsCell(i, c(n))
        /\ Cardinality({x \in Cells(i) : IsBetter(x, c(n))}) = n - 1
  BY BestCells
<1>3. ASSUME NEW n \in E PROVE n \in 1 .. NumCandidates /\ c(n).id \in options.endIds
  <2>1. n \in 1 .. NumCandidates /\ d(n).id \in options.endIds
    BY DEF EndsAt, IsEos, Candidates
  <2>2. ~(step < PrefixLength(i))
    BY <1>1
  <2>3. d(n) = c(n) \/ c(n).id \in options.endIds
    BY <2>2, Zenon DEF Constrained
  <2> QED
    BY <2>1, <2>3
<1> HIDE DEF d, c, E
<1>4. PICK f : f = [n \in E |-> c(n).beam]
  OBVIOUS
<1>5. \A n \in E : f[n] \in RowBeams
  BY <1>2, <1>3, <1>4 DEF IsCell
<1>6. ASSUME NEW m \in E, NEW n \in E, f[m] = f[n] PROVE m = n
  <2>1. c(m).beam = c(n).beam
    BY <1>4, <1>6
  <2>2. c(m).id = c(n).id
    BY <1>3 DEF OneEndToken
  <2>3. PICK x \in Cells(i), y \in Cells(i) :
          /\ x = c(m) /\ y = c(n)
          /\ Cardinality({z \in Cells(i) : IsBetter(z, x)}) = m - 1
          /\ Cardinality({z \in Cells(i) : IsBetter(z, y)}) = n - 1
    BY <1>2, <1>3
  <2>4. x = y
    BY <2>1, <2>2, <2>3, CellsDiffer
  <2>5. m - 1 = n - 1 /\ m \in 1 .. NumCandidates /\ n \in 1 .. NumCandidates
    BY <1>3, <2>3, <2>4
  <2> QED
    BY <2>5
<1>7. f \in Injection(E, RowBeams)
  <2>1. f \in [E -> RowBeams]
    BY <1>4, <1>5
  <2>2. \A m, n \in E : f[m] = f[n] => m = n
    BY <1>6
  <2> QED
    BY <2>1, <2>2 DEF Injection, IsInjective
<1>8. PICK s \in Nat \ {0}, p \in Nat \ {0} : s = BeamSize /\ p = PerSentence /\ p <= s
  <2>1. PerSentence = BeamSize \/ PerSentence = 1
    BY DEF PerSentence
  <2> QED
    BY <2>1, Sizes
<1>9. IsFiniteSet(RowBeams) /\ Cardinality(RowBeams) = p
  <2>1. 1 \in Int /\ p \in Int /\ (IF 1 > p THEN 0 ELSE p - 1 + 1) = p
    OBVIOUS
  <2>2. RowBeams = 1 .. p
    BY <1>8, RowsOfShape
  <2> QED
    BY <2>1, <2>2, FS_Interval
<1>10. IsFiniteSet(E) /\ Cardinality(E) <= p
  BY <1>7, <1>9, FS_Injection
<1>11. Cardinality(E) \in Nat
  BY <1>10, FS_CardinalityType
<1> QED
  BY <1>8, <1>10, <1>11 DEF E

(* So there is a spare for every beam that ends.                           *)
LEMMA SparesSuffice ==
  ASSUME Shape, OneEndToken(options), NEW i \in Positions, step >= PrefixLength(i),
         ~IsLastStep(i), NEW k \in Beams
  PROVE  Cardinality(EndedUpTo(i, Candidates(i), k)) <= Cardinality(Spares(Candidates(i)))
<1>1. PICK cands : cands = Candidates(i)
  OBVIOUS
<1>2. PICK s \in Nat \ {0} : s = BeamSize /\ NumCandidates = 2 * s
  BY Sizes
<1> DEFINE E == EndsAt(cands)
           E1 == {n \in E : n <= s}
           E2 == {n \in E : n > s}
           R == s + 1 .. 2 * s
           P == Spares(cands)
           U == EndedUpTo(i, cands, k)
<1>3. IsFiniteSet(E) /\ Cardinality(E) <= s
  BY <1>1, <1>2, EndsAreFew
<1>4. E \subseteq 1 .. 2 * s
  BY <1>2 DEF EndsAt
<1>5. \A n \in E : n \in Int
  BY <1>4
<1>6. E1 \cup E2 = E /\ E1 \cap E2 = {} /\ E1 \in SUBSET E /\ E2 \in SUBSET E
  BY <1>5
<1>7. P \cup E2 = R /\ P \cap E2 = {} /\ P \in SUBSET R
  <2>1. \A n : n \in P <=> n \in R /\ ~IsEos(cands[n])
    BY <1>2 DEF Spares
  <2>2. \A n : n \in E2 <=> n \in R /\ IsEos(cands[n])
    <3>1. \A n : n \in R <=> n \in 1 .. 2 * s /\ n > s
      OBVIOUS
    <3> QED
      BY <1>2, <3>1 DEF EndsAt
  <2> HIDE DEF E2, P, R
  <2> QED
    BY <2>1, <2>2
<1>8. U \in SUBSET E1
  <2>1. ASSUME NEW m \in U PROVE m \in E1
    <3>1. m \in Beams /\ IsEos(cands[m])
      BY DEF EndedUpTo, Ending
    <3>2. m \in 1 .. 2 * s /\ m <= s
      BY <1>2, <3>1 DEF Beams
    <3> QED
      BY <1>2, <3>1, <3>2 DEF EndsAt
  <2> QED
    BY <2>1
<1>9. IsFiniteSet(R) /\ Cardinality(R) = s
  <2>1. s + 1 \in Int /\ 2 * s \in Int /\ (IF s + 1 > 2 * s THEN 0 ELSE 2 * s - (s + 1) + 1) = s
    OBVIOUS
  <2> QED
    BY <2>1, FS_Interval
<1> HIDE DEF E, E1, E2, R, P, U
<1>10. IsFiniteSet(E1) /\ IsFiniteSet(E2) /\ IsFiniteSet(P)
  BY <1>3, <1>6, <1>7, <1>9, FS_Subset
<1>11. /\ Cardinality(E1) \in Nat /\ Cardinality(E2) \in Nat /\ Cardinality(E) \in Nat
       /\ Cardinality(E) = Cardinality(E1) + Cardinality(E2)
  BY <1>6, <1>10, DisjointUnion
<1>12. Cardinality(P) \in Nat /\ s = Cardinality(P) + Cardinality(E2)
  BY <1>7, <1>9, <1>10, DisjointUnion
<1>13. Cardinality(U) <= Cardinality(E1) /\ Cardinality(U) \in Nat
  BY <1>8, <1>10, FS_Subset, FS_CardinalityType
<1>14. Cardinality(U) <= Cardinality(P)
  BY <1>3, <1>11, <1>12, <1>13
<1> QED
  BY <1>1, <1>14 DEF U, P

(* Only words go on.                                                       *)
LEMMA NextBeamIsWord ==
  ASSUME Shape, OneEndToken(options), NEW i \in Positions, step >= PrefixLength(i),
         ~IsLastStep(i), NEW k \in Beams
  PROVE  ~IsEos(Candidates(i)[NextBeam(i, Candidates(i), k)])
<1>1. PICK cands : cands = Candidates(i)
  OBVIOUS
<1>2. CASE k \in Ending(i, cands)
  <2>1. NextBeam(i, cands, k) \in Spares(cands)
    BY <1>1, <1>2, SparesSuffice, NextBeamIs
  <2> QED
    BY <1>1, <2>1 DEF Spares
<1>3. CASE k \notin Ending(i, cands)
  <2>1. NextBeam(i, cands, k) = k
    BY <1>3, NextBeamIs
  <2>2. ~IsEos(cands[k])
    BY <1>3 DEF Ending
  <2> QED
    BY <1>1, <2>1, <2>2
<1> QED
  BY <1>2, <1>3

(* Before the minimum length an end token has the lowest score.            *)
LEMMA EndsAreLow ==
  ASSUME Shape, ~HasPrefix, step < options.minLength, NEW i \in Positions,
         NEW n \in 1 .. NumCandidates, IsEos(Candidates(i)[n])
  PROVE  Candidates(i)[n].score <= Lowest
<1>1. PICK c : c = TopK(i)[n] /\ IsCell(i, c)
  BY BestCells
<1>2. Constrained(i, c, n) = c
  BY DEF Constrained
<1>3. Candidates(i)[n].score = c.score /\ c.id \in options.endIds
  BY <1>1, <1>2 DEF Candidates, IsEos
<1>4. PICK r : r = Row(i, c.beam) /\ r \in RowNumbers
  BY <1>1, RowsOfShape DEF IsCell
<1>5. r \in MinLengthRows /\ topkScores[r] \in Int
  BY <1>4 DEF Shape, MinLengthRows
<1>6. c.score = Plus(topkScores[r], Lowest)
  BY <1>1, <1>3, <1>4, <1>5 DEF IsCell, Score
<1>7. Plus(topkScores[r], Lowest) <= Lowest
  BY <1>5, Sizes DEF Plus
<1> QED
  BY <1>3, <1>6, <1>7

(* The minimum length counts the words of a text that has no prefix.       *)
MinimumApplies(o) == o.minLength = 0 \/ \A b \in DOMAIN o.prefixes : o.prefixes[b] = <<>>

(* The texts of a sentence have no end token after the prefix.             *)
RowsAreWords(i) ==
  \A k \in RowBeams, n \in PrefixLength(i) + 1 .. step :
    aliveSeq[Row(i, k)][n] \notin options.endIds

FirstWord(b) == IF options.returnPrefix THEN Len(options.prefixes[b]) + 1 ELSE 1
WordsOf(h) == {n \in DOMAIN h.tokens : h.tokens[n] \notin options.endIds}

EndsInTime(b, h) ==
  /\ IsResult(h)
  /\ \A n \in FirstWord(b) .. Len(h.tokens) - 1 : h.tokens[n] \notin options.endIds
  /\ Len(h.tokens) <= options.maxLength
  /\ h.score > Lowest => Cardinality(WordsOf(h)) >= options.minLength

LEMMA CandidatesAreWords ==
  ASSUME GoesOn, NEW i \in Positions, RowsAreWords(i), NEW m \in 1 .. NumCandidates,
         NEW n \in PrefixLength(i) + 1 .. step
  PROVE  Candidates(i)[m].tokens[n] \notin options.endIds
<1>1. PICK d : d = Constrained(i, TopK(i)[m], m)
  OBVIOUS
<1>2. d.beam \in RowBeams /\ d.id \in Tokens
  BY <1>1, ConstrainedFollows DEF GoesOn
<1>3. PICK r : r = Row(i, d.beam) /\ r \in RowNumbers
  BY <1>2, RowsOfShape DEF GoesOn
<1>4. Candidates(i)[m].tokens = Append(aliveSeq[r], d.id)
  BY <1>1, <1>3 DEF Candidates
<1>5. PICK s \in Seq(Tokens), x \in Tokens : s = aliveSeq[r] /\ x = d.id /\ Len(s) = step
  BY <1>2, <1>3 DEF GoesOn, Shape, RowsFollow
<1>6. n \in 1 .. step
  BY LengthsOfShape DEF GoesOn
<1>7. Append(s, x)[n] = s[n]
  BY <1>5, <1>6
<1>8. s[n] \notin options.endIds
  BY <1>2, <1>3, <1>5 DEF RowsAreWords
<1> QED
  BY <1>4, <1>5, <1>7, <1>8

(* As many places as there are words at the start.                         *)
LEMMA ManyWords ==
  ASSUME NEW h, h.tokens \in Seq(Tokens), NEW l \in Nat, l <= Len(h.tokens),
         \A n \in 1 .. l : h.tokens[n] \notin options.endIds
  PROVE  Cardinality(WordsOf(h)) \in Nat /\ Cardinality(WordsOf(h)) >= l
<1>1. PICK size \in Nat : size = Len(h.tokens) /\ DOMAIN h.tokens = 1 .. size
  OBVIOUS
<1>2. PICK W : W = WordsOf(h)
  OBVIOUS
<1>3. W \in SUBSET (1 .. size)
  BY <1>1, <1>2 DEF WordsOf
<1>4. 1 .. l \in SUBSET W
  <2>1. \A n \in 1 .. l : n \in 1 .. size
    BY <1>1
  <2> QED
    BY <1>1, <1>2, <2>1 DEF WordsOf
<1>5. IsFiniteSet(1 .. size) /\ Cardinality(1 .. l) = l
  <2>1. 1 \in Int /\ size \in Int /\ l \in Int /\ (IF 1 > l THEN 0 ELSE l - 1 + 1) = l
    OBVIOUS
  <2> QED
    BY <2>1, FS_Interval
<1>6. IsFiniteSet(W)
  BY <1>3, <1>5, FS_Subset
<1>7. Cardinality(W) \in Nat /\ l <= Cardinality(W)
  BY <1>4, <1>5, <1>6, FS_Subset, FS_CardinalityType
<1> QED
  BY <1>2, <1>7

LEMMA HypothesisInTime ==
  ASSUME GoesOn, MinimumApplies(options), NEW i \in Positions, RowsAreWords(i),
         NEW k \in Ending(i, Candidates(i))
  PROVE  EndsInTime(batchOffset[i], Hypothesis(i, Candidates(i)[k]))
<1>1. PICK c, h, b : c = Candidates(i)[k] /\ h = Hypothesis(i, c) /\ b = batchOffset[i]
  OBVIOUS
<1>2. k \in 1 .. NumCandidates /\ CandidateIs(c)
  BY <1>1, EndingAre, CandidatesAre
<1>3. PICK start \in Nat : start = Start(b) /\ start <= step
  BY <1>1, StartIs DEF GoesOn
<1>4. HypothesisOf(h, c, start, Cut(c))
  BY <1>1, <1>2, <1>3, HypothesisIs DEF GoesOn
<1>5. PICK p \in Nat : p = PrefixLength(i) /\ p = Len(options.prefixes[b]) /\ step \in Nat
  BY <1>1, LengthsOfShape DEF GoesOn, PrefixLength, Prefix
<1>6. PICK end \in {step, step + 1} :
        end = Cut(c) /\ end = IF IsEos(c) /\ ~options.includeEos THEN step ELSE step + 1
  BY DEF Cut
<1>7. PICK l \in Nat : l = Len(h.tokens)
  BY <1>4 DEF HypothesisOf
<1>8. /\ l = end - start /\ h.tokens \in Seq(Tokens) /\ h.score = c.score
      /\ \A n \in 1 .. l : h.tokens[n] = c.tokens[start + n]
  BY <1>4, <1>6, <1>7 DEF HypothesisOf
<1>9. IsResult(h)
  BY <1>1, NewHypotheses
<1>10. /\ options.maxLength \in Nat /\ options.minLength \in Nat
       /\ options.minLength <= options.maxLength
       /\ start = IF options.returnPrefix THEN 0 ELSE p
  BY <1>3, <1>5 DEF GoesOn, Shape, IsSearch, Start
<1>11. l <= options.maxLength
  <2>1. step < options.maxLength + start
    BY <1>5, <1>10 DEF GoesOn, StepsAreLeft
  <2>2. PICK max \in Nat, now \in Nat : max = options.maxLength /\ now = step /\ now < max + start
    BY <1>5, <1>10, <2>1
  <2>3. end = now \/ end = now + 1
    BY <1>6, <2>2
  <2>4. l <= max
    BY <1>8, <2>2, <2>3
  <2> QED
    BY <2>2, <2>4
<1>12. \A n \in p + 1 .. step : c.tokens[n] \notin options.endIds
  BY <1>1, <1>2, <1>5, CandidatesAreWords
<1>13. ASSUME NEW n \in FirstWord(b) .. l - 1 PROVE h.tokens[n] \notin options.endIds
  <2>1. n \in 1 .. l /\ start + n \in p + 1 .. step
    <3>1. PICK first \in Nat : first = FirstWord(b) /\ first = IF options.returnPrefix THEN p + 1 ELSE 1
      BY <1>5 DEF FirstWord
    <3>2. n \in Int /\ first <= n /\ n <= l - 1
      BY <3>1
    <3>3. first + start = p + 1 /\ first >= 1
      BY <1>10, <3>1
    <3>4. PICK now \in Nat : now = step /\ l + start <= now + 1
      <4>1. end <= step + 1
        BY <1>5, <1>6
      <4> QED
        BY <1>5, <1>6, <1>8, <4>1
    <3>5. n \in 1 .. l /\ start + n \in p + 1 .. now
      BY <3>2, <3>3, <3>4
    <3> QED
      BY <3>4, <3>5
  <2> QED
    BY <1>8, <1>12, <2>1
<1>14. ASSUME h.score > Lowest PROVE Cardinality(WordsOf(h)) >= options.minLength
  <2>1. CASE options.minLength = 0
    <3>1. \A n \in 1 .. 0 : h.tokens[n] \notin options.endIds
      OBVIOUS
    <3>2. 0 \in Nat /\ 0 <= Len(h.tokens)
      BY <1>7
    <3>3. Cardinality(WordsOf(h)) \in Nat /\ Cardinality(WordsOf(h)) >= 0
      BY <1>8, <3>1, <3>2, ManyWords
    <3> QED
      BY <2>1, <3>3
  <2>2. CASE options.minLength # 0
    <3>1. ~HasPrefix
      BY <2>2 DEF MinimumApplies, HasPrefix, Batch
    <3>2. p = 0 /\ start = 0
      <4>1. b \in Batch
        BY <1>1, LengthsOfShape DEF GoesOn
      <4>2. options.prefixes[b] = <<>>
        BY <3>1, <4>1 DEF HasPrefix
      <4>3. p = 0
        BY <1>5, <4>2
      <4> QED
        BY <1>10, <4>3
    <3>3. PICK words \in Nat : /\ words <= l /\ words >= options.minLength
                               /\ \A n \in 1 .. words : c.tokens[n] \notin options.endIds
      <4>1. CASE IsEos(c)
        <5>1. step >= options.minLength
          <6>1. CASE step < options.minLength
            <7>1. c.score <= Lowest
              BY <1>1, <1>2, <3>1, <4>1, <6>1, EndsAreLow DEF GoesOn
            <7>2. c.score \in Int
              BY <1>2 DEF CandidateIs
            <7> QED
              BY <1>8, <1>14, <7>1, <7>2, Sizes
          <6> QED
            BY <1>5, <1>10, <6>1
        <5>2. step <= l /\ \A n \in 1 .. step : c.tokens[n] \notin options.endIds
          BY <1>5, <1>6, <1>8, <1>12, <3>2
        <5> QED
          BY <1>5, <5>1, <5>2
      <4>2. CASE ~IsEos(c)
        <5>1. IsLastStep(i)
          BY <1>1, <4>2 DEF Ending
        <5>2. step + 1 = options.maxLength
          <6>1. step + 1 = options.maxLength + (IF options.returnPrefix THEN 0 ELSE p)
            BY <1>5, <5>1 DEF IsLastStep, LastStep
          <6> QED
            BY <1>10, <3>2, <6>1
        <5>3. end = step + 1 /\ l = step + 1
          BY <1>5, <1>6, <1>8, <3>2, <4>2
        <5>4. c.tokens[step + 1] \notin options.endIds
          BY <1>2, <4>2 DEF CandidateIs, IsEos
        <5>5. \A n \in 1 .. step + 1 : n = step + 1 \/ n \in p + 1 .. step
          BY <1>5, <3>2
        <5>6. \A n \in 1 .. step + 1 : c.tokens[n] \notin options.endIds
          BY <1>12, <5>4, <5>5
        <5>7. step + 1 \in Nat /\ step + 1 <= l /\ step + 1 >= options.minLength
          BY <1>5, <1>10, <5>2, <5>3
        <5> QED
          BY <5>6, <5>7
      <4> QED
        BY <4>1, <4>2
    <3>4. \A n \in 1 .. words : h.tokens[n] \notin options.endIds
      <4>1. \A n \in 1 .. words : n \in 1 .. l /\ start + n = n
        BY <3>2, <3>3
      <4> QED
        BY <1>8, <3>3, <4>1
    <3>5. Cardinality(WordsOf(h)) \in Nat /\ Cardinality(WordsOf(h)) >= words
      BY <1>7, <1>8, <3>3, <3>4, ManyWords
    <3> QED
      BY <1>10, <3>3, <3>5
  <2> QED
    BY <2>1, <2>2
<1> QED
  BY <1>1, <1>7, <1>9, <1>11, <1>13, <1>14 DEF EndsInTime

AllInTime(b, rs) == \A n \in DOMAIN rs : EndsInTime(b, rs[n])

LEMMA RegisteredInTime ==
  ASSUME GoesOn, MinimumApplies(options), NEW i \in Positions, RowsAreWords(i), Pending(i),
         AllInTime(batchOffset[i], results[batchOffset[i]])
  PROVE  LET all == Registered(i, Candidates(i))
         IN  /\ Len(all) \in Nat /\ DOMAIN all = 1 .. Len(all)
             /\ AllInTime(batchOffset[i], all)
<1>1. PICK cands, old, all, b : /\ cands = Candidates(i) /\ b = batchOffset[i] /\ old = results[b]
                                /\ all = Registered(i, cands)
  OBVIOUS
<1>2. PICK length, order, count : AreParts(all, old, length, i, cands, order, count)
  <2>1. \A n \in 1 .. NumCandidates : cands[n].score \in Int
    BY <1>1, CandidatesFollow DEF GoesOn, IsCandidate
  <2>2. IsScored(results[batchOffset[i]])
    BY DEF Pending
  <2> QED
    BY <1>1, <2>1, <2>2, RegisteredParts
<1>3. /\ length \in Nat /\ count \in Nat
      /\ Len(all) = length + count /\ DOMAIN all = 1 .. length + count /\ DOMAIN old = 1 .. length
      /\ order \in [1 .. count -> Ending(i, cands)]
      /\ \A n \in 1 .. length : all[n] = old[n]
      /\ \A n \in 1 .. count : all[length + n] = Hypothesis(i, cands[order[n]])
  BY <1>2 DEF AreParts
<1>4. ASSUME NEW n \in 1 .. length + count PROVE EndsInTime(b, all[n])
  <2>1. CASE n \in 1 .. length
    BY <1>1, <1>3, <2>1 DEF AllInTime
  <2>2. CASE n \notin 1 .. length
    <3>1. PICK m \in 1 .. count : n = length + m
      <4>1. n - length \in 1 .. count /\ n = length + (n - length)
        BY <1>3, <2>2
      <4> QED
        BY <4>1
    <3>2. PICK k \in Ending(i, cands) : k = order[m]
      BY <1>3
    <3>3. all[n] = Hypothesis(i, cands[k])
      BY <1>3, <3>1, <3>2
    <3> QED
      BY <1>1, <3>3, HypothesisInTime
  <2> QED
    BY <2>1, <2>2
<1> QED
  BY <1>1, <1>3, <1>4 DEF AllInTime

(* Finalizing takes some of the hypotheses.                                *)
LEMMA FinalizeTakes ==
  ASSUME NEW hyps, Len(hyps) \in Nat, DOMAIN hyps = 1 .. Len(hyps),
         \A n \in DOMAIN hyps : IsResult(hyps[n]), NEW num \in Nat, NEW lp,
         NEW n \in DOMAIN Finalize(hyps, num, lp)
  PROVE  \E m \in DOMAIN hyps : Finalize(hyps, num, lp)[n] = hyps[m]
<1>1. PICK size \in Nat : size = Len(hyps) /\ DOMAIN hyps = 1 .. size
  OBVIOUS
<1>2. PICK r : r = Ranking(hyps, lp)
  OBVIOUS
<1>3. IsRanking(r, hyps, size, lp)
  BY <1>1, <1>2, RankingIs
<1>4. PICK min \in Nat : min = Min({num, Len(hyps)}) /\ min <= size
  <2>1. \E x \in {num, size} : x <= num /\ x <= size
    <3>1. CASE num <= size
      BY <3>1
    <3>2. CASE ~(num <= size)
      BY <3>2
    <3> QED
      BY <3>1, <3>2
  <2>2. PICK S : S = {num, size} /\ num \in S /\ size \in S
    OBVIOUS
  <2>3. \E x \in S : \A y \in S : x <= y
    BY <2>1, <2>2
  <2>4. Min(S) \in S /\ \A y \in S : Min(S) <= y
    BY <2>3, Zenon DEF Min
  <2>5. \A x \in S : x \in Nat
    BY <2>2
  <2> QED
    BY <1>1, <2>2, <2>4, <2>5
<1>5. Finalize(hyps, num, lp) = [m \in 1 .. min |-> hyps[r[m]]]
  BY <1>2, <1>4, Zenon DEF Finalize
<1>6. n \in 1 .. min /\ Finalize(hyps, num, lp)[n] = hyps[r[n]]
  BY <1>5
<1>7. n \in 1 .. size
  BY <1>4, <1>6
<1>8. r[n] \in DOMAIN hyps
  BY <1>1, <1>3, <1>7 DEF IsRanking
<1> QED
  BY <1>6, <1>8

-----------------------------------------------------------------------------
(* All hypotheses end in time.                                             *)

WordsInv == \A i \in Positions : RowsAreWords(i)
ResultsInTime == \A b \in Batch : AllInTime(b, results[b])

LEMMA ResultsStayInTime ==
  ASSUME GoesOn, MinimumApplies(options), SentencesInv, SentencesFinish, WordsInv, ResultsInTime,
         NEW kept, kept = NonFinished(StepCandidates), FinishSentences(StepCandidates, kept)
  PROVE  ResultsInTime'
<1>1. options' = options
  BY DEF FinishSentences
<1>2. ASSUME NEW b \in Batch PROVE AllInTime(b, results'[b])
  <2>1. CASE b \in finished
    <3>1. results'[b] = results[b]
      BY <2>1, FinishedKeepResults DEF GoesOn
    <3> QED
      BY <3>1 DEF ResultsInTime
  <2>2. CASE b \notin finished
    <3>1. PICK i \in Positions : batchOffset[i] = b
      BY <2>2 DEF SentencesFinish
    <3>2. OffsetsDiffer /\ Pending(i) /\ RowsAreWords(i) /\ AllInTime(b, results[b])
      BY <3>1 DEF SentencesInv, WordsInv, ResultsInTime
    <3>3. PICK all : all = Registered(i, Candidates(i))
      OBVIOUS
    <3>4. results'[b] = all \/ results'[b] = FinalizeResult(all)
      BY <3>1, <3>2, <3>3, SentenceAfterStep DEF GoesOn
    <3>5. Len(all) \in Nat /\ DOMAIN all = 1 .. Len(all) /\ AllInTime(b, all)
      BY <3>1, <3>2, <3>3, RegisteredInTime
    <3>6. AllInTime(b, FinalizeResult(all))
      <4>1. \A n \in DOMAIN all : IsResult(all[n])
        BY <3>5 DEF AllInTime, EndsInTime
      <4>2. PICK num \in Nat, lp \in {options.lengthPenalty} :
              num = options.numHypotheses /\ lp = options.lengthPenalty
        BY DEF GoesOn, Shape, IsSearch
      <4>3. FinalizeResult(all) = Finalize(all, num, lp)
        BY <4>2 DEF FinalizeResult
      <4>4. ASSUME NEW n \in DOMAIN FinalizeResult(all)
            PROVE  EndsInTime(b, FinalizeResult(all)[n])
        <5>1. PICK m \in DOMAIN all : FinalizeResult(all)[n] = all[m]
          BY <3>5, <4>1, <4>3, FinalizeTakes
        <5> QED
          BY <3>5, <5>1 DEF AllInTime
      <4> QED
        BY <4>4 DEF AllInTime
    <3> QED
      BY <3>4, <3>5, <3>6
  <2> QED
    BY <2>1, <2>2
<1>3. Batch' = Batch
  BY <1>1 DEF Batch
<1>4. \A b : AllInTime(b, results[b])' <=> AllInTime(b, results'[b])
  BY <1>1, Zenon DEF AllInTime, EndsInTime, FirstWord, WordsOf, IsResult
<1> QED
  BY <1>2, <1>3, <1>4 DEF ResultsInTime

LEMMA WordsRemain ==
  ASSUME GoesOn, OneEndToken(options), SentencesInv, WordsInv, ContinueSearch
  PROVE  WordsInv'
<1>1. PICK kept : kept = NonFinished(StepCandidates)
  OBVIOUS
<1>2. /\ Positions' = 1 .. Len(kept) /\ RowBeams' = Beams /\ step' = step + 1 /\ step \in Nat
      /\ \A p, k : Row(p, k)' = (p - 1) * BeamSize + k
      /\ options' = options
  BY <1>1, RowsAfterStep
<1>3. ASSUME NEW p \in 1 .. Len(kept) PROVE RowsAreWords(p)'
  <2>1. PICK i, cands : i = kept[p] /\ cands = Candidates(i)
    OBVIOUS
  <2>2. ContinuesAt(p, i)
    BY <1>1, <2>1, SentenceContinues
  <2>3. /\ i \in Positions /\ ~IsLastStep(i) /\ PrefixLength(p)' = PrefixLength(i)
        /\ \A k \in Beams :
             aliveSeq'[(p - 1) * BeamSize + k] = cands[NextBeam(i, cands, k)].tokens
    BY <2>1, <2>2 DEF ContinuesAt
  <2>4. PICK l \in Nat : l = PrefixLength(i)
    BY <2>3, LengthsOfShape DEF GoesOn
  <2>5. ASSUME NEW k \in Beams, NEW n \in l + 1 .. step + 1
        PROVE  aliveSeq'[(p - 1) * BeamSize + k][n] \notin options.endIds
    <3>1. PICK m \in 1 .. NumCandidates : m = NextBeam(i, cands, k)
      BY NextBeamIsCandidate
    <3>2. PICK c : c = cands[m] /\ aliveSeq'[(p - 1) * BeamSize + k] = c.tokens
      BY <2>3, <3>1
    <3>3. CASE n <= step
      <4>1. n \in PrefixLength(i) + 1 .. step
        BY <1>2, <2>4, <3>3
      <4> QED
        BY <2>1, <2>3, <3>2, <4>1, CandidatesAreWords DEF WordsInv
    <3>4. CASE n = step + 1
      <4>1. step >= PrefixLength(i)
        BY <1>2, <2>4, <3>4
      <4>2. ~IsEos(c)
        BY <2>1, <2>3, <3>1, <3>2, <4>1, NextBeamIsWord DEF GoesOn
      <4>3. CandidateIs(c)
        BY <2>1, <2>3, <3>2, CandidatesAre
      <4> QED
        BY <3>2, <3>4, <4>2, <4>3 DEF CandidateIs, IsEos
    <3> QED
      BY <1>2, <2>4, <3>3, <3>4
  <2> QED
    BY <1>2, <2>3, <2>4, <2>5, Zenon DEF RowsAreWords
<1> QED
  BY <1>2, <1>3 DEF WordsInv

(* The invariant of the ends.                                              *)
EndInv ==
  /\ IInv
  /\ OneEndToken(options) /\ MinimumApplies(options)
  /\ SentencesFinish /\ ResultsInTime
  /\ searching => SentencesInv /\ WordsInv

LEMMA EndsStart ==
  ASSUME InitSearch, IInv, OneEndToken(options), MinimumApplies(options)
  PROVE  EndInv
<1>1. searching /\ Shape /\ step = 0 /\ results = [b \in Batch |-> <<>>]
  BY DEF InitSearch, IInv, GoesOn
<1>2. ResultsInTime
  <2>1. \A b \in Batch : DOMAIN results[b] = {}
    BY <1>1
  <2> QED
    BY <2>1 DEF ResultsInTime, AllInTime
<1>3. WordsInv
  <2>1. ASSUME NEW i \in Positions PROVE \A n : n \notin PrefixLength(i) + 1 .. step
    BY <1>1, LengthsOfShape
  <2> QED
    BY <2>1 DEF WordsInv, RowsAreWords
<1> QED
  BY <1>1, <1>2, <1>3, CoverStarts, TextsStart DEF EndInv

LEMMA EndsStep ==
  ASSUME EndInv, [StopSearch \/ ContinueSearch]_vars
  PROVE  EndInv'
<1>1. IInv'
  BY SearchSteps DEF EndInv
<1>2. OneEndToken(options)' /\ MinimumApplies(options)'
  <2>1. options' = options
    BY DEF StopSearch, ContinueSearch, FinishSentences, vars
  <2> QED
    BY <2>1 DEF EndInv, OneEndToken, MinimumApplies
<1>3. CASE StopSearch
  <2>1. searching /\ ~searching'
    BY <1>3 DEF StopSearch
  <2>2. GoesOn /\ SentencesInv /\ WordsInv /\ SentencesFinish /\ ResultsInTime
        /\ MinimumApplies(options)
    BY <2>1 DEF IInv, EndInv
  <2>3. PICK kept : kept = NonFinished(StepCandidates) /\ kept = <<>>
    BY <1>3 DEF StopSearch
  <2>4. FinishSentences(StepCandidates, kept)
    BY <1>3, <2>3 DEF StopSearch
  <2>5. ResultsInTime'
    BY <2>2, <2>3, <2>4, ResultsStayInTime
  <2>6. SentencesFinish'
    <3>1. Range(kept) = {}
      BY <2>3 DEF Range
    <3>2. /\ finished' = finished \cup {batchOffset[i] : i \in Positions} /\ options' = options
          /\ batchOffset' = batchOffset
      BY <1>3, <2>4, <3>1 DEF FinishSentences, StopSearch
    <3>3. \A i \in Positions : batchOffset[i] \in Batch
      BY <2>2, LengthsOfShape DEF GoesOn
    <3> QED
      BY <2>2, <3>2, <3>3 DEF SentencesFinish, Batch
  <2> QED
    BY <1>1, <1>2, <2>1, <2>5, <2>6 DEF EndInv
<1>4. CASE ContinueSearch
  <2>1. searching
    BY <1>4 DEF ContinueSearch
  <2>2. GoesOn /\ SentencesInv /\ WordsInv /\ SentencesFinish /\ ResultsInTime
        /\ OneEndToken(options) /\ MinimumApplies(options)
    BY <2>1 DEF IInv, EndInv
  <2>3. PICK kept : kept = NonFinished(StepCandidates)
    OBVIOUS
  <2>4. FinishSentences(StepCandidates, kept)
    BY <1>4, <2>3 DEF ContinueSearch
  <2>5. ResultsInTime'
    BY <2>2, <2>3, <2>4, ResultsStayInTime
  <2>6. SentencesInv' /\ WordsInv' /\ SentencesFinish'
    BY <1>4, <2>2, SentencesRemain, WordsRemain, SentencesGoOnOrFinish
  <2> QED
    BY <1>1, <1>2, <2>5, <2>6 DEF EndInv
<1>5. CASE UNCHANGED vars
  <2>1. SentencesInv => SentencesInv'
    BY <1>5 DEF vars, SentencesInv, OffsetsDiffer, Pending, Positions
  <2>2. WordsInv => WordsInv'
    BY <1>5 DEF vars, WordsInv, RowsAreWords, Positions, PrefixLength, Prefix, RowBeams, Row,
                IsExpanded
  <2>3. SentencesFinish => SentencesFinish'
    BY <1>5 DEF vars, SentencesFinish, Batch, Positions
  <2>4. ResultsInTime => ResultsInTime'
    BY <1>5 DEF vars, ResultsInTime, Batch, AllInTime, EndsInTime, FirstWord, WordsOf, IsResult
  <2>5. searching' = searching
    BY <1>5 DEF vars
  <2> QED
    BY <1>1, <1>2, <2>1, <2>2, <2>3, <2>4, <2>5 DEF EndInv
<1> QED
  BY <1>3, <1>4, <1>5

LEMMA EndsFollow == EndInv => HypothesesEndInTime
<1> SUFFICES ASSUME EndInv PROVE HypothesesEndInTime
  OBVIOUS
<1>1. finished \subseteq Batch /\ \A b \in Batch : AllInTime(b, results[b])
  BY DEF EndInv, SentencesFinish, ResultsInTime
<1>2. \A b \in Batch : \A h \in Range(results[b]) : EndsInTime(b, h)
  BY <1>1 DEF AllInTime, Range
<1> QED
  BY <1>1, <1>2, Zenon DEF HypothesesEndInTime, EndsInTime, FirstWord, WordsOf

(* "Stop the decoding on one of these tokens": no hypothesis that          *)
(* BeamSearch::search registers has an end token before its last one, or   *)
(* more tokens than the maximum, or fewer words than the minimum, for any  *)
(* numbers of sentences and beams.  It takes a single end token, because a *)
(* beam that ends goes on when there is no other candidate; the minimum is *)
(* kept where it is counted from the start of a text.                      *)
THEOREM HypothesesAreInTime ==
  ASSUME \A o \in Options : OneEndToken(o) /\ MinimumApplies(o)
  PROVE  Spec => []HypothesesEndInTime
<1>1. Init => EndInv
  <2> SUFFICES ASSUME Init PROVE EndInv
    OBVIOUS
  <2>1. options \in Options /\ InitSearch
    BY DEF Init
  <2>2. IsSearch(options) /\ \A m \in Models : Batch \subseteq DOMAIN m
    BY <2>1, BeamSearchAssumption DEF Batch
  <2> QED
    BY <2>1, <2>2, SearchStarts, EndsStart
<1>2. EndInv /\ [Next]_vars => EndInv'
  BY EndsStep DEF Next, Terminated
<1> QED
  BY <1>1, <1>2, EndsFollow, PTL DEF Spec

(* Nor does the expansion of decode_alternatives.                          *)
THEOREM ExpansionsAreInTime ==
  ASSUME \A o \in Options : OneEndToken(o) /\ MinimumApplies(o),
         \A r \in AllRequests : OneEndToken(r.search)
  PROVE  SpecAll => []HypothesesEndInTime
<1>1. InitAll => EndInv
  <2> SUFFICES ASSUME InitAll PROVE EndInv
    OBVIOUS
  <2>1. InitSearch
    BY DEF InitAll
  <2>2. IInv
    BY StartsInAlternatives
  <2>3. OneEndToken(options) /\ MinimumApplies(options)
    <3>1. CASE InitAlternatives
      <4>1. PICK r \in AllRequests : options = Expansion(r)
        BY <3>1 DEF InitAlternatives
      <4>2. /\ Expansion(r).endIds = r.search.endIds
            /\ Expansion(r).prefixes = <<<<>>>>
        <5>1. r.search \in [maxLength : Nat \ {0}, minLength : Nat, lengthPenalty : {0, 1},
                            numHypotheses : Nat \ {0}, maxCandidates : Nat,
                            returnPrefix : BOOLEAN, includeEos : BOOLEAN, endIds : SUBSET Tokens,
                            prefixes : Seq(Seq(Tokens)), startIds : Seq(Tokens),
                            forwarded : Seq(Seq(Tokens)),
                            expandAfterFirst : BOOLEAN, firstWins : BOOLEAN]
          BY AlternativesAssumption DEF IsSearch
        <5> QED
          BY <5>1 DEF Expansion
      <4>3. DOMAIN <<<<>>>> = {1} /\ <<<<>>>>[1] = <<>>
        OBVIOUS
      <4> QED
        BY <4>1, <4>2, <4>3 DEF OneEndToken, MinimumApplies
    <3>2. CASE options \in Options
      BY <3>2
    <3> QED
      BY <3>1, <3>2 DEF InitAll
  <2> QED
    BY <2>1, <2>2, <2>3, EndsStart
<1>2. EndInv /\ [NextAll]_allVars => EndInv'
  <2> SUFFICES ASSUME EndInv, [NextAll]_allVars PROVE EndInv'
    OBVIOUS
  <2>1. [StopSearch \/ ContinueSearch]_vars
    BY DEF NextAll, allVars, Search, KeepAlternatives, ContinueAlternatives, Return
  <2> QED
    BY <2>1, EndsStep
<1> QED
  BY <1>1, <1>2, EndsFollow, PTL DEF SpecAll
=============================================================================
