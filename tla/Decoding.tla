------------------------------- MODULE Decoding -------------------------------
(***************************************************************************)
(* The helpers of src/decoding.cc that beam search and greedy search share.*)
(***************************************************************************)
EXTENDS Integers, FiniteSets, SequencesExt

Lowest == -1000000       \* numeric_limits<float>::lowest()

GetMaxStep(maxLength, returnPrefix, prefixLengths) ==
  maxLength + (IF returnPrefix THEN 0 ELSE Max({0} \cup prefixLengths))

LastStep(step, maxLength, prefixLength, returnPrefix) ==
  step + 1 = maxLength + (IF returnPrefix THEN 0 ELSE prefixLength)

(* What a decoder that is a table of log probabilities knows of the tokens *)
(* it has seen: a number below n.                                          *)
Digest(tokens, n) ==
  LET Sum[k \in 0 .. Len(tokens)] ==
        IF k = 0 THEN 0 ELSE (2 * Sum[k - 1] + tokens[k] + 1) % n
  IN  Sum[Len(tokens)]

(* repeat_batch: every entry n times in a row. *)
RepeatBatch(s, n) == [r \in 1 .. n * Len(s) |-> s[((r - 1) \div n) + 1]]

(* The sentence of a hypothesis, when a batch is repeated n times.         *)
SentenceOf(h, n) == ((h - 1) \div n) + 1

(* The numbers of a set in their order, as a loop collects them.           *)
Ascending(S) ==
  [n \in 1 .. Cardinality(S) |-> CHOOSE i \in S : Cardinality({j \in S : j <= i}) = n]

(* sort_hypotheses with the scores of finalize_hypothesis_score, which are *)
(* divided by length ^ length_penalty: an empty hypothesis is the worst.   *)
BetterScore(x, y, lengthPenalty) ==
  IF lengthPenalty = 0
    THEN x.score > y.score
    ELSE /\ x.tokens # <<>>
         /\ y.tokens # <<>> => x.score * Len(y.tokens) > y.score * Len(x.tokens)

(* The places of the hypotheses from the best to the worst. std::sort      *)
(* leaves the order of equal scores open: here the earlier one comes first.*)
Precedes(hypotheses, m, n, lengthPenalty) ==
  \/ BetterScore(hypotheses[m], hypotheses[n], lengthPenalty)
  \/ m < n /\ ~BetterScore(hypotheses[n], hypotheses[m], lengthPenalty)

Ranking(hypotheses, lengthPenalty) ==
  LET places == DOMAIN hypotheses
      Before(n) == {m \in places : Precedes(hypotheses, m, n, lengthPenalty)}
  IN  [k \in places |-> CHOOSE n \in places : Cardinality(Before(n)) = k - 1]

Finalize(hypotheses, numHypotheses, lengthPenalty) ==
  LET ranking == Ranking(hypotheses, lengthPenalty)
  IN  [n \in 1 .. Min({numHypotheses, Len(hypotheses)}) |-> hypotheses[ranking[n]]]
=============================================================================
