----------------------------- MODULE BeamSearch -----------------------------
(***************************************************************************)
(* BeamSearch::search (src/src/decoding.cc): the sentences of a batch are  *)
(* decoded together, BeamSize beams each; a step extends every beam by a   *)
(* token, registers the hypotheses that end, puts other candidates in      *)
(* their place, and drops the sentences that are finished.                 *)
(*                                                                         *)
(* The decoder is the table model of log probabilities, by sentence, token *)
(* it was fed and next token, and its state is what it remembers: the      *)
(* sentence and the tokens of each row.  A token that is disabled gets the *)
(* score Lowest without normalising the others again.  The sampler is      *)
(* BestSampler, prefixes are hard ones (prefix_bias_beta = 0), there is no *)
(* coverage penalty and length_penalty is 0 or 1.                          *)
(***************************************************************************)
EXTENDS Decoding

CONSTANTS
  BeamSize,        \* _beam_size
  VocabularySize,  \* decoder.output_size()
  Models,          \* log probabilities: [Batch -> [Tokens -> [Tokens -> Int]]]
  Options          \* the arguments of a search, one record each

Beams == 1 .. BeamSize
Tokens == 0 .. VocabularySize - 1
NumCandidates == 2 * BeamSize

Penalised == -100000     \* -1e10

(* What decode gives to a search: it refuses other lengths and numbers.    *)
IsSearch(o) ==
  /\ o \in [maxLength : Nat \ {0}, minLength : Nat, lengthPenalty : {0, 1},
            numHypotheses : Nat \ {0}, maxCandidates : Nat,
            returnPrefix : BOOLEAN, includeEos : BOOLEAN, endIds : SUBSET Tokens,
            prefixes : Seq(Seq(Tokens)), startIds : Seq(Tokens), forwarded : Seq(Seq(Tokens)),
            expandAfterFirst : BOOLEAN, firstWins : BOOLEAN]
  /\ o.minLength <= o.maxLength /\ o.numHypotheses <= o.maxCandidates
  /\ Len(o.startIds) = Len(o.prefixes) /\ Len(o.forwarded) = Len(o.prefixes)
  /\ o.expandAfterFirst => NumCandidates <= VocabularySize

ASSUME BeamSearchAssumption ==
  /\ BeamSize \in Nat \ {0}
  /\ VocabularySize \in Nat
  /\ BeamSize < VocabularySize
  /\ \A m \in Models : \A b \in DOMAIN m, t, u \in Tokens : m[b][t][u] \in Int /\ m[b][t][u] < 0
  /\ \A o \in Options : IsSearch(o) /\ \A m \in Models : DOMAIN o.prefixes \subseteq DOMAIN m

VARIABLES
  options,      \* the arguments, constant during the search
  model,        \* the decoder, constant during the search
  step,         \* the loop counter
  batchOffset,  \* batch_offset: the sentence at each position of the batch
  topFinished,  \* top_beam_finished, by position
  topkIds,      \* topk_ids: the token to feed, by row
  topkScores,   \* topk_scores, by row
  aliveSeq,     \* alive_seq: the tokens generated so far, by row
  cache,        \* decoder state that is replicated: what each row has seen
  memory,       \* decoder state that is not: the sentence at each position
  results,      \* results, by sentence: hypotheses with their scores
  finished,     \* the sentences whose result is final
  searching     \* the loop has not ended

vars == <<options, model, step, batchOffset, topFinished, topkIds, topkScores,
          aliveSeq, cache, memory, results, finished, searching>>

-----------------------------------------------------------------------------
(* Rows and options.                                                       *)

Batch == DOMAIN options.prefixes

(* is_expanded: until the first step is over, the batch may have a single  *)
(* row for each sentence.                                                  *)
IsExpanded == ~options.expandAfterFirst \/ step > 0
RowBeams == IF IsExpanded THEN Beams ELSE {1}
Row(i, k) == IF IsExpanded THEN (i - 1) * BeamSize + k ELSE i
Positions == 1 .. Len(batchOffset)

(* split_start_tokens drops the prefixes if all of them are empty.         *)
HasPrefix == \E b \in Batch : options.prefixes[b] # <<>>
Prefix(i) == options.prefixes[batchOffset[i]]
PrefixLength(i) == Len(Prefix(i))

(* Float addition: a small number is absorbed by a huge one. *)
Plus(a, b) ==
  IF a <= Penalised \/ b <= Penalised THEN (IF a < b THEN a ELSE b) ELSE a + b

MaxStep ==
  GetMaxStep(options.maxLength, options.returnPrefix,
             {Len(options.prefixes[b]) : b \in Batch})

(* A plausible mistake in the next definition, which Next does not use.    *)
IsLastStepWithPrefix(i) == step + 1 = options.maxLength + PrefixLength(i)

IsLastStep(i) ==
  LastStep(step, options.maxLength, PrefixLength(i), options.returnPrefix)

InitSearch ==
  /\ model \in Models
  /\ step = 0
  /\ batchOffset = [b \in Batch |-> b]
  /\ topFinished = [b \in Batch |-> FALSE]
  /\ memory = [b \in Batch |-> b]
  /\ results = [b \in Batch |-> <<>>]
  /\ finished = {}
  /\ searching = TRUE
  /\ LET start == [i \in Batch |-> [batch |-> i, tokens |-> options.forwarded[i]]]
         ids == options.startIds
     IN  IF options.expandAfterFirst
           THEN /\ cache = start
                /\ topkIds = ids
                /\ topkScores = [i \in Batch |-> 0]
                /\ aliveSeq = [i \in Batch |-> <<>>]
           ELSE /\ cache = RepeatBatch(start, BeamSize)
                /\ topkIds = RepeatBatch(ids, BeamSize)
                /\ topkScores = [r \in DOMAIN topkIds |->
                                   IF (r - 1) % BeamSize = 0 THEN 0 ELSE Lowest]
                /\ aliveSeq = [r \in DOMAIN topkIds |-> <<>>]

Init == options \in Options /\ InitSearch

-----------------------------------------------------------------------------
(* The candidates of a step.                                               *)

(* apply_min_length: the rows of the logits whose end tokens are disabled. *)
(* When lengths do not count the prefix it names positions of the batch.   *)
MinLengthRows ==
  IF HasPrefix /\ ~options.returnPrefix
    THEN {i \in Positions : step < PrefixLength(i) + options.minLength}
    ELSE {r \in DOMAIN topkIds : step < options.minLength}

(* The log probability of the next token, given what the row was fed, plus *)
(* the score of the beam.                                                  *)
Score(i, k, t) ==
  LET r == Row(i, k)
      logProb == IF r \in MinLengthRows /\ t \in options.endIds
                   THEN Lowest
                   ELSE model[memory[i]][topkIds[r]][t]
  IN  Plus(topkScores[r], logProb)

Cells(i) ==
  {LET k == ((n - 1) \div VocabularySize) + 1
       t == (n - 1) % VocabularySize
   IN  [beam |-> k, id |-> t, score |-> Score(i, k, t), flat |-> n] :
     n \in 1 .. Cardinality(RowBeams) * VocabularySize}

(* The sampler keeps the best cells.  The order of equal scores is not     *)
(* specified: two orders stand for all.                                    *)
IsBetter(x, y) ==
  \/ x.score > y.score
  \/ x.score = y.score /\ x # y /\ (x.flat < y.flat) = options.firstWins

TopK(i) ==
  LET cells  == Cells(i)
      ranked == {[cell |-> c, rank |-> Cardinality({d \in cells : IsBetter(d, c)})] : c \in cells}
  IN  [n \in 1 .. NumCandidates |-> (CHOOSE x \in ranked : x.rank = n - 1).cell]

(* update_sample_with_prefix: all candidates take the next token of the    *)
(* prefix; at the first free step the end tokens of all but the first      *)
(* candidate are replaced.                                                 *)
Constrained(i, c, n) ==
  IF ~HasPrefix THEN c
  ELSE IF step < PrefixLength(i)
    THEN [c EXCEPT !.beam = 1, !.id = Prefix(i)[step + 1],
                   !.score = IF n = 1 THEN 0 ELSE Penalised]
  ELSE IF step = PrefixLength(i) /\ n > 1 /\ c.id \in options.endIds
    THEN [c EXCEPT !.beam = 1, !.id = 0, !.score = Penalised]
  ELSE c

(* The candidates of the sentence at position i, with their tokens so far. *)
Candidates(i) ==
  LET top == TopK(i)
  IN  [n \in 1 .. NumCandidates |->
         LET c == Constrained(i, top[n], n)
         IN  [origin |-> Row(i, c.beam), id |-> c.id, score |-> c.score,
              tokens |-> Append(aliveSeq[Row(i, c.beam)], c.id)]]

-----------------------------------------------------------------------------
(* Hypotheses.  cands are the candidates of position i.                    *)

IsEos(c) == c.id \in options.endIds

(* The beams that register a hypothesis. *)
Ending(i, cands) ==
  {k \in Beams : IsLastStep(i) \/ (IsEos(cands[k]) /\ step >= PrefixLength(i))}

Hypothesis(i, c) ==
  LET start == IF options.returnPrefix THEN 0 ELSE PrefixLength(i)
      end == IF IsEos(c) /\ ~options.includeEos THEN step ELSE step + 1
  IN  [tokens |-> SubSeq(c.tokens, start + 1, end), score |-> c.score]

Registered(i, cands) ==
  results[batchOffset[i]]
    \o [n \in 1 .. Cardinality(Ending(i, cands)) |->
          Hypothesis(i, cands[Ascending(Ending(i, cands))[n]])]

(* Plausible mistakes in the definitions below; Next uses none of them.    *)
SpareAny(cands) == [n \in 1 .. BeamSize |-> BeamSize + n]

(* Another active beam takes the place of each beam that has ended: the    *)
(* secondary candidates are used in their order.  When there are none left *)
(* the beam stays.                                                         *)
Spare(cands) == Ascending({n \in BeamSize + 1 .. NumCandidates : ~IsEos(cands[n])})

NextBeam(i, cands, k) ==
  LET rank == Cardinality({m \in Ending(i, cands) : m <= k})
  IN  IF k \in Ending(i, cands) /\ rank <= Len(Spare(cands))
        THEN Spare(cands)[rank]
        ELSE k

AllowEarlyExit == options.lengthPenalty = 0

TopHasFinished(i, cands) == topFinished[i] \/ 1 \in Ending(i, cands)

IsFinished(i, cands) ==
  LET count == Len(Registered(i, cands))
  IN  \/ IsLastStep(i)
      \/ /\ AllowEarlyExit
         /\ TopHasFinished(i, cands)
         /\ count >= options.numHypotheses
      \/ /\ ~AllowEarlyExit
         /\ count >= options.maxCandidates

FinalizeResult(hypotheses) ==
  Finalize(hypotheses, options.numHypotheses, options.lengthPenalty)

ResultsAfter(cands) ==
  [b \in Batch |->
     LET here == {i \in Positions : batchOffset[i] = b}
         i == CHOOSE j \in here : TRUE
     IN  CASE here = {} -> results[b]
           [] here # {} /\ IsFinished(i, cands[i]) ->
                FinalizeResult(Registered(i, cands[i]))
           [] OTHER -> Registered(i, cands[i])]

-----------------------------------------------------------------------------
(* One iteration of the loop.                                              *)

StepCandidates == [i \in Positions |-> Candidates(i)]

(* non_finished_index *)
NonFinished(cands) == Ascending({i \in Positions : ~IsFinished(i, cands[i])})

(* The decoder has seen the tokens it was fed. *)
Fed == [r \in DOMAIN cache |-> [cache[r] EXCEPT !.tokens = Append(@, topkIds[r])]]

(* active_beams, after the finished sentences are dropped: the candidate   *)
(* that goes on in each row.                                               *)
Active(cands, kept) ==
  [r \in 1 .. BeamSize * Len(kept) |->
     LET i == kept[((r - 1) \div BeamSize) + 1]
         k == ((r - 1) % BeamSize) + 1
     IN  cands[i][NextBeam(i, cands[i], k)]]

(* Plausible mistakes in the definitions below; Next uses none of them.    *)
OriginsUngathered(cands, kept) ==
  [r \in 1 .. BeamSize * Len(kept) |->
     cands[kept[((r - 1) \div BeamSize) + 1]][((r - 1) % BeamSize) + 1].origin]
KeptTopFinishedInPlace(cands, kept) ==
  [p \in DOMAIN kept |-> TopHasFinished(p, cands[p])]

(* gather_indices, gathered in the same way: the row whose state goes on.  *)
Origins(cands, kept) ==
  [r \in DOMAIN Active(cands, kept) |-> Active(cands, kept)[r].origin]

KeptTopFinished(cands, kept) ==
  [p \in DOMAIN kept |-> TopHasFinished(kept[p], cands[kept[p]])]

FinishSentences(cands, kept) ==
  /\ results' = ResultsAfter(cands)
  /\ finished' = finished \cup {batchOffset[i] : i \in Positions \ Range(kept)}
  /\ UNCHANGED <<options, model>>

(* All sentences are finished: the state is only replicated if it was not. *)
StopSearch ==
  /\ searching
  /\ LET cands == StepCandidates
     IN  /\ NonFinished(cands) = <<>>
         /\ FinishSentences(cands, <<>>)
  /\ cache' = IF IsExpanded THEN Fed ELSE RepeatBatch(Fed, BeamSize)
  /\ searching' = FALSE
  /\ UNCHANGED <<step, batchOffset, topFinished, topkIds, topkScores, aliveSeq, memory>>

ContinueSearch ==
  /\ searching
  /\ LET cands == StepCandidates
         kept == NonFinished(cands)
         active == Active(cands, kept)
         origins == Origins(cands, kept)
     IN  /\ kept # <<>>
         /\ FinishSentences(cands, kept)
         /\ batchOffset' = [p \in DOMAIN kept |-> batchOffset[kept[p]]]
         /\ memory' = [p \in DOMAIN kept |-> memory[kept[p]]]
         /\ topFinished' = KeptTopFinished(cands, kept)
         /\ topkIds' = [r \in DOMAIN active |-> active[r].id]
         /\ topkScores' = [r \in DOMAIN active |-> active[r].score]
         /\ aliveSeq' = [r \in DOMAIN active |-> active[r].tokens]
         /\ cache' = [r \in DOMAIN active |-> Fed[origins[r]]]
  /\ step' = step + 1
  /\ searching' = (step' < MaxStep)

Terminated == ~searching /\ UNCHANGED vars

Next == StopSearch \/ ContinueSearch \/ Terminated

Spec == Init /\ [][Next]_vars

-----------------------------------------------------------------------------
(* Properties.                                                             *)

(* The score of a text, from its first token that is not forced.           *)
TextScore(m, start, forced, tokens) ==
  LET seen == <<start>> \o tokens
      Sum[n \in 0 .. Len(tokens)] ==
        IF n <= forced THEN 0 ELSE Sum[n - 1] + m[seen[n]][seen[n + 1]]
  IN  Sum[Len(tokens)]

ModelScore(b, tokens) ==
  TextScore(model[b], options.startIds[b], Len(options.prefixes[b]), tokens)

(* The state of the decoder and the scores go with the beams: the cache of *)
(* every row holds what that row was fed, for the sentence at its position *)
(* (and has BeamSize rows for each sentence when the search ends, also     *)
(* after a single step), and the score of a beam is the log probability of *)
(* its tokens, unless it stems from a candidate that was not meant to win. *)
StateFollowsSequences ==
  LET rows == IF IsExpanded \/ ~searching THEN BeamSize ELSE 1
      Old(p) == options.forwarded[batchOffset[p]]
      Seen(p, r) == Append(Old(p), options.startIds[batchOffset[p]]) \o aliveSeq[r]
      PositionOf(r, n) == ((r - 1) \div n) + 1
  IN  /\ memory = batchOffset
      /\ Len(cache) = rows * Len(batchOffset)
      /\ \A r \in DOMAIN topkIds :
           topkIds[r] = Last(Seen(PositionOf(r, IF IsExpanded THEN BeamSize ELSE 1), r))
      /\ \A r \in DOMAIN cache :
           LET p == PositionOf(r, rows)
           IN  /\ cache[r].batch = batchOffset[p]
               /\ cache[r].tokens = SubSeq(Seen(p, IF IsExpanded THEN r ELSE p), 1,
                                           Len(Old(p)) + (IF searching THEN step ELSE step + 1))
      /\ searching =>
           \A r \in DOMAIN aliveSeq :
             topkScores[r] > Penalised =>
               LET p == PositionOf(r, IF IsExpanded THEN BeamSize ELSE 1)
               IN  topkScores[r] = ModelScore(batchOffset[p], aliveSeq[r])

(* "Stop the decoding on one of these tokens": an end token that was       *)
(* generated is the last token of its hypothesis.  Lengths, which include  *)
(* the prefix exactly if it is returned, are between the minimum, for      *)
(* which end tokens do not count, and the maximum.                         *)
HypothesesEndInTime ==
  /\ \A b \in Batch : \A h \in Range(results[b]) :
       LET first == IF options.returnPrefix THEN Len(options.prefixes[b]) + 1 ELSE 1
       IN  \A n \in first .. Len(h.tokens) - 1 : h.tokens[n] \notin options.endIds
  /\ \A b \in finished : \A h \in Range(results[b]) :
       LET words == {n \in DOMAIN h.tokens : h.tokens[n] \notin options.endIds}
       IN  /\ Len(h.tokens) <= options.maxLength
           /\ h.score > Lowest => Cardinality(words) >= options.minLength

HypothesesDiffer(hypotheses) ==
  \A m, n \in DOMAIN hypotheses :
    hypotheses[m].score > Penalised /\ hypotheses[n].score > Penalised
      /\ hypotheses[m].tokens = hypotheses[n].tokens => m = n

(* When the loop ends every sentence has a final result, with as many      *)
(* hypotheses as were asked for, the best one first, and no two the same:  *)
(* a finished beam is replaced by a candidate that nothing else uses.      *)
EverySentenceIsAnswered ==
  ~searching =>
    /\ finished = Batch
    /\ \A b \in Batch :
         /\ HypothesesDiffer(results[b])
         /\ Len(results[b]) = options.numHypotheses
         /\ \A n \in 1 .. Len(results[b]) - 1 :
              ~BetterScore(results[b][n + 1], results[b][n], options.lengthPenalty)

(* "We can exit early when the first beam finishes and no penalties are    *)
(* used": when a sentence is finished before its last step, none of its    *)
(* candidates could still give a better hypothesis than the first one.     *)
EarlyExitIsSafe ==
  [][\A i \in Positions :
       LET b == batchOffset[i]
       IN  b \in finished' /\ ~IsLastStep(i) /\ AllowEarlyExit =>
             \A n \in DOMAIN Candidates(i) :
               results'[b][1].score >= Candidates(i)[n].score]_vars
=============================================================================
