----------------------------- MODULE GreedySearch -----------------------------
(***************************************************************************)
(* GreedySearch::search (src/src/decoding.cc): a batch of sentences, each  *)
(* repeated num_hypotheses times when tokens are sampled at random, is     *)
(* decoded together; every step gives each hypothesis one token, reports   *)
(* it to the callback, and drops the hypotheses that are finished.  The    *)
(* search is that of a request (Requests) on an output layer that earlier  *)
(* requests may have restricted (OutputLayer).                             *)
(*                                                                         *)
(* The decoder is a table of log probabilities, by sentence, digest of the *)
(* tokens that it has seen, and next token.  Disabling a token does not    *)
(* normalise the others again.  length_penalty is 0 or 1, and there is no  *)
(* coverage penalty.                                                       *)
(***************************************************************************)
EXTENDS Requests, LogitsProcessors

CONSTANTS
  Models,       \* log probabilities, by sentence, digest and next word
  AllRequests   \* the requests, one record each

ASSUME GreedySearchAssumption ==
  /\ \A r \in AllRequests : IsRequest(r)
  /\ \A m \in Models, r \in AllRequests : \A b \in Sentences(r), t, u \in Words :
       m[b][t][u] \in Int /\ m[b][t][u] < 0 /\ m[b][t][u] * r.repetition > Penalised

VARIABLES
  request,      \* the request, and those before it
  layer,        \* the output layer, constant during the search
  options,      \* the arguments, constant during the search
  model,        \* the decoder, constant during the search
  step,         \* the loop counter
  batchOffset,  \* batch_offset: the hypothesis at each position
  sampleFrom,   \* sample_from: the token to feed, by position
  state,        \* decoder state: what each position has seen
  aliveSeq,     \* alive_seq: the tokens chosen so far, by position
  hypotheses,   \* results of the loop: tokens and score of each hypothesis
  finalized,    \* the hypotheses that went through finalize_result
  results,      \* results of decode, by sentence that was run
  answers,      \* results of the request, by sentence
  called,       \* history: what the callback got, by batch_id, hypothesis_id
  generated,    \* history: the tokens given to each hypothesis
  stage         \* "searching", "merging" or "returned"

loopVars == <<step, batchOffset, sampleFrom, state, aliveSeq>>
constantVars == <<request, layer, options, model>>
vars == <<constantVars, loopVars, hypotheses, finalized, results, answers, called,
          generated, stage>>

-----------------------------------------------------------------------------
(* Positions and options.                                                  *)

Run == IndexToRun(request)
Batch == DOMAIN options.prefixes
Hypotheses == 1 .. Len(options.prefixes) * options.numHypotheses
Positions == 1 .. Len(batchOffset)
Sentence(h) == SentenceOf(h, options.numHypotheses)
Prefix(i) == options.prefixes[Sentence(batchOffset[i])]
PrefixLength(i) == Len(Prefix(i))

MaxStep ==
  GetMaxStep(options.maxLength, options.returnPrefix,
             {Len(options.prefixes[b]) : b \in Batch})

(* A plausible mistake in CallbackId; Next does not use it.                *)
CallbackIdSwapped(h) == <<((h - 1) % Len(options.prefixes)) + 1, (h - 1) \div Len(options.prefixes)>>

IsLastStep(i) ==
  LastStep(step, options.maxLength, PrefixLength(i), options.returnPrefix)

(* The wrapper around the callback: batch_id counted from 1 as sentences   *)
(* are, hypothesis_id from 0.                                              *)
CallbackId(h) ==
  <<((h - 1) \div options.numHypotheses) + 1, (h - 1) % options.numHypotheses>>

Init ==
  /\ request \in AllRequests
  /\ layer = LayerAfter(request.restrictions, request.multiple, request.hasBias)
  /\ options = Arguments(request, layer)
  /\ model \in Models
  /\ step = 0
  /\ LET repeated(s) == RepeatBatch(s, options.numHypotheses)
     IN  /\ batchOffset = [h \in Hypotheses |-> h]
         /\ sampleFrom = repeated(options.startIds)
         /\ state = repeated([k \in Batch |-> [batch |-> Run[k], tokens |-> options.forwarded[k]]])
         /\ aliveSeq = [h \in Hypotheses |-> <<>>]
  /\ hypotheses = [h \in Hypotheses |-> [tokens |-> <<>>, score |-> 0]]
  /\ finalized = {}
  /\ results = <<>> /\ answers = <<>>
  /\ called = [id \in Sentences(request) \X (0 .. options.numHypotheses - 1) |-> <<>>]
  /\ generated = [h \in Hypotheses |-> <<>>]
  /\ stage = IF Run = <<>> THEN "merging" ELSE "searching"

-----------------------------------------------------------------------------
(* The token of each position in a step.                                   *)

(* The decoder has seen the tokens it was fed: convert_to_original_word_ids*)
(* makes them words again.                                                 *)
Fed == [i \in Positions |->
          [state[i] EXCEPT !.tokens = Append(@, ToOriginal(layer, sampleFrom[i]))]]

(* apply_min_length: in greedy search the rows of the logits are the       *)
(* positions, also when each counts its own prefix.                        *)
EndsDisabled(i) ==
  IF options.returnPrefix
    THEN step < options.minLength
    ELSE step < PrefixLength(i) + options.minLength

(* The tokens that apply_min_length and the logits processors disable.     *)
Disabled(i) ==
  UNION {IF EndsDisabled(i) THEN options.endIds ELSE {},
         options.disableIds,
         IF step = PrefixLength(i) THEN options.disableBegin ELSE {},
         NgramFinalTokens(aliveSeq[i], options.noRepeat),
         BannedTokens(aliveSeq[i], options.disableSequences)}

Score(i, t) ==
  LET logProb == model[Fed[i].batch][Digest(Fed[i].tokens, VocabularySize)][ToOriginal(layer, t)]
  IN  IF t \in Disabled(i) THEN Lowest
      ELSE PenalizeRepeated(Biased(layer, t, logProb), t, aliveSeq[i], options.repetition)

(* BestSampler takes a best token, RandomSampler one of the sampling_topk  *)
(* best that do not have probability 0.                                    *)
Sampled(i) ==
  {t \in Outputs(layer) :
     /\ Score(i, t) > Penalised
     /\ Cardinality({u \in Outputs(layer) : Score(i, u) > Score(i, t)}) < options.topk}

(* update_sample_with_prefix *)
WordChoices(i) ==
  IF step < PrefixLength(i) THEN {Prefix(i)[step + 1]} ELSE Sampled(i)

ScoreOf(i, word) == IF step < PrefixLength(i) THEN 0 ELSE Score(i, word)

-----------------------------------------------------------------------------
(* What happens to a position that is given a word.                        *)

IsEos(word) == word \in options.endIds

IsVisible(i) == options.returnPrefix \/ step >= PrefixLength(i)

IsFinished(i, word) == (IsEos(word) /\ step >= PrefixLength(i)) \/ IsLastStep(i)

CallsBack(i) == options.callback # "none" /\ IsVisible(i)

Extended(i, word) ==
  LET old == hypotheses[batchOffset[i]]
      keep == IsVisible(i) /\ (~IsEos(word) \/ options.includeEos)
  IN  [tokens |-> IF keep THEN Append(old.tokens, word) ELSE old.tokens,
       score |-> old.score + ScoreOf(i, word)]

(* What the callback gets; it may return True, but the step that it got is *)
(* then not marked as the last one.                                        *)
Reported(i, word, stops) ==
  [token |-> word, last |-> IsFinished(i, word), stop |-> i \in stops]

(* non_finished_index *)
Kept(words, stops) ==
  Ascending({i \in Positions : ~IsFinished(i, words[i]) /\ i \notin stops})

(* A plausible mistake in FedKept; Next does not use it.                   *)
FedUngathered(kept) == [p \in DOMAIN kept |-> Fed[p]]

(* Decoder::update_state *)
FedKept(kept) == [p \in DOMAIN kept |-> Fed[kept[p]]]

PositionOf(h) == CHOOSE i \in Positions : batchOffset[i] = h

(* The loop over the batch in an iteration, without the next one's inputs. *)
GiveWords(words, stops) ==
  LET alive == Range(batchOffset)
  IN  /\ hypotheses' = [h \in Hypotheses |->
            IF h \in alive THEN Extended(PositionOf(h), words[PositionOf(h)])
                           ELSE hypotheses[h]]
      /\ generated' = [h \in Hypotheses |->
            IF h \in alive THEN Append(generated[h], ToOriginal(layer, words[PositionOf(h)]))
                           ELSE generated[h]]
      /\ called' = [id \in DOMAIN called |->
            LET at == {i \in Positions : CallsBack(i) /\ CallbackId(batchOffset[i]) = id}
            IN  called[id] \o SetToSeq({Reported(i, words[i], stops) : i \in at})]
      /\ finalized' = finalized \cup {batchOffset[i] : i \in Positions \ Range(Kept(words, stops))}
      /\ UNCHANGED <<constantVars, results, answers>>

(* One iteration: it breaks out of the loop when no hypothesis is alive,   *)
(* and leads to the next one or to the end of the loop otherwise.          *)
SearchStep ==
  /\ stage = "searching"
  /\ \E words \in [Positions -> Outputs(layer)],
        stops \in SUBSET {i \in Positions : options.callback = "stops" /\ CallsBack(i)} :
       LET kept == Kept(words, stops)
       IN  /\ \A i \in Positions : words[i] \in WordChoices(i)
           /\ GiveWords(words, stops)
           /\ \/ /\ kept = <<>>
                 /\ stage' = "merging"
                 /\ UNCHANGED loopVars
              \/ /\ kept # <<>>
                 /\ step' = step + 1
                 /\ batchOffset' = [p \in DOMAIN kept |-> batchOffset[kept[p]]]
                 /\ sampleFrom' = [p \in DOMAIN kept |-> words[kept[p]]]
                 /\ state' = FedKept(kept)
                 /\ aliveSeq' = [p \in DOMAIN kept |-> Append(aliveSeq[kept[p]], words[kept[p]])]
                 /\ stage' = IF step' < MaxStep THEN "searching" ELSE "merging"

(* decode restores the words of a hypothesis.                              *)
Restored(h) == [h EXCEPT !.tokens = [n \in DOMAIN @ |-> ToOriginal(layer, @[n])]]

(* The hypotheses of a sentence, merged and sorted.                        *)
Merged(k) ==
  LET sorted == Finalize([n \in 1 .. options.numHypotheses |->
                            hypotheses[(k - 1) * options.numHypotheses + n]],
                         options.numHypotheses, options.lengthPenalty)
  IN  [n \in DOMAIN sorted |-> Restored(sorted[n])]

PositionInRun(b) == CHOOSE k \in DOMAIN Run : Run[k] = b

(* The results, and the answers in the places of their sentences.          *)
MergeResults ==
  /\ stage = "merging"
  /\ results' = [k \in Batch |-> Merged(k)]
  /\ answers' = [b \in Sentences(request) |->
       IF b \in Range(Run)
         THEN [n \in DOMAIN results'[PositionInRun(b)] |->
                 Answer(request, b, results'[PositionInRun(b)][n].tokens)]
         ELSE SkippedAnswers(request, b)]
  /\ stage' = "returned"
  /\ UNCHANGED <<constantVars, loopVars, hypotheses, finalized, called, generated>>

Terminated == stage = "returned" /\ UNCHANGED vars

Next == SearchStep \/ MergeResults \/ Terminated

Spec == Init /\ [][Next]_vars

-----------------------------------------------------------------------------
(* Properties.                                                             *)

(* The tokens of a hypothesis from the second one of its prompt on.        *)
Whole(h) ==
  LET k == Sentence(h)
  IN  SubSeq(request.prompts[Run[k]], 2, ForwardLength(request) + 1) \o generated[h]

(* Batching, padding with prefixes, forwarding a part of the prompts,      *)
(* removing finished sentences, repeating sentences and restricting the    *)
(* output layer change nothing: every hypothesis gets the tokens that it   *)
(* could get if it was decoded alone from its prompt, one by one, among    *)
(* the words of this request.                                              *)
Alone == INSTANCE IndependentDecoding
           WITH open <- Hypotheses \ finalized,
                generated <- [h \in Hypotheses |-> Whole(h)]

ImplementsIndependentDecoding == Alone!Spec

(* When this holds.  The prompts, and the sequences to suppress, are made  *)
(* of words of this request.                                               *)
PromptsAreKnown(r) ==
  LET known == IF Last(r.restrictions) = <<>> THEN Words ELSE Range(Last(r.restrictions))
  IN  /\ \A b \in Sentences(r) : Range(r.prompts[b]) \subseteq known
      /\ \A s \in r.suppress : Range(s) \subseteq known

(* The requests have one set of words, or this set and all of them in an   *)
(* output layer that is not padded and, if all are wanted now, has another *)
(* size than with the set.                                                 *)
RestrictionsAreOne(r) ==
  LET all == Range(r.restrictions)
      Size(x) == Len(x) + Padding(Len(x), r.multiple)
  IN  \/ all = {Last(r.restrictions)}
      \/ /\ Padding(VocabularySize, r.multiple) = 0
         /\ \E x \in all \ {<<>>} :
              all \subseteq {x, <<>>} /\ (Last(r.restrictions) = x \/ Size(x) # VocabularySize)

(* The rules find the tokens that they are about, which are those left to  *)
(* decode, and the lengths count the same tokens for each sentence.        *)
RulesSeeTheText(r) ==
  /\ r.noRepeat # 0 \/ r.repetition # 1 \/ r.suppress # {} => ForwardLength(r) = r.promptLength - 1
  /\ r.kind = "generate" /\ ~r.includePrompt /\ ForwardLength(r) = 0
       => \A b \in Sentences(r) : Len(r.prompts[b]) = 1

DecodesAlone(r) == PromptsAreKnown(r) /\ RestrictionsAreOne(r) /\ RulesSeeTheText(r)

(* A text without the tokens of a set.                                     *)
Without(text, ids) ==
  LET Left[n \in 0 .. Len(text)] ==
        IF n = 0 THEN <<>>
        ELSE IF text[n] \in ids THEN Left[n - 1] ELSE Append(Left[n - 1], text[n])
  IN  Left[Len(text)]

SumOf(numbers) ==
  LET Sum[n \in 0 .. Len(numbers)] == IF n = 0 THEN 0 ELSE Sum[n - 1] + numbers[n]
  IN  Sum[Len(numbers)]

(* What a token adds to the score of a hypothesis that is decoded alone:   *)
(* nothing in its prompt, and then its log probability after the others.   *)
Gain(h, n) ==
  LET k == Sentence(h)
      prompt == request.prompts[Run[k]]
      text == generated[h]
      seen == request.static \o <<Head(prompt)>>
                \o SubSeq(Whole(h), 1, ForwardLength(request) + n - 1)
      logProb == model[Run[k]][Digest(seen, VocabularySize)][text[n]]
  IN  IF ForwardLength(request) + n < Len(prompt) THEN 0
      ELSE IF \E m \in 1 .. n - 1 : text[m] = text[n] THEN request.repetition * logProb
      ELSE logProb

ScoreAlone(h) == SumOf([n \in DOMAIN generated[h] |-> Gain(h, n)])

(* What the caller should get of a hypothesis: the prompt exactly if it    *)
(* was asked for or is a target prefix, and no end token that was          *)
(* generated, unless that was asked for.                                   *)
ShouldReturn(h) ==
  LET prompt == request.prompts[Run[Sentence(h)]]
      whole == Whole(h)
      Stripped(text) == IF request.returnEnd THEN text ELSE WithoutEnd(text, request.endIds)
  IN  CASE request.kind = "translate" -> Stripped(whole)
        [] request.kind = "generate" ->
             IF ~request.includePrompt THEN Stripped(SubSeq(whole, Len(prompt), Len(whole)))
             ELSE IF Head(prompt) = BosId THEN Stripped(whole)
             ELSE <<Head(prompt)>> \o Stripped(whole)
        [] request.kind = "transcribe" ->
             Without(SubSeq(whole, request.promptLength, Len(whole)), request.endIds)

(* The request returns, for every sentence, as many hypotheses as it was   *)
(* asked for, each complete and with the score of its own tokens, the best *)
(* one first.                                                              *)
EverySentenceIsAnswered ==
  stage = "returned" =>
    /\ finalized = Hypotheses
    /\ \A b \in Sentences(request) : Len(answers[b]) = request.numHypotheses
    /\ \A k \in Batch :
         LET mine == {h \in Hypotheses : Sentence(h) = k}
         IN  /\ \A n \in 1 .. Len(results[k]) - 1 :
                  ~BetterScore(results[k][n + 1], results[k][n], options.lengthPenalty)
             /\ {r.score : r \in Range(results[k])} = {ScoreAlone(h) : h \in mine}
             /\ Range(answers[Run[k]]) = {ShouldReturn(h) : h \in mine}

(* The decoding stops on one of the end tokens of the request.             *)
EndTokenStops ==
  \A h \in Hypotheses : \A n \in Len(options.prefixes[Sentence(h)]) + 1 .. Len(generated[h]) :
    generated[h][n] \in request.endIds => h \in finalized

(* When the callback gets the words of the results under the numbers of    *)
(* their sentences: no sentence is skipped, and every word is an output.   *)
ReportsTheResults(r) ==
  r.callback # "none" => r.skipped = {} /\ Last(r.restrictions) = <<>>

(* What the callback was given under one batch_id and hypothesis_id is one *)
(* hypothesis of that sentence, in order, each of them once; the last call *)
(* and no other says so, unless the callback stopped the hypothesis.       *)
CallbackStreamsHypotheses ==
  stage = "returned" /\ options.callback # "none" =>
    \A b \in Sentences(request) :
      LET ids == {id \in DOMAIN called : id[1] = b}
          decoded == IF b \in Range(Run) THEN results[PositionInRun(b)] ELSE <<>>
          Streamed(id) == [n \in DOMAIN called[id] |-> called[id][n].token]
          Text(id) == IF options.includeEos THEN Streamed(id)
                      ELSE Without(Streamed(id), request.endIds)
      IN  /\ \A id \in ids : \A n \in DOMAIN called[id] :
               (called[id][n].last \/ called[id][n].stop) <=> n = Len(called[id])
          /\ b \notin Range(Run) => \A id \in ids : called[id] = <<>>
          /\ \A n \in DOMAIN decoded :
               Cardinality({id \in ids : Text(id) = decoded[n].tokens})
                 = Cardinality({m \in DOMAIN decoded : decoded[m].tokens = decoded[n].tokens})
=============================================================================
