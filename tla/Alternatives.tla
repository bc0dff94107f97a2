----------------------------- MODULE Alternatives -----------------------------
(***************************************************************************)
(* decode_alternatives (src/src/decoding.cc) for a sentence of a batch,    *)
(* composed with the beam search that it calls: the prefix is forwarded at *)
(* once, one step of a beam search finds the words that may follow it, and *)
(* the decoding goes on from each of these words, as one batch.  The last  *)
(* search is a greedy one (beam_size = 1), which decodes every alternative *)
(* as if it was alone: that is what IndependentDecoding says of it.  No    *)
(* word was forwarded before the prefix (start_step = 0).                  *)
(***************************************************************************)
EXTENDS BeamSearch

CONSTANT AllRequests  \* the requests for alternatives, one record each

VARIABLES
  request,       \* start tokens and options, NoRequest for a plain beam search
  rows,          \* the decoder state of the last search, by alternative
  alternatives,  \* result.hypotheses and result.scores: score / divisor
  stage          \* "searching", "reducing", "continuing" or "returned"

allVars == <<vars, request, rows, alternatives, stage>>

NoRequest == [prompt |-> <<>>]

(* start_tokens.resize(options.max_length + 1)                             *)
StartTokens(r) == SubSeq(r.prompt, 1, Min({Len(r.prompt), r.maxLength + 1}))

ForcedTokens(r) == Tail(StartTokens(r))

(* The beam of num_hypotheses that expands the prefix.                     *)
Expansion(r) ==
  [r.search EXCEPT !.maxLength = 1, !.minLength = 1, !.lengthPenalty = 0,
                   !.numHypotheses = BeamSize, !.maxCandidates = BeamSize,
                   !.prefixes = <<<<>>>>,
                   !.startIds = <<Last(StartTokens(r))>>,
                   !.forwarded = <<Front(StartTokens(r))>>]

(* decode gives the first search a prompt and the options of its request.  *)
ASSUME AlternativesAssumption ==
  \A r \in AllRequests :
    /\ r.prompt \in Seq(Tokens) \ {<<>>} /\ r.maxLength \in Nat \ {0}
    /\ IsSearch(r.search)
    /\ \A m \in Models : 1 \in DOMAIN m

(* A prefix of the maximum length is the result, without a search.         *)
InitAlternatives ==
  /\ request \in AllRequests
  /\ options = Expansion(request)
  /\ alternatives = [n \in Beams |-> [tokens |-> ForcedTokens(request), score |-> 0, divisor |-> 1]]
  /\ stage = IF Len(ForcedTokens(request)) = request.maxLength THEN "returned" ELSE "searching"

InitAll ==
  /\ \/ InitAlternatives
     \/ /\ request = NoRequest /\ alternatives = <<>> /\ stage = "searching"
        /\ options \in Options
  /\ InitSearch
  /\ rows = <<>>

Search ==
  /\ stage = "searching"
  /\ StopSearch \/ ContinueSearch
  /\ stage' = IF searching' THEN "searching"
              ELSE IF request = NoRequest THEN "returned" ELSE "reducing"
  /\ UNCHANGED <<request, rows, alternatives>>

(* A plausible mistake in StartStep; nothing uses it.                      *)
StartStepUnexpanded(r) == Len(ForcedTokens(r))

(* start_step, after the expansion.                                        *)
StartStep(r) == Len(ForcedTokens(r)) + 1

(* The expansions before the first one that is too unlikely.               *)
NumAlternatives ==
  Min({n - 1 : n \in {m \in Beams : results[1][m].score < request.minExpansion}} \cup {BeamSize})

(* The expanded words join the results, and the state is reduced to their  *)
(* number; state that is not replicated is repeated.                       *)
KeepAlternatives ==
  /\ stage = "reducing"
  /\ alternatives' =
       [n \in 1 .. NumAlternatives |->
          [tokens |-> Append(alternatives[n].tokens, Last(results[1][n].tokens)),
           score |-> results[1][n].score, divisor |-> 1]]
  /\ rows' = [n \in 1 .. NumAlternatives |->
                [batch |-> RepeatBatch(memory, NumAlternatives)[n], tokens |-> cache[n].tokens]]
  /\ stage' = IF StartStep(request) = request.maxLength THEN "returned" ELSE "continuing"
  /\ UNCHANGED <<vars, request>>

(* Greedy search from a state, word by word.                               *)
BestWord(batch, last, words) ==
  CHOOSE t \in words : \A u \in words : model[batch][last][t] >= model[batch][last][u]

Suffix(row, first, maxLength, minLength) ==
  LET Words(n) == IF n <= minLength THEN Tokens \ options.endIds ELSE Tokens
      Extend(tokens, n) ==
        LET last == IF tokens = <<>> THEN first ELSE Last(tokens)
        IN  IF tokens # <<>> /\ last \in options.endIds THEN tokens
            ELSE Append(tokens, BestWord(row.batch, last, Words(n)))
  IN  FoldLeft(Extend, <<>>, [n \in 1 .. maxLength |-> n])

SuffixScore(row, first, suffix) ==
  FoldLeft(LAMBDA sum, n : sum + model[row.batch][IF n = 1 THEN first ELSE suffix[n - 1]][suffix[n]],
           0, [n \in DOMAIN suffix |-> n])

(* The search divides its score by length ^ length_penalty, where only the *)
(* returned tokens count.  Over 0 it is minus infinity.                    *)
Divisor(returned) == IF request.search.lengthPenalty = 0 THEN 1 ELSE Len(returned)

(* result.scores[i] += suffix.scores[0]: the score of the expanded word is *)
(* not divided.                                                            *)
Continued(n) ==
  LET first == Last(alternatives[n].tokens)
      suffix == Suffix(rows[n], first,
                       Max({request.maxLength - StartStep(request), 0}),
                       Max({request.minLength - StartStep(request), 0}))
      kept == SelectSeq(suffix, LAMBDA t : options.includeEos \/ t \notin options.endIds)
  IN  [tokens |-> alternatives[n].tokens \o kept,
       score |-> alternatives[n].score * Divisor(kept) + SuffixScore(rows[n], first, suffix),
       divisor |-> Divisor(kept)]

ContinueAlternatives ==
  /\ stage = "continuing"
  /\ alternatives' = [n \in DOMAIN alternatives |-> Continued(n)]
  /\ stage' = "returned"
  /\ UNCHANGED <<vars, request, rows>>

Return == stage = "returned" /\ UNCHANGED allVars

NextAll == Search \/ KeepAlternatives \/ ContinueAlternatives \/ Return

SpecAll == InitAll /\ [][NextAll]_allVars

-----------------------------------------------------------------------------
(* Properties.                                                             *)

(* A translation with a target prefix, one word after another: its lengths *)
(* include the prefix.                                                     *)
Translation(b, start, prefix) ==
  LET Words(n) == IF n <= request.minLength THEN Tokens \ options.endIds ELSE Tokens
      Extend(tokens, n) ==
        IF n <= Len(prefix) THEN Append(tokens, prefix[n])
        ELSE IF n > Len(prefix) + 1 /\ tokens # <<>> /\ Last(tokens) \in options.endIds
          THEN tokens
        ELSE Append(tokens, BestWord(b, Last(<<start>> \o tokens), Words(n)))
  IN  FoldLeft(Extend, <<>>, [n \in 1 .. request.maxLength |-> n])

(* The log probability of what follows the prefix.                         *)
ScoreAfter(b, start, tokens, prefix) ==
  FoldLeft(LAMBDA sum, n : sum + (IF n <= Len(prefix) THEN 0
                                  ELSE model[b][IF n = 1 THEN start ELSE tokens[n - 1]][tokens[n]]),
           0, [n \in DOMAIN tokens |-> n])

(* "Combining target_prefix with the return_alternatives flag returns      *)
(* alternative sequences just after the prefix": the alternatives are the  *)
(* translations that start with the prefix and one of the best words after *)
(* it, those that are likely enough, and the last search goes on from what *)
(* the decoder has seen of each of them.  The score is that of the word,   *)
(* and of what follows it, which the length penalty divides by its length. *)
AlternativesContinueThePrefix ==
  stage \in {"continuing", "returned"} /\ request # NoRequest =>
    LET start == Head(request.prompt)
        prefix == ForcedTokens(request)
        last == Last(StartTokens(request))
        free == Tokens \ options.endIds
        Rank(t) == Cardinality({u \in free : model[1][last][u] >= model[1][last][t]})
        words == {t \in free : Rank(t) <= BeamSize /\ model[1][last][t] >= request.minExpansion}
        Returned(tokens) ==
          prefix \o SelectSeq(SubSeq(tokens, Len(prefix) + 1, Len(tokens)),
                              LAMBDA t : options.includeEos \/ t \notin options.endIds)
    IN  IF Len(prefix) = request.maxLength
          THEN \A n \in Beams : alternatives[n].tokens = prefix
        ELSE IF stage = "continuing"
          THEN \A n \in DOMAIN rows :
                 rows[n] = [batch |-> 1, tokens |-> <<start>> \o Front(alternatives[n].tokens)]
        ELSE /\ Len(alternatives) = Cardinality(words)
             /\ \A t \in words :
                  LET alternative == alternatives[Rank(t)]
                      whole == Translation(1, start, Append(prefix, t))
                      after == ScoreAfter(1, start, whole, Append(prefix, t))
                      added == Len(Returned(whole)) - Len(prefix) - 1
                      divisor == IF request.search.lengthPenalty = 0
                                    \/ Len(prefix) + 1 = request.maxLength THEN 1 ELSE added
                  IN  alternative = [tokens |-> Returned(whole), divisor |-> divisor,
                                     score |-> divisor * model[1][last][t] + after]
=============================================================================
