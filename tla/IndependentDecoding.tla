------------------------- MODULE IndependentDecoding -------------------------
(***************************************************************************)
(* What greedy search promises: each hypothesis is decoded on its own.     *)
(* Its next token depends on its prompt and on the tokens it has, never on *)
(* the other sentences and hypotheses of the batch, nor on other requests. *)
(***************************************************************************)
EXTENDS Requests

VARIABLES
  request,    \* the request
  model,      \* the decoder
  generated,  \* the tokens of each hypothesis after the first one of its prompt
  open        \* the hypotheses that have not ended

vars == <<request, model, generated, open>>

Hypotheses == DOMAIN generated
Sentence(h) == IndexToRun(request)[SentenceOf(h, request.numHypotheses)]
Prompt(h) == request.prompts[Sentence(h)]
Forced(h) == Tail(Prompt(h))

(* The forced tokens that do not count for the lengths.                    *)
Uncounted(h) ==
  CASE request.kind = "translate" -> 0
    [] request.kind = "generate" -> IF request.includePrompt THEN 0 ELSE Len(Forced(h))
    [] request.kind = "transcribe" -> request.promptLength - 1

(* The words of this request. *)
Vocabulary ==
  IF Last(request.restrictions) = <<>> THEN Words ELSE Range(Last(request.restrictions))

(* The tokens that the rules of the request are about: in speech those     *)
(* after the prompt.                                                       *)
History(h) == SubSeq(generated[h], request.promptLength, Len(generated[h]))

(* No end token before the minimum length, no suppressed word, no          *)
(* suppressed sequence, and no ngram of this size for the second time.     *)
Forbidden(h, t) ==
  LET n == request.noRepeat
      text == Append(History(h), t)
      Ngram(m) == SubSeq(text, m, m + n - 1)
  IN  \/ t \in request.endIds /\ Len(generated[h]) < Uncounted(h) + request.minLength
      \/ t \in request.disableIds
      \/ t \in request.disableBegin /\ Len(generated[h]) = Len(Forced(h))
      \/ \E x \in request.suppress \ {<<>>} : IsSuffix(x, text)
      \/ n > 0 /\ \E m \in 1 .. Len(text) - n : Ngram(m) = Ngram(Len(text) - n + 1)

(* The sampling_topk best of the words that are left.                      *)
Allowed(h) == {t \in Vocabulary : ~Forbidden(h, t)}

Best(h) ==
  LET seen == request.static \o <<Head(Prompt(h))>> \o generated[h]
      LogProb(t) == model[Sentence(h)][Digest(seen, VocabularySize)][t]
      P(t) == IF t \in Range(History(h)) THEN request.repetition * LogProb(t) ELSE LogProb(t)
  IN  {t \in Allowed(h) :
         Cardinality({u \in Allowed(h) : P(u) > P(t)}) < request.topk}

NextTokens(h) ==
  IF Len(generated[h]) < Len(Forced(h))
    THEN {Forced(h)[Len(generated[h]) + 1]} ELSE Best(h)

(* An end token after the prompt, or the maximum length.                   *)
Ended(h, t) ==
  \/ t \in request.endIds /\ Len(generated[h]) >= Len(Forced(h))
  \/ Len(generated[h]) + 1 = request.maxLength + Uncounted(h)

Init ==
  /\ Hypotheses = 1 .. Len(IndexToRun(request)) * request.numHypotheses
  /\ \A h \in Hypotheses : IsPrefix(generated[h], Forced(h))
  /\ open = Hypotheses

(* The user may stop any hypothesis in addition, if there is a callback.   *)
Step ==
  /\ open # {}
  /\ \A h \in Hypotheses :
       IF h \in open
         THEN \E t \in NextTokens(h) :
                /\ generated'[h] = Append(generated[h], t)
                /\ Ended(h, t) => h \notin open'
         ELSE generated'[h] = generated[h]
  /\ DOMAIN generated' = Hypotheses
  /\ open' \subseteq open
  /\ \A h \in open \ open' :
       Ended(h, Last(generated'[h])) \/ request.callback = "stops"
  /\ UNCHANGED <<request, model>>

Spec == Init /\ [][Step]_vars
=============================================================================
