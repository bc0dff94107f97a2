------------------------------- MODULE Requests -------------------------------
(***************************************************************************)
(* What the replicas do around a search: which sentences they run, what of *)
(* the prompts they forward at once, the ids they give to decode, and the  *)
(* answers they make of its results.  A request comes from                 *)
(* DecoderReplica::run_generation ("generate"), from translate of a        *)
(* sequence-to-sequence replica ("translate") or from                      *)
(* WhisperReplica::generate ("transcribe").                                *)
(***************************************************************************)
EXTENDS OutputLayer

CONSTANT BosId  \* bos_id of the vocabulary

Sentences(request) == DOMAIN request.prompts

(* get_batch_results_helper runs the sentences that skip_translation does  *)
(* not answer: those whose source is not empty.                            *)
IndexToRun(request) == Ascending(Sentences(request) \ request.skipped)

(* The tokens of each prompt that are forwarded before the search.         *)
ForwardLength(request) ==
  CASE request.kind = "generate" /\ ~request.includePrompt ->
         Min({Len(request.prompts[b]) : b \in Sentences(request)}) - 1
    [] request.kind = "transcribe" -> request.promptLength - 1
    [] OTHER -> 0

Forwarded(request, b) ==
  request.static \o SubSeq(request.prompts[b], 1, ForwardLength(request))

(* What the entry points make of the arguments of a call, and check. *)
IsRequest(request) ==
  /\ request.kind \in {"translate", "generate", "transcribe"}
  /\ request.prompts \in Seq(Seq(Words) \ {<<>>}) \ {<<>>}
  /\ request.skipped \subseteq Sentences(request)
  /\ request.static \in Seq(Words)
  /\ {request.promptLength, request.maxLength, request.numHypotheses, request.repetition,
      request.multiple} \subseteq Nat \ {0}
  /\ {request.minLength, request.topk, request.noRepeat} \subseteq Nat
  /\ {request.endIds, request.disableIds, request.disableBegin} \subseteq SUBSET Words
  /\ request.suppress \subseteq Seq(Words)
  /\ {request.includePrompt, request.hasBias} \subseteq BOOLEAN
  /\ request.restrictions \in Seq(Seq(Words)) \ {<<>>}
  /\ \A n \in DOMAIN request.restrictions : IsInjective(request.restrictions[n])
  /\ IF request.kind = "transcribe"
       THEN \A b \in Sentences(request) : request.promptLength <= Len(request.prompts[b])
       ELSE request.promptLength = 1

(* A plausible mistake in ReturnPrefix; nothing uses it.                   *)
ReturnPrefixAlways(request) == TRUE

(* return_prefix, which run_generation resets only if it forwards tokens.  *)
ReturnPrefix(request) == request.kind # "generate" \/ ForwardLength(request) = 0

(* The ids that are left to decode, as outputs of the layer.               *)
StartTokens(request, layer, b) ==
  LET prompt == request.prompts[b]
  IN  ToOutputs(layer, SubSeq(prompt, ForwardLength(request) + 1, Len(prompt)))

(* The arguments of the search.                                            *)
Arguments(request, layer) ==
  LET run == IndexToRun(request)
      start == [k \in DOMAIN run |-> StartTokens(request, layer, run[k])]
  IN  [startIds |-> [k \in DOMAIN run |-> Head(start[k])],
       prefixes |-> [k \in DOMAIN run |-> Tail(start[k])],
       forwarded |-> [k \in DOMAIN run |-> Forwarded(request, run[k])],
       returnPrefix |-> ReturnPrefix(request),
       includeEos |-> request.kind # "transcribe",
       endIds |-> ToOutputSet(layer, request.endIds),
       maxLength |-> request.maxLength, minLength |-> request.minLength,
       numHypotheses |-> request.numHypotheses, lengthPenalty |-> request.lengthPenalty,
       topk |-> request.topk, callback |-> request.callback,
       disableIds |-> ToOutputSet(layer, request.disableIds),
       disableBegin |-> ToOutputSet(layer, request.disableBegin),
       disableSequences |-> {ToOutputs(layer, s) : s \in request.suppress},
       noRepeat |-> request.noRepeat, repetition |-> request.repetition]

-----------------------------------------------------------------------------
(* The answers.                                                            *)

(* while (is_eos(sequence.back())) sequence.pop_back()                     *)
WithoutEnd(tokens, endIds) ==
  LET kept == {n \in DOMAIN tokens : tokens[n] \notin endIds}
  IN  SubSeq(tokens, 1, Max({0} \cup kept))

(* From the tokens of a hypothesis, as words.                              *)
Answer(request, b, tokens) ==
  LET first == Head(request.prompts[b])
      text == IF request.kind = "transcribe" \/ request.returnEnd
                THEN tokens ELSE WithoutEnd(tokens, request.endIds)
  IN  IF request.kind = "generate" /\ request.includePrompt /\ first # BosId
        THEN <<first>> \o text ELSE text

(* skip_translation: the target prefix is the translation.                 *)
SkippedAnswers(request, b) ==
  LET target == Tail(request.prompts[b])
  IN  [n \in 1 .. request.numHypotheses |->
         SubSeq(target, 1, Min({request.maxLength, Len(target)}))]
=============================================================================
