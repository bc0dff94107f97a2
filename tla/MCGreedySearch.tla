---------------------------- MODULE MCGreedySearch ----------------------------
(* Decoders and requests for TLC: four costs, rotated by what was seen.    *)
(* The words are 0 (unknown), 1 (start), 2 and 3 (end).                    *)
EXTENDS GreedySearch

Rotated(costs, shift) ==
  [t \in Words |-> [u \in Words |-> costs[((u + shift[t + 1]) % 4) + 1]]]

AllModels ==
  {<<Rotated(<<-1, -2, -4, -5>>, <<a, b, b, a>>), Rotated(<<-1, -3, -4, -6>>, <<0, a, 2, 3>>)>> :
     a, b \in 0 .. 3}

(* Translations. *)
Default ==
  [kind |-> "translate", prompts |-> <<<<1>>, <<1>>>>, skipped |-> {}, static |-> <<>>,
   promptLength |-> 1, includePrompt |-> TRUE, returnEnd |-> FALSE, restrictions |-> <<<<>>>>,
   multiple |-> 1, hasBias |-> TRUE, maxLength |-> 3, minLength |-> 0, numHypotheses |-> 1,
   lengthPenalty |-> 1, endIds |-> {3}, topk |-> 1, callback |-> "listens",
   disableIds |-> {}, disableBegin |-> {}, suppress |-> {}, noRepeat |-> 0, repetition |-> 1]

(* Plain searches, several hypotheses, target prefixes (one with an end    *)
(* token), and sentences without a source.                                 *)
Translations ==
  {[Default EXCEPT !.returnEnd = e, !.lengthPenalty = p, !.callback = c] :
     e \in BOOLEAN, p \in {0, 1}, c \in {"none", "stops"}}
  \cup {[Default EXCEPT !.numHypotheses = 2, !.topk = 2, !.maxLength = 2,
                        !.endIds = i, !.minLength = n] :
          i \in {{3}, {2, 3}}, n \in {0, 1}}
  \cup {[Default EXCEPT !.prompts = x, !.minLength = n, !.topk = k,
                        !.callback = IF k = 1 THEN "stops" ELSE "listens"] :
          x \in {<<<<1>>, <<1, 2>>>>, <<<<1, 0, 3>>, <<1, 2>>>>}, n \in {0, 2}, k \in {1, 2}}
  \cup {[Default EXCEPT !.prompts = <<<<1, 2>>, <<1>>>>, !.skipped = s, !.callback = "none",
                        !.maxLength = n] :
          s \in SUBSET {1, 2}, n \in {1, 2}}

(* The output layer is restricted by this request or by one before it, or  *)
(* is padded to a multiple.                                                *)
Small == <<0, 1, 3>>

Reduced ==
  [Default EXCEPT !.callback = "none", !.topk = 2, !.prompts = <<<<1>>, <<1, 0>>>>, !.minLength = 1]

Restricted ==
  {[Reduced EXCEPT !.restrictions = r, !.multiple = m] :
     r \in {<<Small>>, <<Small, Small>>, <<<<>>, Small>>}, m \in {1, 2}}
  \cup {[Reduced EXCEPT !.restrictions = r, !.multiple = 3] : r \in {<<Small>>, <<<<>>>>}}
  \cup {[Default EXCEPT !.restrictions = <<Small, <<>>>>, !.callback = "stops", !.minLength = 1],
         [Default EXCEPT !.restrictions = <<<<>>, <<>>>>, !.multiple = 3, !.hasBias = FALSE]}

(* Generations with prompts of different lengths, after a static prompt.   *)
Generations ==
  {[Default EXCEPT !.kind = "generate", !.prompts = x, !.static = s, !.includePrompt = i,
                   !.returnEnd = e, !.minLength = IF e THEN 1 ELSE 0,
                   !.callback = IF e THEN "stops" ELSE "listens"] :
     x \in {<<<<1, 2>>, <<2, 0, 1>>>>, <<<<1, 0, 2>>, <<1, 2, 3, 0>>>>},
     s \in {<<>>, <<2>>}, i, e \in BOOLEAN}

(* Speech: the prompts have two tokens before the text and maybe a prefix. *)
Transcriptions ==
  {[Default EXCEPT !.kind = "transcribe", !.prompts = x, !.promptLength = 2,
                   !.topk = k, !.numHypotheses = k, !.maxLength = 2, !.callback = c] :
     x \in {<<<<1, 2>>, <<1, 0>>>>, <<<<1, 2, 0>>, <<1, 2>>>>}, k \in {1, 2},
     c \in {"none"}}

(* Two translations with use_vmap, of sources with different candidates.   *)
MappedRequests == {[Reduced EXCEPT !.restrictions = <<<<0, 1, 2, 3>>, Small>>]}

(* Rules for the tokens.  They are about the tokens that are left to       *)
(* decode: generations that forward a part of their prompts are left out.  *)
Long == [Default EXCEPT !.maxLength = 4, !.callback = "none", !.prompts = <<<<1, 2>>, <<1>>>>]

Ruled ==
  {[Long EXCEPT !.noRepeat = n] : n \in {1, 2}}
  \cup {[Long EXCEPT !.noRepeat = 2, !.topk = 2, !.callback = "stops", !.maxLength = 3,
                      !.prompts = <<<<1, 0>>, <<1>>>>],
         [Long EXCEPT !.suppress = {<<0>>, <<2, 1>>, <<1, 2, 1>>}],
         [Long EXCEPT !.suppress = {<<2, 1>>}, !.repetition = 3, !.disableIds = {0}, !.topk = 2],
         [Long EXCEPT !.suppress = {<<1, 3>>, <<>>}, !.restrictions = <<Small>>, !.minLength = 1,
                      !.prompts = <<<<1>>, <<1, 0>>>>, !.repetition = 2, !.noRepeat = 3],
         [Long EXCEPT !.kind = "generate", !.noRepeat = 2, !.suppress = {<<1, 1>>}]}
  \cup {[Long EXCEPT !.kind = "transcribe", !.prompts = <<<<1, 2>>, <<1, 2, 0>>>>,
                      !.promptLength = 2, !.disableBegin = {2, 3}, !.disableIds = {1},
                      !.noRepeat = n, !.topk = k, !.numHypotheses = k, !.maxLength = 5 - 2 * k] :
           n \in {0, 2}, k \in {1, 2}}

SearchRequests ==
  Translations \cup Restricted \cup Generations \cup Transcriptions \cup Ruled

(* These are within what the theorems are about.                           *)
ASSUME MCGreedySearchAssumption ==
  \A r \in SearchRequests : DecodesAlone(r) /\ ReportsTheResults(r)
=============================================================================
