------------------------------ MODULE OutputLayer ------------------------------
(***************************************************************************)
(* The output layer of a decoder: Decoder::update_output_layer restricts   *)
(* it to some words, or resizes it to a multiple, before every request,    *)
(* and keeps two tables between words and outputs; a layer is what the     *)
(* requests so far have left.                                              *)
(***************************************************************************)
EXTENDS Decoding

CONSTANT VocabularySize  \* _vocabulary_size

ASSUME OutputLayerAssumption == VocabularySize \in Nat \ {0}

Words == 0 .. VocabularySize - 1

Penalised == -100000     \* -1e10

(* words: the selected weights, which are also _to_original_word_id, empty *)
(* if the layer is whole; masked: the outputs whose bias is -1e10; outputs *)
(* is _to_output_word_id.                                                  *)
WholeLayer == [words |-> <<>>, masked |-> {}, outputs |-> <<>>]

IsUpdated(layer) == layer.words # <<>>
OutputSize(layer) == IF IsUpdated(layer) THEN Len(layer.words) ELSE VocabularySize
Outputs(layer) == 0 .. OutputSize(layer) - 1

(* to_original_word_id, which is also the word whose weights an output has *)
ToOriginal(layer, output) == IF IsUpdated(layer) THEN layer.words[output + 1] ELSE output

(* map_to_output_word_ids, for an updated layer *)
ToOutputs(layer, ids) ==
  IF IsUpdated(layer)
    THEN LET known == Ascending({n \in DOMAIN ids : ids[n] \in DOMAIN layer.outputs})
         IN  [n \in DOMAIN known |-> layer.outputs[ids[known[n]]]]
    ELSE ids

ToOutputSet(layer, ids) == Range(ToOutputs(layer, SetToSeq(ids)))

(* The score that a layer gives to an output, from the one of its word.    *)
Biased(layer, output, score) == IF output \in layer.masked THEN Penalised ELSE score

-----------------------------------------------------------------------------
(* update_output_layer.                                                    *)

Padding(size, multiple) == (multiple - (size % multiple)) % multiple

(* _to_output_word_id.emplace for each id: an entry that is there stays.   *)
Emplaced(table, ids) ==
  [w \in DOMAIN table \cup Range(ids) |->
     IF w \in DOMAIN table THEN table[w] ELSE Min({n \in DOMAIN ids : ids[n] = w}) - 1]

(* Dense::select_weights: the extra bias masks the padding; without one, a *)
(* layer that has no bias of its own keeps that of the last selection.     *)
Masked(layer, size, padding, hasBias) ==
  IF padding > 0 THEN size - padding .. size - 1
  ELSE IF hasBias THEN {} ELSE layer.masked

Select(layer, ids, padding, hasBias) ==
  [words |-> ids,
   masked |-> Masked(layer, Len(ids), padding, hasBias),
   outputs |-> Emplaced(layer.outputs, ids)]

(* restrictIds is a sorted sequence of words, empty for all of them.       *)
UpdateOutputLayer(layer, multiple, restrictIds, hasBias) ==
  LET wanted == IF restrictIds = <<>> THEN [n \in 1 .. VocabularySize |-> n - 1] ELSE restrictIds
      padding == Padding(Len(wanted), multiple)
      ids == wanted \o [n \in 1 .. padding |-> 0]
  IN  IF restrictIds = <<>> /\ Len(ids) = OutputSize(layer) THEN layer
      ELSE IF restrictIds = <<>> /\ padding = 0 THEN WholeLayer
      ELSE Select(layer, ids, padding, hasBias)

(* The layer after a sequence of requests with these restrictions.         *)
LayerAfter(restrictions, multiple, hasBias) ==
  LET After[n \in 0 .. Len(restrictions)] ==
        IF n = 0 THEN WholeLayer
        ELSE UpdateOutputLayer(After[n - 1], multiple, restrictions[n], hasBias)
  IN  After[Len(restrictions)]
=============================================================================
