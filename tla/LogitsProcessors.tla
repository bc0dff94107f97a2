--------------------------- MODULE LogitsProcessors ---------------------------
(***************************************************************************)
(* The logits processors of src/decoding_utils.cc, which act on one row of *)
(* the logits: what they do to its tokens, given the tokens that the       *)
(* search has chosen for the row so far.                                   *)
(***************************************************************************)
EXTENDS Decoding

(* NoRepeatNgram: the tokens that followed an earlier occurrence of the    *)
(* last n - 1 tokens.                                                      *)
NgramFinalTokens(sequence, n) ==
  LET length == Len(sequence)
      current == SubSeq(sequence, length - n + 2, length)
      found == {m \in 1 .. length - n + 1 : SubSeq(sequence, m, m + n - 2) = current}
  IN  IF n = 0 \/ length < n THEN {} ELSE {sequence[m + n - 1] : m \in found}

(* SuppressSequences: the last token of a sequence once the others are     *)
(* there; a single token always.                                           *)
BannedTokens(sequence, banned) ==
  {Last(b) : b \in {x \in banned : x # <<>> /\ IsSuffix(Front(x), sequence)}}

(* RepetitionPenalty, on the score of a token: scores are negative.        *)
PenalizeRepeated(score, token, sequence, penalty) ==
  IF token \in Range(sequence) THEN score * penalty ELSE score
=============================================================================
