------------------------------- MODULE Batching -------------------------------
(***************************************************************************)
(* src/batch_reader.cc: how examples are grouped into batches.  An example *)
(* is represented by its length, the number of tokens of its first stream. *)
(***************************************************************************)
EXTENDS Integers, Sequences, FiniteSetsExt, Functions

BatchTypes == {"examples", "tokens"}

Increment(len, type) == IF type = "tokens" THEN len ELSE 1

(* The largest and the total increment of the first k examples. *)
MaxIncrement(lens, k, type) == Max({Increment(lens[i], type) : i \in 1 .. k})
TotalIncrement(lens, k, type) ==
  MapThenSumSet(LAMBDA i : Increment(lens[i], type), 1 .. k)

-----------------------------------------------------------------------------
(* Plausible mistakes in the definitions below. *)

FixedSizeWithoutNext(lens, k, type) == k * MaxIncrement(lens, k + 1, type)
-----------------------------------------------------------------------------

(* The batch size that the two loops compare with the maximum when the     *)
(* batch holds k examples and the next one is considered: with padding     *)
(* every example is as long as the longest, without it the lengths add up. *)
FixedSize(lens, k, type) == (k + 1) * MaxIncrement(lens, k + 1, type)
VariableSize(lens, k, type) == TotalIncrement(lens, k + 1, type)

(* The number of examples the loops take; the first one is always taken.   *)
FillWithFixedIncrement(lens, max, type) ==
  LET Loop[k \in 0 .. Len(lens)] ==
        IF k = Len(lens) \/ (k > 0 /\ FixedSize(lens, k, type) > max)
          THEN k
          ELSE Loop[k + 1]
  IN  Loop[0]

FillWithVariableIncrement(lens, max, type) ==
  LET Loop[k \in 0 .. Len(lens)] ==
        IF k = Len(lens) \/ (k > 0 /\ VariableSize(lens, k, type) > max)
          THEN k
          ELSE Loop[k + 1]
  IN  Loop[0]

Fill(lens, max, type, padding) ==
  IF padding
    THEN FillWithFixedIncrement(lens, max, type)
    ELSE FillWithVariableIncrement(lens, max, type)

(* rebatch_input sorts the indices of the examples from the longest to the *)
(* shortest; std::sort leaves the order of equal lengths open.             *)
IsSortedDown(lens, order) ==
  \A i, j \in DOMAIN order : i < j => lens[order[i]] >= lens[order[j]]

SortedOrders(lens) ==
  {order \in Bijection(DOMAIN lens, DOMAIN lens) : IsSortedDown(lens, order)}

IndexSlice(order, offset, n) == SubSeq(order, offset + 1, offset + n)

(* The batches: the examples come from a reader over the sorted vector,    *)
(* their indices from the slice of example_index at the running offset.    *)
RebatchInput(lens, order, maxBatchSize, batchType) ==
  LET max == IF maxBatchSize = 0 THEN Len(lens) ELSE maxBatchSize
      type == IF maxBatchSize = 0 THEN "examples" ELSE batchType
      sorted == [i \in DOMAIN order |-> lens[order[i]]]
      Batches[offset \in 0 .. Len(lens)] ==
        IF offset = Len(lens)
          THEN <<>>
          ELSE LET rest == SubSeq(sorted, offset + 1, Len(lens))
                   n == FillWithFixedIncrement(rest, max, type)
               IN  <<[examples |-> [i \in 1 .. n |-> order[offset + i]],
                      exampleIndex |-> IndexSlice(order, offset, n)]>>
                   \o Batches[offset + n]
  IN  Batches[0]

(* consume_batches reads 16 batches at a time unless told otherwise. *)
ReadBatchSize(readBatchSize, maxBatchSize) ==
  IF readBatchSize # 0 THEN readBatchSize
  ELSE IF maxBatchSize = 1 THEN 1 ELSE maxBatchSize * 16
=============================================================================
