------------------------------ MODULE BatchReader ------------------------------
(***************************************************************************)
(* src/batch_reader.cc: BatchReader::get_next over the lines of one stream *)
(* or of two parallel streams (ParallelBatchReader), until the input ends  *)
(* or a stream turns out to be shorter than the first one.                 *)
(***************************************************************************)
EXTENDS Batching, SequencesExt

CONSTANTS
  MaxExamples,  \* longest first stream
  MaxLength,    \* longest example
  Sizes         \* the values of max_batch_size

ASSUME BatchReaderAssumption ==
  MaxExamples \in Nat /\ MaxLength \in Nat /\ Sizes \subseteq Nat \ {0}

VARIABLES
  stream,           \* lengths of the examples of the first stream
  second,           \* number of examples of the second stream
  maxBatchSize,     \* the arguments of get_next
  batchType,
  considerPadding,
  initialized,      \* BatchReader::_initialized
  nextExample,      \* BatchReader::_next: index of an example, 0 if empty
  returned,         \* history: the batches returned so far
  ending            \* "reading", or how get_next ended

readerVars == <<stream, second, maxBatchSize, batchType, considerPadding,
                initialized, nextExample, returned, ending>>

(* Examples that have all their streams, and whether the next one throws.  *)
Rows == IF second < Len(stream) THEN second ELSE Len(stream)
Torn == second < Len(stream)

ReaderInit ==
  /\ stream \in BoundedSeq(0 .. MaxLength, MaxExamples)
  /\ second \in 0 .. MaxExamples + 1
  /\ maxBatchSize \in Sizes
  /\ batchType \in BatchTypes
  /\ considerPadding \in BOOLEAN
  /\ initialized = FALSE
  /\ nextExample = 0
  /\ returned = <<>>
  /\ ending = "reading"

-----------------------------------------------------------------------------
(* Plausible mistakes in the definitions below; Next uses none of them.    *)

RowAfterSkips(i) == IF i + 2 <= Rows THEN i + 2 ELSE 0

-----------------------------------------------------------------------------

(* ParallelBatchReader::get_next_example, once i examples were read: the   *)
(* next row, 0 at the end of the first stream, or an exception when a      *)
(* later stream ends before the first one.                                 *)
RowAfter(i) == IF i + 1 <= Rows THEN i + 1 ELSE 0
ThrowsAfter(i) == Torn /\ i = Rows

ReaderFails ==
  /\ nextExample' = 0
  /\ ending' = "error"
  /\ UNCHANGED returned

(* get_next. A batch that is being filled when the reader throws is lost.  *)
GetNext ==
  /\ ending = "reading"
  /\ IF ~initialized /\ ThrowsAfter(0)
       THEN ReaderFails /\ UNCHANGED initialized
       ELSE LET first == IF initialized THEN nextExample ELSE RowAfter(0)
                n == Fill(SubSeq(stream, first, Rows),
                          maxBatchSize, batchType, considerPadding)
            IN  /\ initialized' = TRUE
                /\ \/ /\ first = 0
                      /\ ending' = "end"
                      /\ nextExample' = 0
                      /\ UNCHANGED returned
                   \/ /\ first # 0
                      /\ ThrowsAfter(first + n - 1)
                      /\ ReaderFails
                   \/ /\ first # 0
                      /\ ~ThrowsAfter(first + n - 1)
                      /\ returned' = Append(returned, [i \in 1 .. n |-> first + i - 1])
                      /\ nextExample' = RowAfter(first + n - 1)
                      /\ UNCHANGED ending
  /\ UNCHANGED <<stream, second, maxBatchSize, batchType, considerPadding>>

ReaderEnded == ending # "reading" /\ UNCHANGED readerVars

ReaderNext == GetNext \/ ReaderEnded

ReaderSpec == ReaderInit /\ [][ReaderNext]_readerVars /\ WF_readerVars(GetNext)

-----------------------------------------------------------------------------
(* Properties.                                                             *)

(* The lengths of the examples of a batch. *)
Lengths(batch) == [i \in DOMAIN batch |-> stream[batch[i]]]

(* What a batch of these lengths costs: with padding as many tokens as the *)
(* longest example for each example.                                       *)
Cost(ls) ==
  LET inc == [i \in DOMAIN ls |-> IF batchType = "tokens" THEN ls[i] ELSE 1]
  IN  IF considerPadding THEN Len(ls) * Max(Range(inc)) ELSE SumFunction(inc)

(* A batch respects max_batch_size unless it is a single example, and is   *)
(* never closed while the next example would still have fitted.            *)
BatchesAreTight ==
  \A b \in DOMAIN returned :
    LET batch == returned[b]
        after == Last(batch) + 1
    IN  /\ Len(batch) = 1 \/ Cost(Lengths(batch)) <= maxBatchSize
        /\ after <= Rows =>
             Cost(Lengths(Append(batch, after))) > maxBatchSize

(* get_next returns every example once and in the order of the stream, and *)
(* reading stops: with an error exactly when the other stream is shorter   *)
(* than the first one, after some of the rows that both streams have, and  *)
(* otherwise only when the first stream was read to its end.               *)
ReadingStops ==
  <>(LET read == FlattenSeq(returned)
     IN  /\ read = [i \in DOMAIN read |-> i] /\ Len(read) <= Rows
         /\ IF Torn THEN ending = "error"
            ELSE ending = "end" /\ Len(read) = Len(stream))
=============================================================================
