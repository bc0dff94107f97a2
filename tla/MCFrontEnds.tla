------------------------------ MODULE MCFrontEnds ------------------------------
(* Three components that share nothing, in one state graph: a behaviour    *)
(* streams tokens (TokenStreaming), reads batches (BatchReader) or waits   *)
(* for a result (AsyncResult), and the others stand still.                 *)
EXTENDS TokenStreaming, BatchReader

CONSTANTS
  Threads,      \* see AsyncResult
  MaxCalls,
  Outcomes

ASSUME MCFrontEndsAssumption == MaxCalls \in Nat

VARIABLES
  part,         \* the component that runs
  future, computed, result, exception, done, pc, calls, answer, overlapped

Results == INSTANCE AsyncResult

resultVars == <<future, computed, result, exception, done, pc, calls, answer, overlapped>>
mcVars == <<part, vars, readerVars, resultVars>>

-----------------------------------------------------------------------------

(* Two batches; a prompt of the first one is longer than the other, so that *)
(* its first step is forced.                                               *)
TwoBatches == <<<<0, 1>>, <<0>>>>

MCInit ==
  /\ part \in {"streaming", "reader", "results"}
  /\ part = "streaming" \/ mode = "sync"
  /\ \/ part = "reader"
     \/ /\ stream = <<>> /\ second = 0 /\ maxBatchSize = 1
        /\ batchType = "tokens" /\ considerPadding = FALSE
  /\ Init /\ ReaderInit /\ Results!Init

Streams(A) == part = "streaming" /\ A /\ UNCHANGED <<part, readerVars, resultVars>>
Reads(A) == part = "reader" /\ A /\ UNCHANGED <<part, vars, resultVars>>
Answers(A) == part = "results" /\ A /\ UNCHANGED <<part, vars, readerVars>>

MCNext == Streams(Next) \/ Reads(ReaderNext) \/ Answers(Results!Next)

(* The fairness of each component, for the behaviours in which it runs.    *)
MCSpec ==
  /\ MCInit
  /\ [][MCNext]_mcVars
  /\ \A j \in JobIds : WF_mcVars(Streams(RunJob(j)))
  /\ WF_mcVars(Streams(CatchResult \/ CatchEnd))
  /\ WF_mcVars(Streams(Take \/ Join))
  /\ WF_mcVars(Streams(Produce))
  /\ WF_mcVars(Streams(Consume))
  /\ WF_mcVars(Reads(GetNext))
  /\ WF_mcVars(Answers(Results!SetPromise))
  /\ \A t \in Threads : WF_mcVars(Answers(Results!ResultStep(t)))

-----------------------------------------------------------------------------
(* Properties.                                                             *)

(* What get_next of BatchReader promises about when it stops.              *)
InputIsRead == part = "reader" => ReadingStops

(* What AsyncResult::result promises to the threads that call it.          *)
ResultReturns == Results!ResultReturns
=============================================================================
