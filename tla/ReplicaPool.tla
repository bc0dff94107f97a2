------------------------------ MODULE ReplicaPool ------------------------------
(***************************************************************************)
(* include/ctranslate2/replica_pool.h: callers translate a stream of       *)
(* examples with consume_batches, replicas run the batches.  The thread    *)
(* pool underneath is JobService, which ThreadPool implements: a job is    *)
(* one BatchJob.  Example i of a caller owns promise i of that caller; the *)
(* value of a promise is the number of the example whose result it got.    *)
(***************************************************************************)
EXTENDS Batching, SequencesExt, FiniteSets

CONSTANTS
  Callers,           \* threads in consume_batches
  Inputs,            \* the example lengths of the streams of the callers
  NumReplicas,       \* models.size(): one worker per replica
  MaxQueuedBatches,  \* ReplicaPoolConfig::max_queued_batches
  MaxBatchSize, BatchTypeUsed, ReadSize  \* arguments of consume_batches

ASSUME ReplicaPoolAssumption ==
  /\ Inputs \subseteq [Callers -> Seq(Nat)]
  /\ NumReplicas \in Nat \ {0}
  /\ MaxQueuedBatches \in Int
  /\ MaxBatchSize \in Nat /\ ReadSize \in Nat
  /\ ReadBatchSize(ReadSize, MaxBatchSize) > 0
  /\ BatchTypeUsed \in BatchTypes

VARIABLES
  accepted, started, finished, open,  \* the thread pool
  execution,  \* what the replica does with each job in progress
  threw,      \* history: the jobs whose function threw
  lens,       \* the complete examples of each caller
  torn,       \* whether the reader throws after the last complete example
  stage,      \* where the caller is in consume_batches
  read,       \* number of examples read from the batch reader
  toPost,     \* post_examples: the batches that are not posted yet
  chunk,      \* the examples of the current post_examples
  results,    \* the queue of futures
  promise,    \* the promise of each example
  written     \* what was given to the result writer

poolVars == <<accepted, started, finished, open, execution, threw>>
callerVars == <<lens, torn, stage, read, toPost, chunk, results, written>>
replicaPoolVars == <<poolVars, callerVars, promise>>

(* A promise that is not set, or that holds an exception; examples count   *)
(* from 1.                                                                 *)
Unset == 0
Exception == -1

(* initialize_pool: a negative value leaves the queue unbounded, that is   *)
(* longer than the number of examples there are.                           *)
Unbounded ==
  1 + Max({MapThenSumSet(LAMBDA c : Len(input[c]), Callers) : input \in Inputs})
MaxQueueSize ==
  IF MaxQueuedBatches = 0 THEN 4 * NumReplicas
  ELSE IF MaxQueuedBatches > 0 THEN MaxQueuedBatches ELSE Unbounded

(* A BatchJob: its examples and its promises, position by position. *)
BatchJobs == [caller : Callers, examples : Seq(Nat), promises : Seq(Nat)]

Pool == INSTANCE JobService WITH
  Jobs <- BatchJobs, Servers <- NumReplicas, Backlog <- MaxQueueSize

Init ==
  /\ Pool!Init
  /\ execution = <<>>
  /\ threw = {}
  /\ lens \in Inputs
  /\ torn \in [Callers -> BOOLEAN]
  /\ stage = [c \in Callers |-> "reading"]
  /\ read = [c \in Callers |-> 0]
  /\ toPost = [c \in Callers |-> <<>>]
  /\ chunk = [c \in Callers |-> <<>>]
  /\ results = [c \in Callers |-> <<>>]
  /\ promise = [c \in Callers |-> [i \in DOMAIN lens[c] |-> Unset]]
  /\ written = [c \in Callers |-> <<>>]

(* pop_results: the front future is ready. *)
IsReady(c) == results[c] # <<>> /\ promise[c][Head(results[c])] # Unset

-----------------------------------------------------------------------------
(* Plausible mistakes in the definitions below; Next uses none of them.    *)

(* The drain of the queue does not block. *)
DrainedEarly(c) ==
  /\ stage[c] = "draining"
  /\ ~IsReady(c)
  /\ stage' = [stage EXCEPT ![c] = "done"]
  /\ UNCHANGED <<poolVars, lens, torn, read, toPost, chunk, results, written, promise>>

(* The promises are left alone when the function throws. *)
RunEndOnException(job) ==
  /\ execution[job].kind = "exception" \/ execution[job].set = Len(job.promises)
  /\ Pool!Finish(job)
  /\ execution' = [j \in DOMAIN execution \ {job} |-> execution[j]]
  /\ UNCHANGED <<threw, callerVars, promise>>

-----------------------------------------------------------------------------
(* consume_batches, in a caller thread.                                    *)

(* The number of examples the next call of get_next takes. *)
NextRead(c) ==
  FillWithVariableIncrement(SubSeq(lens[c], read[c] + 1, Len(lens[c])),
                            ReadBatchSize(ReadSize, MaxBatchSize), BatchTypeUsed)

(* An exception of the reader leaves consume_batches at once: the futures  *)
(* in the queue are dropped, and so are the examples being read.           *)
ReadThrows(c) ==
  /\ stage[c] = "reading"
  /\ torn[c] /\ read[c] + NextRead(c) = Len(lens[c])
  /\ stage' = [stage EXCEPT ![c] = "failed"]
  /\ UNCHANGED <<poolVars, lens, torn, read, toPost, chunk, results, written, promise>>

ReadEnd(c) ==
  /\ stage[c] = "reading"
  /\ ~torn[c] /\ read[c] = Len(lens[c])
  /\ stage' = [stage EXCEPT ![c] = "draining"]
  /\ UNCHANGED <<poolVars, lens, torn, read, toPost, chunk, results, written, promise>>

(* The promises of the batch are picked with the index of each example in  *)
(* the examples given to post_examples, which start after the first `read`.*)
JobOf(c, batch) ==
  [caller   |-> c,
   examples |-> [k \in DOMAIN batch.examples |-> read[c] + batch.examples[k]],
   promises |-> [k \in DOMAIN batch.exampleIndex |-> read[c] + batch.exampleIndex[k]]]

ReadBatch(c) ==
  /\ stage[c] = "reading"
  /\ NextRead(c) > 0
  /\ ~(torn[c] /\ read[c] + NextRead(c) = Len(lens[c]))
  /\ LET n == NextRead(c)
         chunkLens == SubSeq(lens[c], read[c] + 1, read[c] + n)
     IN  /\ \E order \in SortedOrders(chunkLens) :
              LET batches == RebatchInput(chunkLens, order, MaxBatchSize, BatchTypeUsed)
              IN  toPost' = [toPost EXCEPT ![c] =
                               [b \in DOMAIN batches |-> JobOf(c, batches[b])]]
         /\ chunk' = [chunk EXCEPT ![c] = [i \in 1 .. n |-> read[c] + i]]
         /\ read' = [read EXCEPT ![c] = read[c] + n]
  /\ stage' = [stage EXCEPT ![c] = "posting"]
  /\ UNCHANGED <<poolVars, lens, torn, results, written, promise>>

(* post_batch blocks while the queue of the thread pool is full. *)
PostBatch(c) ==
  /\ stage[c] = "posting"
  /\ toPost[c] # <<>>
  /\ Pool!Accept(Head(toPost[c]))
  /\ toPost' = [toPost EXCEPT ![c] = Tail(toPost[c])]
  /\ UNCHANGED <<execution, threw, lens, torn, stage, read, chunk, results, written, promise>>

(* The futures join the queue in the order of the examples. *)
PostEnd(c) ==
  /\ stage[c] = "posting"
  /\ toPost[c] = <<>>
  /\ results' = [results EXCEPT ![c] = results[c] \o chunk[c]]
  /\ stage' = [stage EXCEPT ![c] = "popping"]
  /\ UNCHANGED <<poolVars, lens, torn, read, toPost, chunk, written, promise>>

PopResult(c) ==
  /\ stage[c] \in {"popping", "draining"}
  /\ IsReady(c)
  /\ LET value == promise[c][Head(results[c])]
     IN  IF value = Exception
           THEN /\ stage' = [stage EXCEPT ![c] = "failed"]
                /\ UNCHANGED <<results, written>>
           ELSE /\ written' = [written EXCEPT ![c] = Append(written[c], value)]
                /\ results' = [results EXCEPT ![c] = Tail(results[c])]
                /\ UNCHANGED stage
  /\ UNCHANGED <<poolVars, lens, torn, read, toPost, chunk, promise>>

(* pop_results(false) stops at the first result that is not ready. *)
PopEnd(c) ==
  /\ stage[c] = "popping"
  /\ ~IsReady(c)
  /\ stage' = [stage EXCEPT ![c] = "reading"]
  /\ UNCHANGED <<poolVars, lens, torn, read, toPost, chunk, results, written, promise>>

Drained(c) ==
  /\ stage[c] = "draining"
  /\ results[c] = <<>>
  /\ stage' = [stage EXCEPT ![c] = "done"]
  /\ UNCHANGED <<poolVars, lens, torn, read, toPost, chunk, results, written, promise>>

-----------------------------------------------------------------------------
(* BatchJob::run, in a worker thread.                                      *)

Take ==
  /\ Pool!Start
  /\ LET job == accepted[Len(started) + 1]
     IN  execution' = [j \in DOMAIN execution \cup {job} |->
                         IF j = job THEN [kind |-> "running", set |-> 0] ELSE execution[j]]
  /\ UNCHANGED <<threw, callerVars, promise>>

(* The function returns one result per example, or throws. *)
Compute(job) ==
  /\ execution[job].kind = "running"
  /\ \E kind \in {"value", "exception"} :
       /\ execution' = [execution EXCEPT ![job].kind = kind]
       /\ threw' = IF kind = "exception" THEN threw \cup {job} ELSE threw
  /\ UNCHANGED <<accepted, started, finished, open, callerVars, promise>>

(* The index of the promise that is set next. *)
NextPromise(job) == execution[job].set + 1

(* Result i goes to promise i. *)
SetPromise(job) ==
  /\ execution[job].kind \in {"value", "exception"}
  /\ NextPromise(job) <= Len(job.promises)
  /\ LET k == NextPromise(job)
     IN  promise' = [promise EXCEPT ![job.caller][job.promises[k]] =
                       IF execution[job].kind = "exception" THEN Exception
                                                           ELSE job.examples[k]]
  /\ execution' = [execution EXCEPT ![job].set = @ + 1]
  /\ UNCHANGED <<accepted, started, finished, open, threw, callerVars>>

RunEnd(job) ==
  /\ execution[job].kind # "running"
  /\ execution[job].set = Len(job.promises)
  /\ Pool!Finish(job)
  /\ execution' = [j \in DOMAIN execution \ {job} |-> execution[j]]
  /\ UNCHANGED <<threw, callerVars, promise>>

(* The pool is destroyed when its callers are done with it. *)
ClosePool ==
  /\ \A c \in Callers : stage[c] \in {"done", "failed"}
  /\ Pool!Close
  /\ UNCHANGED <<execution, threw, callerVars, promise>>

Terminated ==
  /\ ~open
  /\ finished = Range(accepted)
  /\ UNCHANGED replicaPoolVars

CallerStep(c) ==
  \/ ReadThrows(c)
  \/ ReadEnd(c)
  \/ ReadBatch(c)
  \/ PostBatch(c)
  \/ PostEnd(c)
  \/ PopResult(c)
  \/ PopEnd(c)
  \/ Drained(c)

RunStep(job) == Compute(job) \/ SetPromise(job) \/ RunEnd(job)

ReplicaStep == Take \/ \E job \in DOMAIN execution : RunStep(job)

Next ==
  \/ \E c \in Callers : CallerStep(c)
  \/ ReplicaStep
  \/ ClosePool
  \/ Terminated

(* Callers and replicas are scheduled; a function that runs returns.       *)
Fairness ==
  /\ \A c \in Callers : WF_replicaPoolVars(CallerStep(c))
  /\ WF_replicaPoolVars(ReplicaStep)

Spec == Init /\ [][Next]_replicaPoolVars
FairSpec == Spec /\ Fairness

-----------------------------------------------------------------------------
(* Properties.                                                             *)

(* The output has one line per example in the order of the input, each the *)
(* result of its own example, although batches are sorted by length, run   *)
(* in parallel and finish in any order. A call that returns has written    *)
(* the whole input, and fails only by its own reader or batches; every     *)
(* promise is that of one batch, and a batch that was run has set its own, *)
(* to their results or to its exception.                                   *)
CompleteOrFailed ==
  /\ \A c \in Callers :
       /\ written[c] = [i \in DOMAIN written[c] |-> i]
       /\ stage[c] = "done" => ~torn[c] /\ Len(written[c]) = Len(lens[c])
       /\ stage[c] = "failed" => torn[c] \/ \E job \in threw : job.caller = c
  /\ \A m, n \in DOMAIN accepted :
       m # n /\ accepted[m].caller = accepted[n].caller =>
         Range(accepted[m].promises) \cap Range(accepted[n].promises) = {}
  /\ \A job \in finished : \A i \in Range(job.promises) :
       promise[job.caller][i] = IF job \in threw THEN Exception ELSE i

(* Every consume_batches ends, whatever the other callers and replicas do; *)
(* and every future that was ever handed out gets its result or its        *)
(* exception, also when its caller left with an exception before.          *)
CallersEnd ==
  /\ <>(\A c \in Callers : stage[c] \in {"done", "failed"})
  /\ <>[](\A job \in Range(accepted) : \A i \in Range(job.promises) :
             promise[job.caller][i] # Unset)
=============================================================================
