-------------------------- MODULE BufferedTranslation --------------------------
(***************************************************************************)
(* src/buffered_translation_wrapper.cc: clients add requests to a buffer,  *)
(* a background thread flushes it into batches when it is full, when it    *)
(* has waited for the timeout or when the wrapper is destroyed.  The       *)
(* translator's pool of replicas is JobService; a job is the set of the    *)
(* requests of one batch.                                                  *)
(***************************************************************************)
EXTENDS Integers, Sequences, Functions, FiniteSets

CONSTANTS
  Clients,        \* threads that call translate_async
  NumRequests,    \* bound on the number of requests
  MaxBatchSize,   \* _max_batch_size
  MaxBufferSize,  \* _max_buffer_size, after the default of the constructor
  NumReplicas, MaxQueueSize  \* the translator's pool

ASSUME BufferedTranslationAssumption ==
  /\ NumRequests \in Nat
  /\ MaxBatchSize \in Nat \ {0} /\ MaxBufferSize \in Nat \ {0}
  /\ NumReplicas \in Nat \ {0} /\ MaxQueueSize \in Nat \ {0}

Requests == 1 .. NumRequests

VARIABLES
  examples,   \* _examples, by request
  promises,   \* _promises, by request
  stop,       \* _stop
  requested,  \* number of requests so far
  notifying,  \* the clients about to call _cv.notify_one
  loop,       \* where the background thread is in buffer_loop
  notified,   \* whether the background thread was notified while it waits
  stopping,   \* the local stop of buffer_loop
  toPost,     \* the examples and promises being posted: a set of pairs
  owner,      \* where the owner is in the destructor
  accepted, started, finished, open  \* the pool: jobs are sets of pairs

bufferVars == <<examples, promises, stop, requested, notifying, loop, notified,
                stopping, toPost, owner>>
poolVars == <<accepted, started, finished, open>>
wrapperVars == <<bufferVars, poolVars>>

(* A batch: each example with the promise that will receive its result. *)
Batches == SUBSET (Requests \X Requests)

Pool == INSTANCE JobService WITH
  Jobs <- Batches, Servers <- NumReplicas, Backlog <- MaxQueueSize

BufferInit ==
  /\ Pool!Init
  /\ examples = <<>>
  /\ promises = <<>>
  /\ stop = FALSE
  /\ requested = 0
  /\ notifying = {}
  /\ loop = "locking"
  /\ notified = FALSE
  /\ stopping = FALSE
  /\ toPost = {}
  /\ owner = "alive"

-----------------------------------------------------------------------------
(* Plausible mistakes in the definitions below; BufferNext uses none of    *)
(* them.                                                                   *)

FlushSizeRounded == Len(examples) - (Len(examples) % MaxBatchSize)
FlushSizeEmptied == 0
PromisesFlushedLast(n) == SubSeq(promises, Len(promises) - n + 1, Len(promises))

-----------------------------------------------------------------------------
(* translate_async, in a client thread.                                    *)

Full == Len(examples) >= MaxBufferSize

TranslateAsync(c) ==
  /\ owner = "alive"
  /\ c \notin notifying
  /\ requested < NumRequests
  /\ requested' = requested + 1
  /\ promises' = Append(promises, requested')
  /\ examples' = Append(examples, requested')
  /\ notifying' = IF Full' THEN notifying \cup {c} ELSE notifying
  /\ UNCHANGED <<stop, loop, notified, stopping, toPost, owner, poolVars>>

(* notify_one after the mutex was released: only a thread that waits hears it. *)
Notified == notified' = (notified \/ loop = "waiting")

NotifyFull(c) ==
  /\ c \in notifying
  /\ notifying' = notifying \ {c}
  /\ Notified
  /\ UNCHANGED <<examples, promises, stop, requested, loop, stopping, toPost, owner,
                 poolVars>>

-----------------------------------------------------------------------------
(* buffer_loop, in the background thread.                                  *)

WaitOver == Full \/ stop

(* The number of requests to flush: full batches only, unless stopping or  *)
(* unless there is not more than one batch.                                *)
FlushSize ==
  IF ~stop /\ Len(examples) > MaxBatchSize
    THEN Len(examples) - (Len(examples) % MaxBatchSize)
    ELSE Len(examples)

PromisesFlushed(n) == SubSeq(promises, 1, n)
PromisesKept(n) == SubSeq(promises, n + 1, Len(promises))

(* What buffer_loop does once the wait is over, with the mutex held. *)
Flush ==
  LET n == FlushSize
  IN  /\ stopping' = stop
      /\ notified' = FALSE
      /\ toPost' = {<<examples[i], PromisesFlushed(n)[i]>> : i \in 1 .. n}
      /\ examples' = SubSeq(examples, n + 1, Len(examples))
      /\ promises' = PromisesKept(n)
      /\ loop' = "posting"
      /\ UNCHANGED <<stop, requested, notifying, owner, poolVars>>

WaitBegin ==
  /\ loop = "locking"
  /\ ~WaitOver
  /\ loop' = "waiting"
  /\ UNCHANGED <<examples, promises, stop, requested, notifying, notified, stopping,
                 toPost, owner, poolVars>>

NoWait == loop = "locking" /\ WaitOver /\ Flush

(* A notification or a spurious wake-up: the predicate is evaluated again. *)
Wake == loop = "waiting" /\ WaitOver /\ Flush

WakeInVain ==
  /\ loop = "waiting"
  /\ notified
  /\ ~WaitOver
  /\ notified' = FALSE
  /\ UNCHANGED <<examples, promises, stop, requested, notifying, loop, stopping, toPost,
                 owner, poolVars>>

Timeout == loop = "waiting" /\ Flush

(* The sizes of the batches rebatch_input makes of n examples. *)
BatchSizes(n) == {IF n < MaxBatchSize THEN n ELSE MaxBatchSize}

(* post_examples: the examples are sorted by length, so that a batch may   *)
(* take any of them; post blocks while the queue of the pool is full.      *)
PostBatch ==
  /\ loop = "posting"
  /\ toPost # {}
  /\ \E batch \in SUBSET toPost :
       /\ Cardinality(batch) \in BatchSizes(Cardinality(toPost))
       /\ Pool!Accept(batch)
       /\ toPost' = toPost \ batch
  /\ UNCHANGED <<examples, promises, stop, requested, notifying, loop, notified, stopping,
                 owner>>

Posted ==
  /\ loop = "posting"
  /\ toPost = {}
  /\ loop' = IF stopping THEN "exited" ELSE "locking"
  /\ UNCHANGED <<examples, promises, stop, requested, notifying, notified, stopping,
                 toPost, owner, poolVars>>

-----------------------------------------------------------------------------
(* ~BufferedTranslationWrapper, in the owner thread, when no call of       *)
(* translate_async is in progress.                                         *)

Stop ==
  /\ owner = "alive"
  /\ notifying = {}
  /\ stop' = TRUE
  /\ owner' = "stopping"
  /\ UNCHANGED <<examples, promises, requested, notifying, loop, notified, stopping,
                 toPost, poolVars>>

NotifyStop ==
  /\ owner = "stopping"
  /\ Notified
  /\ owner' = "joining"
  /\ UNCHANGED <<examples, promises, stop, requested, notifying, loop, stopping, toPost,
                 poolVars>>

JoinLoop ==
  /\ owner = "joining"
  /\ loop = "exited"
  /\ owner' = "destroyed"
  /\ UNCHANGED <<examples, promises, stop, requested, notifying, loop, notified, stopping,
                 toPost, poolVars>>

-----------------------------------------------------------------------------
(* The replicas of the translator.                                         *)

ReplicaStep ==
  /\ Pool!Start \/ \E batch \in Range(accepted) : Pool!Finish(batch)
  /\ UNCHANGED bufferVars

BufferTerminated ==
  /\ owner = "destroyed"
  /\ finished = Range(accepted)
  /\ UNCHANGED wrapperVars

(* Wake needs a notification to happen for sure: it may happen without.    *)
LoopStep ==
  \/ WaitBegin
  \/ NoWait
  \/ notified /\ Wake
  \/ WakeInVain
  \/ PostBatch
  \/ Posted

DestructorStep == NotifyStop \/ JoinLoop

BufferNext ==
  \/ \E c \in Clients : TranslateAsync(c) \/ NotifyFull(c)
  \/ LoopStep
  \/ ~notified /\ Wake
  \/ Timeout
  \/ Stop
  \/ DestructorStep
  \/ ReplicaStep
  \/ BufferTerminated

(* Threads and replicas are scheduled; nothing is said of the clock: the   *)
(* timeout may be infinite.                                                *)
Fairness ==
  /\ \A c \in Clients : WF_wrapperVars(NotifyFull(c))
  /\ WF_wrapperVars(LoopStep)
  /\ WF_wrapperVars(DestructorStep)
  /\ WF_wrapperVars(ReplicaStep)

BufferSpec == BufferInit /\ [][BufferNext]_wrapperVars

FairBufferSpec == BufferSpec /\ Fairness

-----------------------------------------------------------------------------
(* Properties.                                                             *)

(* Every request is in exactly one place: the buffer, the flushed requests *)
(* that are being posted, or one batch of the pool, and there always with  *)
(* its own promise; the destructor returns only when all of them were      *)
(* handed to the pool.                                                     *)
RequestsAreKept ==
  LET buffered == Range(examples)
      flushed == {pair[1] : pair \in toPost}
      posted == {pair[1] : pair \in UNION Range(accepted)}
  IN  /\ \A pair \in toPost \cup UNION Range(accepted) : pair[1] = pair[2]
      /\ buffered \cup flushed \cup posted = 1 .. requested
      /\ buffered \cap flushed = {}
      /\ (buffered \cup flushed) \cap posted = {}
      /\ \A i, j \in DOMAIN accepted : i # j => accepted[i] \cap accepted[j] = {}
      /\ owner = "destroyed" => posted = 1 .. requested /\ promises = <<>>

(* A full buffer is flushed and the destructor terminates even if the      *)
(* timeout never passes; and if the timeout is finite, so that it passes,  *)
(* every request is translated, also the last ones, that do not fill a     *)
(* batch and wait for the timeout in the buffer.                           *)
RequestsAreTranslated ==
  /\ Full ~> ~Full
  /\ owner = "stopping" ~> owner = "destroyed"
  /\ WF_wrapperVars(Timeout) =>
       \A r \in Requests : requested >= r ~> \E batch \in finished : <<r, r>> \in batch
=============================================================================
