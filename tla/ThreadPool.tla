------------------------------ MODULE ThreadPool ------------------------------
(***************************************************************************)
(* src/thread_pool.cc: JobQueue, Worker and ThreadPool.                    *)
(*                                                                         *)
(* Client threads call ThreadPool::post, worker threads run Worker::run,   *)
(* one owner thread destroys the pool.  A critical section of              *)
(* JobQueue::_mutex is one action; a notification, which the code sends    *)
(* after it has unlocked the mutex, is an action of its own, and so is     *)
(* everything a thread does outside the mutex.  A thread blocked in a      *)
(* condition variable is "waiting"; a notification (or a spurious wake-up) *)
(* takes it back to the state in which it locks the mutex and evaluates    *)
(* the predicate again.                                                    *)
(***************************************************************************)
EXTENDS Integers, Sequences, Functions, FiniteSets

CONSTANTS
  Clients,   \* threads that post jobs
  Workers,   \* ThreadPool::_workers
  Jobs,      \* the jobs that may be posted: bounds the number of posts
  MaxQueue,  \* JobQueue::_maximum_size
  Spurious,  \* the threads whose condition variable may wake up spuriously
  NoJob      \* the null std::unique_ptr<Job>

ASSUME ThreadPoolAssumption ==
  /\ IsFiniteSet(Clients)
  /\ IsFiniteSet(Workers) /\ Workers # {}
  /\ MaxQueue \in Nat \ {0}
  /\ NoJob \notin Jobs
  /\ Spurious \subseteq Clients \cup Workers

VARIABLES
  queue,       \* JobQueue::_queue
  requestEnd,  \* JobQueue::_request_end
  numActive,   \* ThreadPool::_num_active_jobs
  client,      \* where each client is in ThreadPool::post
  clientJob,   \* the job a client holds in post
  worker,      \* where each worker is in Worker::run
  workerJob,   \* the job a worker holds
  owner,       \* where the owner is in ~ThreadPool
  enqueued,    \* history: the jobs put in the queue, in order
  started,     \* history: the jobs taken from the queue, in order
  finished     \* history: the jobs whose run() has returned

poolVars == <<queue, requestEnd, numActive, client, clientJob, worker,
              workerJob, owner, enqueued, started, finished>>

ClientStates == {"idle", "putting", "waiting", "notifying"}
WorkerStates == {"starting", "getting", "waiting", "notifying", "running",
                 "ran", "exiting", "exited"}
OwnerStates == {"alive", "closing", "notifying", "joining", "destroyed"}

ClientsAt(pc) == {c \in Clients : client[c] \in pc}
WorkersAt(pc) == {w \in Workers : worker[w] \in pc}

(* A job whose post has begun: it is never posted a second time. *)
Posted(j) == j \in Range(enqueued) \/ \E c \in Clients : clientJob[c] = j

Init ==
  /\ queue = <<>>
  /\ requestEnd = FALSE
  /\ numActive = 0
  /\ client = [c \in Clients |-> "idle"]
  /\ clientJob = [c \in Clients |-> NoJob]
  /\ worker = [w \in Workers |-> "starting"]
  /\ workerJob = [w \in Workers |-> NoJob]
  /\ owner = "alive"
  /\ enqueued = <<>>
  /\ started = <<>>
  /\ finished = {}

-----------------------------------------------------------------------------
(* Plausible mistakes in the definitions below; Next uses none of them.    *)

CanPutJobOneMore == Len(queue) <= MaxQueue
CanTakeJobUnlessEnd == queue # <<>> /\ ~requestEnd
NotifyOneClientLost == UNCHANGED client
NotifyAllWorkersOnlyOne ==
  \/ \E w \in WorkersAt({"waiting"}) : worker' = [worker EXCEPT ![w] = "getting"]
  \/ WorkersAt({"waiting"}) = {} /\ UNCHANGED worker

PostUncounted(c, j) ==
  /\ owner = "alive"
  /\ client[c] = "idle"
  /\ ~Posted(j)
  /\ client' = [client EXCEPT ![c] = "putting"]
  /\ clientJob' = [clientJob EXCEPT ![c] = j]
  /\ UNCHANGED <<queue, requestEnd, numActive, worker, workerJob, owner,
                 enqueued, started, finished>>

-----------------------------------------------------------------------------
(* The predicates of the two condition variables and the notifications.    *)

CanPutJob == Len(queue) < MaxQueue
CanGetJob == queue # <<>> \/ requestEnd

(* After the wait, get() returns a job whenever there is one. *)
CanTakeJob == queue # <<>>

Pushed(j) == Append(queue, j)

(* notify_one wakes one of the waiting threads, whichever, if there is one. *)
NotifyOneWorker ==
  \/ \E w \in WorkersAt({"waiting"}) : worker' = [worker EXCEPT ![w] = "getting"]
  \/ WorkersAt({"waiting"}) = {} /\ UNCHANGED worker

NotifyOneClient ==
  \/ \E c \in ClientsAt({"waiting"}) : client' = [client EXCEPT ![c] = "putting"]
  \/ ClientsAt({"waiting"}) = {} /\ UNCHANGED client

NotifyAllWorkers ==
  worker' = [w \in Workers |-> IF worker[w] = "waiting" THEN "getting" ELSE worker[w]]

-----------------------------------------------------------------------------
(* ThreadPool::post, in a client thread.                                   *)

(* The counter is incremented before the job is put in the queue.  Posting *)
(* to a pool whose destructor has begun is outside the contract of C++.    *)
Post(c, j) ==
  /\ owner = "alive"
  /\ client[c] = "idle"
  /\ ~Posted(j)
  /\ numActive' = numActive + 1
  /\ client' = [client EXCEPT ![c] = "putting"]
  /\ clientJob' = [clientJob EXCEPT ![c] = j]
  /\ UNCHANGED <<queue, requestEnd, worker, workerJob, owner, enqueued,
                 started, finished>>

PutEnqueue(c) ==
  /\ client[c] = "putting"
  /\ CanPutJob
  /\ queue' = Pushed(clientJob[c])
  /\ enqueued' = Append(enqueued, clientJob[c])
  /\ client' = [client EXCEPT ![c] = "notifying"]
  /\ clientJob' = [clientJob EXCEPT ![c] = NoJob]
  /\ UNCHANGED <<requestEnd, numActive, worker, workerJob, owner, started,
                 finished>>

PutWait(c) ==
  /\ client[c] = "putting"
  /\ ~CanPutJob
  /\ client' = [client EXCEPT ![c] = "waiting"]
  /\ UNCHANGED <<queue, requestEnd, numActive, clientJob, worker, workerJob,
                 owner, enqueued, started, finished>>

PutNotify(c) ==
  /\ client[c] = "notifying"
  /\ client' = [client EXCEPT ![c] = "idle"]
  /\ NotifyOneWorker
  /\ UNCHANGED <<queue, requestEnd, numActive, clientJob, workerJob, owner,
                 enqueued, started, finished>>

-----------------------------------------------------------------------------
(* Worker::run, in a worker thread.                                        *)

Initialize(w) ==
  /\ worker[w] = "starting"
  /\ worker' = [worker EXCEPT ![w] = "getting"]
  /\ UNCHANGED <<queue, requestEnd, numActive, client, clientJob, workerJob,
                 owner, enqueued, started, finished>>

(* before_wait, which synchronises the device stream, is called with the   *)
(* mutex held: it is part of this critical section.                        *)
GetWait(w) ==
  /\ worker[w] = "getting"
  /\ ~CanGetJob
  /\ worker' = [worker EXCEPT ![w] = "waiting"]
  /\ UNCHANGED <<queue, requestEnd, numActive, client, clientJob, workerJob,
                 owner, enqueued, started, finished>>

GetJob(w) ==
  /\ worker[w] = "getting"
  /\ CanGetJob
  /\ CanTakeJob
  /\ queue' = Tail(queue)
  /\ started' = Append(started, Head(queue))
  /\ workerJob' = [workerJob EXCEPT ![w] = Head(queue)]
  /\ worker' = [worker EXCEPT ![w] = "notifying"]
  /\ UNCHANGED <<requestEnd, numActive, client, clientJob, owner, enqueued,
                 finished>>

GetNull(w) ==
  /\ worker[w] = "getting"
  /\ CanGetJob
  /\ ~CanTakeJob
  /\ worker' = [worker EXCEPT ![w] = "exiting"]
  /\ UNCHANGED <<queue, requestEnd, numActive, client, clientJob, workerJob,
                 owner, enqueued, started, finished>>

GetNotify(w) ==
  /\ worker[w] = "notifying"
  /\ worker' = [worker EXCEPT ![w] = "running"]
  /\ NotifyOneClient
  /\ UNCHANGED <<queue, requestEnd, numActive, clientJob, workerJob, owner,
                 enqueued, started, finished>>

Run(w) ==
  /\ worker[w] = "running"
  /\ finished' = finished \cup {workerJob[w]}
  /\ worker' = [worker EXCEPT ![w] = "ran"]
  /\ UNCHANGED <<queue, requestEnd, numActive, client, clientJob, workerJob,
                 owner, enqueued, started>>

(* The job is destroyed at the end of the loop body: ~Job. *)
DestroyJob(w) ==
  /\ worker[w] = "ran"
  /\ numActive' = numActive - 1
  /\ workerJob' = [workerJob EXCEPT ![w] = NoJob]
  /\ worker' = [worker EXCEPT ![w] = "getting"]
  /\ UNCHANGED <<queue, requestEnd, client, clientJob, owner, enqueued,
                 started, finished>>

Finalize(w) ==
  /\ worker[w] = "exiting"
  /\ worker' = [worker EXCEPT ![w] = "exited"]
  /\ UNCHANGED <<queue, requestEnd, numActive, client, clientJob, workerJob,
                 owner, enqueued, started, finished>>

-----------------------------------------------------------------------------
(* ~ThreadPool, in the owner thread.                                       *)

(* No call of post is in progress when an object is destroyed. *)
Destroy ==
  /\ owner = "alive"
  /\ ClientsAt({"idle"}) = Clients
  /\ owner' = "closing"
  /\ UNCHANGED <<queue, requestEnd, numActive, client, clientJob, worker,
                 workerJob, enqueued, started, finished>>

CloseRequest ==
  /\ owner = "closing"
  /\ requestEnd' = TRUE
  /\ owner' = "notifying"
  /\ UNCHANGED <<queue, numActive, client, clientJob, worker, workerJob,
                 enqueued, started, finished>>

CloseNotify ==
  /\ owner = "notifying"
  /\ NotifyAllWorkers
  /\ owner' = "joining"
  /\ UNCHANGED <<queue, requestEnd, numActive, client, clientJob, workerJob,
                 enqueued, started, finished>>

JoinWorkers ==
  /\ owner = "joining"
  /\ \A w \in Workers : worker[w] = "exited"
  /\ owner' = "destroyed"
  /\ UNCHANGED <<queue, requestEnd, numActive, client, clientJob, worker,
                 workerJob, enqueued, started, finished>>

-----------------------------------------------------------------------------

WakeClient(c) ==
  /\ c \in Spurious
  /\ client[c] = "waiting"
  /\ client' = [client EXCEPT ![c] = "putting"]
  /\ UNCHANGED <<queue, requestEnd, numActive, clientJob, worker, workerJob,
                 owner, enqueued, started, finished>>

WakeWorker(w) ==
  /\ w \in Spurious
  /\ worker[w] = "waiting"
  /\ worker' = [worker EXCEPT ![w] = "getting"]
  /\ UNCHANGED <<queue, requestEnd, numActive, client, clientJob, workerJob,
                 owner, enqueued, started, finished>>

Terminated == owner = "destroyed" /\ UNCHANGED poolVars

PutStep(c) == PutEnqueue(c) \/ PutWait(c) \/ PutNotify(c)

WorkerStep(w) ==
  \/ Initialize(w)
  \/ GetWait(w)
  \/ GetJob(w)
  \/ GetNull(w)
  \/ GetNotify(w)
  \/ Run(w)
  \/ DestroyJob(w)
  \/ Finalize(w)

DestroyStep == CloseRequest \/ CloseNotify \/ JoinWorkers

Next ==
  \/ \E c \in Clients : \E j \in Jobs : Post(c, j)
  \/ \E c \in Clients : PutStep(c) \/ WakeClient(c)
  \/ \E w \in Workers : WorkerStep(w) \/ WakeWorker(w)
  \/ Destroy
  \/ DestroyStep
  \/ Terminated

(* The operating system runs every runnable thread and hands every free    *)
(* mutex over; jobs return.  Nobody is obliged to post or to destroy.      *)
Fairness ==
  /\ \A c \in Clients : WF_poolVars(PutStep(c))
  /\ \A w \in Workers : WF_poolVars(WorkerStep(w))
  /\ WF_poolVars(DestroyStep)

Spec == Init /\ [][Next]_poolVars

FairSpec == Spec /\ Fairness

-----------------------------------------------------------------------------
(* Properties.                                                             *)

(* The states of the threads, and who holds a job in them. *)
TypeOK ==
  /\ queue \in Seq(Jobs)
  /\ requestEnd \in BOOLEAN
  /\ numActive \in Nat
  /\ client \in [Clients -> ClientStates]
  /\ clientJob \in [Clients -> Jobs \cup {NoJob}]
  /\ worker \in [Workers -> WorkerStates]
  /\ workerJob \in [Workers -> Jobs \cup {NoJob}]
  /\ owner \in OwnerStates
  /\ enqueued \in Seq(Jobs)
  /\ started \in Seq(Jobs)
  /\ finished \in SUBSET Jobs

(* JobQueue::put: however many clients are blocked and woken, the queue    *)
(* never holds more than _maximum_size jobs.                               *)
QueueBounded == Len(queue) <= MaxQueue

(* JobQueue is first in, first out and loses nothing: what was put is what *)
(* was taken followed by what is still queued, in the order of the puts.   *)
FirstInFirstOut == enqueued = started \o queue

(* _num_active_jobs is incremented in post and decremented in ~Job: it is  *)
(* the number of jobs clients are still putting, of queued jobs and of     *)
(* jobs that workers hold, so it never goes below zero.                    *)
ActiveJobsCounted ==
  numActive = Cardinality(ClientsAt({"putting", "waiting"})) + Len(queue)
              + Cardinality(WorkersAt({"notifying", "running", "ran"}))

(* No notification of the queue is lost although it is sent outside the    *)
(* mutex: as long as a worker sleeps, every queued job has a thread that   *)
(* is about to look at the queue or to notify; as long as a client sleeps, *)
(* so has every free slot; a closed queue has no sleeping worker once      *)
(* notify_all is done.                                                     *)
NoLostWakeup ==
  /\ WorkersAt({"waiting"}) # {} =>
       /\ Len(queue) <= Cardinality(WorkersAt({"getting"}))
                        + Cardinality(ClientsAt({"notifying"}))
       /\ requestEnd => owner = "notifying"
  /\ ClientsAt({"waiting"}) # {} =>
       MaxQueue - Len(queue) <= Cardinality(ClientsAt({"putting"}))
                                + Cardinality(WorkersAt({"notifying"}))

(* ~ThreadPool drains the queue: when the workers are joined every job     *)
(* that was put has run and the counter, which is about to be destroyed,   *)
(* is not referenced by a job any more.                                    *)
DrainedWhenDestroyed ==
  owner = "destroyed" =>
    /\ queue = <<>>
    /\ finished = Range(enqueued)
    /\ \A w \in Workers : workerJob[w] = NoJob

(* Every call of post returns, also when it has to wait for a slot, and so *)
(* does ~ThreadPool, which waits for every worker.                         *)
CallsReturn ==
  /\ \A c \in Clients : client[c] # "idle" ~> client[c] = "idle"
  /\ owner = "closing" ~> owner = "destroyed"

(* The pool implements the abstract service. *)
Service == INSTANCE JobService WITH
  Servers <- Cardinality(Workers),
  Backlog <- MaxQueue,
  accepted <- enqueued,
  open <- owner = "alive"

ImplementsService == Service!Spec
=============================================================================
