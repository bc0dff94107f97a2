---------------------------- MODULE ModelLifecycle ----------------------------
(***************************************************************************)
(* python/cpp/replica_pool.h: Python threads run batches, unload the model *)
(* and load it again, with the GIL released, on the pool of replicas of    *)
(* include/ctranslate2/replica_pool.h.  The pool is modelled by what these *)
(* calls observe of it: its queue, its counter of active jobs and the      *)
(* replica of each worker.  A call posts one batch.                        *)
(***************************************************************************)
EXTENDS Integers, Sequences, FiniteSets

CONSTANTS
  Threads,       \* the Python threads
  NumReplicas,   \* one worker of the pool for each replica
  MaxQueueSize,  \* _maximum_size of the queue of the pool
  MaxCalls,      \* bound on the number of calls
  Modes,         \* how batches are run: "sync", "async" or "forward"
  OnCpu,         \* _device == Device::CPU
  MayFail        \* whether copying a model or creating a replica may throw

Nobody == "nobody"

ASSUME ModelLifecycleAssumption ==
  /\ Nobody \notin Threads
  /\ NumReplicas \in Nat \ {0} /\ MaxQueueSize \in Nat \ {0} /\ MaxCalls \in Nat
  /\ Modes \subseteq {"sync", "async", "forward"}
  /\ OnCpu \in BOOLEAN /\ MayFail \in BOOLEAN

Replicas == 1 .. NumReplicas
Calls == 1 .. MaxCalls

VARIABLES
  loaded,    \* _model_is_loaded
  cached,    \* whether _cached_models holds models
  readers,   \* the threads that hold _mutex shared
  writer,    \* the thread that holds _mutex, or Nobody
  pc,        \* where each thread is
  call,      \* the last call of each thread: its number and its argument
  next,      \* the replica that detach_models or set_models is at
  noModel,   \* whether the local loaded_models of unload_model holds a null pointer
  alive,     \* whether the process still runs
  numCalls,  \* number of calls so far
  active,    \* _num_active_jobs
  queue,     \* the jobs in the queue of the pool
  replica,   \* whether _replica of each worker is set
  job,       \* the job of each worker, 0 for none
  worker,    \* where each worker is
  outcome,   \* what the future of each call holds
  used,      \* history: how batches were run so far
  copyFailed \* history: whether clone_models has thrown in unload_model

modelVars == <<loaded, cached, replica, next, noModel>>
lockVars == <<readers, writer, alive>>
histVars == <<used, copyFailed>>
threadVars == <<pc, call, numCalls, histVars>>
poolVars == <<active, queue, job, worker, outcome>>
vars == <<modelVars, lockVars, threadVars, poolVars>>

Goto(t, label) == pc' = [pc EXCEPT ![t] = label]

Init ==
  /\ loaded = TRUE
  /\ cached = FALSE
  /\ readers = {} /\ writer = Nobody
  /\ pc = [t \in Threads |-> "idle"]
  /\ call = [t \in Threads |-> [id |-> 0, arg |-> "none"]]
  /\ next = 1
  /\ noModel = FALSE
  /\ alive = TRUE
  /\ numCalls = 0
  /\ active = 0
  /\ queue = <<>>
  /\ replica = [r \in Replicas |-> TRUE]
  /\ job = [r \in Replicas |-> 0]
  /\ worker = [r \in Replicas |-> "idle"]
  /\ outcome = [i \in Calls |-> "pending"]
  /\ used = {}
  /\ copyFailed = FALSE

-----------------------------------------------------------------------------
(* Plausible mistakes in the definitions below; Next uses none of them.    *)

HeldAfterPostNone(t) == readers \ {t}

ShareUnchecked(t) ==
  /\ pc[t] = "sharing"
  /\ writer = Nobody
  /\ readers' = readers \cup {t} /\ Goto(t, "posting")
  /\ UNCHANGED <<modelVars, writer, alive, call, numCalls, histVars, poolVars>>

UnloadThrowsLocked(t) ==
  /\ MayFail
  /\ pc[t] = "caching"
  /\ Goto(t, "idle")
  /\ UNCHANGED <<modelVars, lockVars, call, numCalls, histVars, poolVars>>

-----------------------------------------------------------------------------
(* A thread enters a method of the wrapper. *)
Enter(t, label, arg) ==
  /\ pc[t] = "idle"
  /\ numCalls < MaxCalls
  /\ numCalls' = numCalls + 1
  /\ call' = [call EXCEPT ![t] = [id |-> numCalls + 1, arg |-> arg]]
  /\ Goto(t, label)

-----------------------------------------------------------------------------
(* Running a batch: translate_batch and the other methods that take the    *)
(* shared lock, and forward_batch, that takes none.                        *)

Run(t) ==
  /\ \E mode \in Modes :
       /\ Enter(t, IF mode = "forward" THEN "posting" ELSE "sharing", mode)
       /\ used' = used \cup {mode}
  /\ UNCHANGED <<modelVars, lockVars, copyFailed, poolVars>>

(* std::shared_lock, then assert_model_is_ready. *)
Share(t) ==
  /\ pc[t] = "sharing"
  /\ writer = Nobody
  /\ IF loaded
       THEN readers' = readers \cup {t} /\ Goto(t, "posting")
       ELSE readers' = readers /\ Goto(t, "idle")
  /\ UNCHANGED <<modelVars, writer, alive, call, numCalls, histVars, poolVars>>

(* ThreadPool::post counts the job before it waits for room in the queue. *)
PostCount(t) ==
  /\ pc[t] = "posting"
  /\ active' = active + 1
  /\ Goto(t, "putting")
  /\ UNCHANGED <<modelVars, lockVars, call, numCalls, histVars, queue, job, worker, outcome>>

(* The locks of a thread after its batch was posted. *)
HeldAfterPost(t) == IF call[t].arg = "async" THEN readers \ {t} ELSE readers

PostPut(t) ==
  /\ pc[t] = "putting"
  /\ Len(queue) < MaxQueueSize
  /\ queue' = Append(queue, call[t].id)
  /\ Goto(t, IF call[t].arg = "async" THEN "idle" ELSE "awaiting")
  /\ readers' = HeldAfterPost(t)
  /\ UNCHANGED <<modelVars, writer, alive, call, numCalls, histVars, active, job, worker, outcome>>

Await(t) ==
  /\ pc[t] = "awaiting"
  /\ outcome[call[t].id] # "pending"
  /\ readers' = readers \ {t}
  /\ Goto(t, "idle")
  /\ UNCHANGED <<modelVars, writer, alive, call, numCalls, histVars, poolVars>>

-----------------------------------------------------------------------------
(* unload_model(to_cpu).                                                   *)

ToCpu(t) == call[t].arg = "cpu"

Unload(t) ==
  /\ \E arg \in {"cpu", "drop"} :
       Enter(t, IF arg = "cpu" /\ OnCpu THEN "idle" ELSE "checking", arg)
  /\ UNCHANGED <<modelVars, lockVars, histVars, poolVars>>

UnloadCheck(t) ==
  /\ pc[t] = "checking"
  /\ Goto(t, IF active > 0 THEN "idle" ELSE "trying")
  /\ UNCHANGED <<modelVars, lockVars, call, numCalls, histVars, poolVars>>

LockFree == readers = {} /\ writer = Nobody

UnloadTryLock(t) ==
  /\ pc[t] = "trying"
  /\ IF LockFree
       THEN /\ writer' = t
            /\ next' = 1
            /\ noModel' = FALSE
            /\ Goto(t, IF loaded THEN "detaching" ELSE "caching")
       ELSE UNCHANGED <<writer, next, noModel>> /\ Goto(t, "idle")
  /\ UNCHANGED <<loaded, cached, replica, readers, alive, call, numCalls, histVars, poolVars>>

(* detach_models, one replica at a time. *)
Detach(t) ==
  /\ pc[t] = "detaching"
  /\ replica' = [replica EXCEPT ![next] = FALSE]
  /\ noModel' = (noModel \/ ~replica[next])
  /\ next' = next + 1
  /\ Goto(t, IF next = NumReplicas THEN "caching" ELSE "detaching")
  /\ UNCHANGED <<loaded, cached, lockVars, call, numCalls, histVars, poolVars>>

Unlock(t) == writer' = Nobody /\ Goto(t, "idle")

(* Whether clone_models has models to copy: loaded_models is empty when    *)
(* the model was not loaded.                                               *)
Clones(t) == ToCpu(t) /\ ~cached /\ loaded

UnloadCache(t) ==
  /\ pc[t] = "caching"
  /\ Clones(t) => ~noModel
  /\ cached' = (ToCpu(t) /\ (cached \/ loaded))
  /\ loaded' = FALSE
  /\ Unlock(t)
  /\ UNCHANGED <<replica, next, noModel, readers, alive, call, numCalls, histVars, poolVars>>

(* clone_models throws after the replicas were detached. *)
UnloadThrows(t) ==
  /\ MayFail
  /\ pc[t] = "caching"
  /\ Clones(t) /\ ~noModel
  /\ copyFailed' = TRUE
  /\ Unlock(t)
  /\ UNCHANGED <<modelVars, readers, alive, call, numCalls, used, poolVars>>

(* clone_models dereferences the null pointers that detach_models returns  *)
(* for the replicas an earlier call of unload_model already detached.      *)
UnloadCrashes(t) ==
  /\ pc[t] = "caching"
  /\ Clones(t) /\ noModel
  /\ alive' = FALSE
  /\ UNCHANGED <<modelVars, readers, writer, threadVars, poolVars>>

-----------------------------------------------------------------------------
(* load_model(keep_cache).                                                 *)

Load(t) ==
  /\ \E arg \in {"keep", "clear"} : Enter(t, "locking", arg)
  /\ UNCHANGED <<modelVars, lockVars, histVars, poolVars>>

LoadLock(t) ==
  /\ pc[t] = "locking"
  /\ LockFree
  /\ IF loaded
       THEN UNCHANGED <<writer, next>> /\ Goto(t, "idle")
       ELSE writer' = t /\ next' = 1 /\ Goto(t, "assigning")
  /\ UNCHANGED <<loaded, cached, replica, noModel, readers, alive, call, numCalls,
                 histVars, poolVars>>

(* set_models, one replica at a time. *)
Assign(t) ==
  /\ pc[t] = "assigning"
  /\ replica' = [replica EXCEPT ![next] = TRUE]
  /\ next' = next + 1
  /\ Goto(t, IF next = NumReplicas THEN "finishing" ELSE "assigning")
  /\ UNCHANGED <<loaded, cached, noModel, lockVars, call, numCalls, histVars, poolVars>>

LoadFinish(t) ==
  /\ pc[t] = "finishing"
  /\ cached' = (cached /\ call[t].arg = "keep")
  /\ loaded' = TRUE
  /\ Unlock(t)
  /\ UNCHANGED <<replica, next, noModel, readers, alive, call, numCalls, histVars, poolVars>>

(* Loading or copying a model, or creating one of the replicas, throws. *)
LoadThrows(t) ==
  /\ MayFail
  /\ pc[t] = "assigning"
  /\ Unlock(t)
  /\ UNCHANGED <<modelVars, readers, alive, call, numCalls, histVars, poolVars>>

-----------------------------------------------------------------------------
(* The workers of the pool.                                                *)

GetJob(r) ==
  /\ worker[r] = "idle"
  /\ queue # <<>>
  /\ job' = [job EXCEPT ![r] = Head(queue)]
  /\ queue' = Tail(queue)
  /\ worker' = [worker EXCEPT ![r] = "got"]
  /\ UNCHANGED <<modelVars, lockVars, threadVars, active, outcome>>

(* ReplicaWorker::replica: an exception for the future if there is none. *)
GetReplica(r) ==
  /\ worker[r] = "got"
  /\ IF replica[r]
       THEN worker' = [worker EXCEPT ![r] = "running"] /\ UNCHANGED outcome
       ELSE /\ worker' = [worker EXCEPT ![r] = "answered"]
            /\ outcome' = [outcome EXCEPT ![job[r]] = "exception"]
  /\ UNCHANGED <<modelVars, lockVars, threadVars, active, queue, job>>

Answer(r) ==
  /\ worker[r] = "running"
  /\ worker' = [worker EXCEPT ![r] = "answered"]
  /\ outcome' = [outcome EXCEPT ![job[r]] = "result"]
  /\ UNCHANGED <<modelVars, lockVars, threadVars, active, queue, job>>

(* Job::~Job. *)
DestroyJob(r) ==
  /\ worker[r] = "answered"
  /\ active' = active - 1
  /\ job' = [job EXCEPT ![r] = 0]
  /\ worker' = [worker EXCEPT ![r] = "idle"]
  /\ UNCHANGED <<modelVars, lockVars, threadVars, queue, outcome>>

-----------------------------------------------------------------------------
RunStep(t) == Share(t) \/ PostCount(t) \/ PostPut(t) \/ Await(t)

UnloadStep(t) ==
  \/ UnloadCheck(t) \/ UnloadTryLock(t) \/ Detach(t)
  \/ UnloadCache(t) \/ UnloadThrows(t) \/ UnloadCrashes(t)

LoadStep(t) == LoadLock(t) \/ Assign(t) \/ LoadFinish(t) \/ LoadThrows(t)

WorkerStep(r) == GetJob(r) \/ GetReplica(r) \/ Answer(r) \/ DestroyJob(r)

(* Every call was made and has returned, and the pool is idle. *)
Terminated ==
  /\ numCalls = MaxCalls
  /\ \A t \in Threads : pc[t] = "idle"
  /\ active = 0
  /\ UNCHANGED vars

Next ==
  \/ /\ alive
     /\ \/ \E t \in Threads :
             \/ Run(t) \/ Unload(t) \/ Load(t)
             \/ RunStep(t) \/ UnloadStep(t) \/ LoadStep(t)
        \/ \E r \in Replicas : WorkerStep(r)
  \/ Terminated
  \/ ~alive /\ UNCHANGED vars

Spec == Init /\ [][Next]_vars

(* Threads and workers are scheduled; a new call need not be made. *)
FairSpec ==
  /\ Spec
  /\ \A t \in Threads :
       WF_vars(alive /\ (RunStep(t) \/ UnloadStep(t) \/ LoadStep(t)))
  /\ \A r \in Replicas : WF_vars(alive /\ WorkerStep(r))

-----------------------------------------------------------------------------
(* Properties.                                                             *)

(* A batch is in the hands of the pool, or of a thread blocked in post, and *)
(* its future has no result yet.                                            *)
BatchesInProcess ==
  \/ \E t \in Threads : pc[t] = "putting"
  \/ queue # <<>>
  \/ \E r \in Replicas : worker[r] \in {"got", "running"}

(* As long as every batch was run synchronously, under the shared lock,    *)
(* unload_model never takes the replicas away while one is processed,      *)
(* although it reads the counter of active batches before it locks.        *)
SynchronousBatchesKeepReplicas ==
  [][(\E t \in Threads : Detach(t)) /\ used \subseteq {"sync"} => ~BatchesInProcess]_vars

(* Between calls a model that is said to be loaded has all its replicas,   *)
(* unless its copy to the CPU has failed before; loading that fails half   *)
(* way does not count; and as long as all batches are synchronous, one     *)
(* that passed assert_model_is_ready finds a replica in whatever worker    *)
(* runs it.                                                                *)
ReadyUntilCopyFails ==
  ~copyFailed =>
    /\ writer = Nobody /\ loaded => \A r \in Replicas : replica[r]
    /\ used \subseteq {"sync"} => \A i \in Calls : outcome[i] # "exception"

(* The lock is released on every path out of unload_model and load_model,  *)
(* exceptions included: every call returns, unless the process ended.      *)
CallsReturn == \A t \in Threads : pc[t] # "idle" ~> pc[t] = "idle" \/ ~alive
=============================================================================
