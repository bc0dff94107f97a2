---------------------------- MODULE Models_proofs ----------------------------
(***************************************************************************)
(* Proofs about models: for any number of threads, replicas and calls what *)
(* a thread may rely on once it holds _mutex shared (ModelLifecycle), for  *)
(* any device and file the compute type that a model gets and the          *)
(* variables that its layers find (ModelLoading),                          *)
(* and for any transcription the rules of its timestamps, the steps of its *)
(* search and its probabilities of silence (WhisperDecoding).              *)
(***************************************************************************)
EXTENDS ModelLifecycle, ModelLoading, WhisperDecoding, Decoding_proofs, FiniteSetTheorems,
        NaturalsInduction, SequenceTheorems, WellFoundedInduction, TLAPS

Running == {"sharing", "posting", "putting", "awaiting"}
Locked == {"detaching", "caching", "assigning", "finishing"}
PCs == {"idle", "checking", "trying", "locking"} \cup Running \cup Locked
Args == {"none", "sync", "async", "forward", "cpu", "drop", "keep", "clear"}

TypeOK ==
  /\ loaded \in BOOLEAN /\ cached \in BOOLEAN /\ noModel \in BOOLEAN
  /\ readers \in SUBSET Threads
  /\ writer \in Threads \cup {Nobody}
  /\ pc \in [Threads -> PCs]
  /\ call \in [Threads -> [id : Nat, arg : Args]]
  /\ next \in Nat
  /\ alive \in BOOLEAN /\ copyFailed \in BOOLEAN
  /\ numCalls \in 0 .. MaxCalls
  /\ active \in Int
  /\ queue \in Seq(Nat)
  /\ replica \in [Replicas -> BOOLEAN]
  /\ job \in [Replicas -> Nat]
  /\ worker \in [Replicas -> {"idle", "got", "running", "answered"}]
  /\ outcome \in [Calls -> {"pending", "result", "exception"}]
  /\ used \in SUBSET Modes

(* The lock: unload_model and load_model hold it from one end of their     *)
(* critical section to the other, and nobody holds it shared meanwhile; a  *)
(* thread that runs a batch synchronously holds it shared.                 *)
LockHeld ==
  /\ \A t \in Threads : pc[t] \in Locked <=> writer = t
  /\ writer # Nobody => readers = {}
  /\ readers # {} => loaded
  /\ \A t \in Threads :
       /\ pc[t] \in Running => call[t].arg \in used
       /\ pc[t] \in Running \ {"sharing"} /\ call[t].arg = "sync" => t \in readers

(* The replicas, next to the flag, at each point of the two critical       *)
(* sections.                                                               *)
ReplicasFollow ==
  /\ \A t \in Threads :
       /\ pc[t] \in {"detaching", "assigning"} => next \in Replicas
       /\ pc[t] = "assigning" => ~loaded /\ \A r \in 1 .. next - 1 : replica[r]
       /\ pc[t] = "finishing" => ~loaded /\ \A r \in Replicas : replica[r]
  /\ ~copyFailed /\ writer = Nobody /\ loaded => \A r \in Replicas : replica[r]

(* A batch that was taken and has no answer. *)
Busy(r) == worker[r] \in {"got", "running"}

(* Calls have numbers of their own, and the pool holds each batch once.    *)
CallsNumbered ==
  /\ \A t \in Threads :
       /\ call[t].id <= numCalls
       /\ pc[t] # "idle" => call[t].id > 0
       /\ \A u \in Threads : t # u => call[t].id # call[u].id \/ call[t].id = 0
       /\ pc[t] \in Running \ {"awaiting"} =>
            /\ outcome[call[t].id] = "pending"
            /\ \A k \in DOMAIN queue : queue[k] # call[t].id
            /\ \A r \in Replicas : Busy(r) => job[r] # call[t].id
  /\ \A i \in Calls : i > numCalls => outcome[i] = "pending"
  /\ \A k \in DOMAIN queue :
       /\ queue[k] \in 1 .. numCalls /\ outcome[queue[k]] = "pending"
       /\ \A l \in DOMAIN queue : k # l => queue[k] # queue[l]
       /\ \A r \in Replicas : Busy(r) => job[r] # queue[k]
  /\ \A r \in Replicas : Busy(r) =>
       /\ job[r] \in 1 .. numCalls /\ outcome[job[r]] = "pending"
       /\ \A s \in Replicas : r # s /\ Busy(s) => job[r] # job[s]

(* As long as all batches are synchronous, a thread waits for each.        *)
SomebodyAwaits(i) == \E t \in Threads : pc[t] = "awaiting" /\ call[t].id = i

BatchesAwaited ==
  used \subseteq {"sync"} =>
    /\ \A k \in DOMAIN queue : SomebodyAwaits(queue[k])
    /\ \A r \in Replicas : Busy(r) => SomebodyAwaits(job[r])

NoException == ~copyFailed /\ used \subseteq {"sync"} => \A i \in Calls : outcome[i] # "exception"

IInv ==
  TypeOK /\ LockHeld /\ ReplicasFollow /\ CallsNumbered /\ BatchesAwaited /\ NoException

-----------------------------------------------------------------------------
LEMMA NextTypeOK == TypeOK /\ [Next]_vars => TypeOK'
<1> SUFFICES ASSUME TypeOK, [Next]_vars PROVE TypeOK'
  OBVIOUS
<1> USE ModelLifecycleAssumption DEF TypeOK, PCs, Running, Locked, Args, modelVars, lockVars,
      histVars, threadVars, poolVars, Replicas, Calls
<1>1. ASSUME NEW t \in Threads, Run(t) PROVE TypeOK'
  BY <1>1 DEF Run, Enter, Goto
<1>2. ASSUME NEW t \in Threads, Share(t) PROVE TypeOK'
  BY <1>2 DEF Share, Goto
<1>3. ASSUME NEW t \in Threads, PostCount(t) PROVE TypeOK'
  BY <1>3 DEF PostCount, Goto
<1>4. ASSUME NEW t \in Threads, PostPut(t) PROVE TypeOK'
  BY <1>4 DEF PostPut, Goto, HeldAfterPost
<1>5. ASSUME NEW t \in Threads, Await(t) PROVE TypeOK'
  BY <1>5 DEF Await, Goto
<1>6. ASSUME NEW t \in Threads, Unload(t) PROVE TypeOK'
  BY <1>6 DEF Unload, Enter, Goto
<1>7. ASSUME NEW t \in Threads, UnloadCheck(t) PROVE TypeOK'
  BY <1>7 DEF UnloadCheck, Goto
<1>8. ASSUME NEW t \in Threads, UnloadTryLock(t) PROVE TypeOK'
  <2>1. pc' \in [Threads -> PCs]
    BY <1>8 DEF UnloadTryLock, Goto
  <2>2. UNCHANGED <<loaded, cached, replica, readers, alive, call, numCalls, histVars, poolVars>>
    BY <1>8 DEF UnloadTryLock
  <2>3. writer' \in Threads \cup {Nobody} /\ next' \in Nat
    BY <1>8 DEF UnloadTryLock
  <2>4. noModel' \in BOOLEAN
    BY <1>8, Zenon DEF UnloadTryLock
  <2> HIDE DEF Replicas, Calls, PCs, Running, Locked, Args
  <2> QED
    BY <2>1, <2>2, <2>3, <2>4
<1>9. ASSUME NEW t \in Threads, Detach(t) PROVE TypeOK'
  <2>1. pc' \in [Threads -> PCs]
    BY <1>9 DEF Detach, Goto
  <2>2. noModel' \in BOOLEAN
    BY <1>9, Zenon DEF Detach
  <2>3. next' \in Nat
    BY <1>9 DEF Detach
  <2>4. replica' \in [Replicas -> BOOLEAN]
    BY <1>9 DEF Detach
  <2>5. UNCHANGED <<loaded, cached, lockVars, call, numCalls, histVars, poolVars>>
    BY <1>9 DEF Detach
  <2>6. loaded' \in BOOLEAN /\ cached' \in BOOLEAN /\ alive' \in BOOLEAN /\ copyFailed' \in BOOLEAN
    BY <2>5
  <2> QED
    BY <2>1, <2>2, <2>3, <2>4, <2>5, <2>6
<1>10. ASSUME NEW t \in Threads, UnloadCache(t) PROVE TypeOK'
  BY <1>10 DEF UnloadCache, Goto, Unlock, Clones
<1>11. ASSUME NEW t \in Threads, UnloadThrows(t) PROVE TypeOK'
  BY <1>11 DEF UnloadThrows, Goto, Unlock
<1>12. ASSUME NEW t \in Threads, UnloadCrashes(t) PROVE TypeOK'
  BY <1>12 DEF UnloadCrashes, Goto
<1>13. ASSUME NEW t \in Threads, Load(t) PROVE TypeOK'
  BY <1>13 DEF Load, Enter, Goto
<1>14. ASSUME NEW t \in Threads, LoadLock(t) PROVE TypeOK'
  <2>1. pc' \in [Threads -> PCs]
    BY <1>14 DEF LoadLock, Goto
  <2>2. writer' \in Threads \cup {Nobody} /\ next' \in Nat
    BY <1>14 DEF LoadLock
  <2> QED
    BY <1>14, <2>1, <2>2 DEF LoadLock
<1>15. ASSUME NEW t \in Threads, Assign(t) PROVE TypeOK'
  <2>1. pc' \in [Threads -> PCs]
    BY <1>15 DEF Assign, Goto
  <2>2. next' \in Nat
    BY <1>15 DEF Assign
  <2>3. replica' \in [Replicas -> BOOLEAN]
    BY <1>15 DEF Assign
  <2>4. UNCHANGED <<loaded, cached, noModel, lockVars, call, numCalls, histVars, poolVars>>
    BY <1>15 DEF Assign
  <2>5. /\ loaded' \in BOOLEAN /\ cached' \in BOOLEAN /\ noModel' \in BOOLEAN
        /\ alive' \in BOOLEAN /\ copyFailed' \in BOOLEAN
    BY <2>4
  <2> QED
    BY <2>1, <2>2, <2>3, <2>4, <2>5
<1>16. ASSUME NEW t \in Threads, LoadFinish(t) PROVE TypeOK'
  BY <1>16 DEF LoadFinish, Goto, Unlock
<1>17. ASSUME NEW t \in Threads, LoadThrows(t) PROVE TypeOK'
  BY <1>17 DEF LoadThrows, Goto, Unlock
<1>18. ASSUME NEW r \in Replicas, GetJob(r) PROVE TypeOK'
  <2>1. Head(queue) \in Nat /\ Tail(queue) \in Seq(Nat)
    BY <1>18 DEF GetJob
  <2>2. job' \in [Replicas -> Nat] /\ queue' \in Seq(Nat)
    BY <1>18, <2>1 DEF GetJob
  <2> QED
    BY <1>18, <2>2 DEF GetJob
<1>19. ASSUME NEW r \in Replicas, GetReplica(r) PROVE TypeOK'
  BY <1>19 DEF GetReplica
<1>20. ASSUME NEW r \in Replicas, Answer(r) PROVE TypeOK'
  BY <1>20 DEF Answer
<1>21. ASSUME NEW r \in Replicas, DestroyJob(r) PROVE TypeOK'
  BY <1>21 DEF DestroyJob
<1>22. CASE UNCHANGED vars
  BY <1>22 DEF vars
<1> QED
  BY <1>1, <1>2, <1>3, <1>4, <1>5, <1>6, <1>7, <1>8, <1>9, <1>10, <1>11, <1>12,
     <1>13, <1>14, <1>15, <1>16, <1>17, <1>18, <1>19, <1>20, <1>21, <1>22
     DEF Next, RunStep, UnloadStep, LoadStep, WorkerStep, Terminated

LEMMA NextLockHeld == TypeOK /\ LockHeld /\ [Next]_vars => LockHeld'
<1> SUFFICES ASSUME TypeOK, LockHeld, [Next]_vars PROVE LockHeld'
  OBVIOUS
<1> USE ModelLifecycleAssumption DEF TypeOK, PCs, Running, Locked, Args, modelVars, lockVars,
      histVars, threadVars, poolVars, Replicas, Calls, LockHeld
<1>1. ASSUME NEW t \in Threads, Run(t) PROVE LockHeld'
  BY <1>1 DEF Run, Enter, Goto
<1>2. ASSUME NEW t \in Threads, Share(t) PROVE LockHeld'
  BY <1>2 DEF Share, Goto
<1>3. ASSUME NEW t \in Threads, PostCount(t) PROVE LockHeld'
  BY <1>3 DEF PostCount, Goto
<1>4. ASSUME NEW t \in Threads, PostPut(t) PROVE LockHeld'
  BY <1>4 DEF PostPut, Goto, HeldAfterPost
<1>5. ASSUME NEW t \in Threads, Await(t) PROVE LockHeld'
  BY <1>5 DEF Await, Goto
<1>6. ASSUME NEW t \in Threads, Unload(t) PROVE LockHeld'
  BY <1>6 DEF Unload, Enter, Goto
<1>7. ASSUME NEW t \in Threads, UnloadCheck(t) PROVE LockHeld'
  BY <1>7 DEF UnloadCheck, Goto
<1>8. ASSUME NEW t \in Threads, UnloadTryLock(t) PROVE LockHeld'
  BY <1>8 DEF UnloadTryLock, Goto, LockFree
<1>9. ASSUME NEW t \in Threads, Detach(t) PROVE LockHeld'
  BY <1>9 DEF Detach, Goto
<1>10. ASSUME NEW t \in Threads, UnloadCache(t) PROVE LockHeld'
  BY <1>10 DEF UnloadCache, Goto, Unlock, Clones
<1>11. ASSUME NEW t \in Threads, UnloadThrows(t) PROVE LockHeld'
  BY <1>11 DEF UnloadThrows, Goto, Unlock
<1>12. ASSUME NEW t \in Threads, UnloadCrashes(t) PROVE LockHeld'
  BY <1>12 DEF UnloadCrashes, Goto
<1>13. ASSUME NEW t \in Threads, Load(t) PROVE LockHeld'
  BY <1>13 DEF Load, Enter, Goto
<1>14. ASSUME NEW t \in Threads, LoadLock(t) PROVE LockHeld'
  BY <1>14 DEF LoadLock, Goto, LockFree
<1>15. ASSUME NEW t \in Threads, Assign(t) PROVE LockHeld'
  BY <1>15 DEF Assign, Goto
<1>16. ASSUME NEW t \in Threads, LoadFinish(t) PROVE LockHeld'
  BY <1>16 DEF LoadFinish, Goto, Unlock
<1>17. ASSUME NEW t \in Threads, LoadThrows(t) PROVE LockHeld'
  BY <1>17 DEF LoadThrows, Goto, Unlock
<1>18. ASSUME NEW r \in Replicas, GetJob(r) PROVE LockHeld'
  BY <1>18 DEF GetJob
<1>19. ASSUME NEW r \in Replicas, GetReplica(r) PROVE LockHeld'
  BY <1>19 DEF GetReplica
<1>20. ASSUME NEW r \in Replicas, Answer(r) PROVE LockHeld'
  BY <1>20 DEF Answer
<1>21. ASSUME NEW r \in Replicas, DestroyJob(r) PROVE LockHeld'
  BY <1>21 DEF DestroyJob
<1>22. CASE UNCHANGED vars
  BY <1>22 DEF vars
<1> QED
  BY <1>1, <1>2, <1>3, <1>4, <1>5, <1>6, <1>7, <1>8, <1>9, <1>10, <1>11, <1>12,
     <1>13, <1>14, <1>15, <1>16, <1>17, <1>18, <1>19, <1>20, <1>21, <1>22
     DEF Next, RunStep, UnloadStep, LoadStep, WorkerStep, Terminated

LEMMA NextReplicasFollow == TypeOK /\ LockHeld /\ ReplicasFollow /\ [Next]_vars => ReplicasFollow'
<1> SUFFICES ASSUME TypeOK, LockHeld, ReplicasFollow, [Next]_vars PROVE ReplicasFollow'
  OBVIOUS
<1> USE ModelLifecycleAssumption DEF TypeOK, PCs, Running, Locked, Args, modelVars, lockVars,
      histVars, threadVars, poolVars, Replicas, Calls, LockHeld, ReplicasFollow
<1>1. ASSUME NEW t \in Threads, Run(t) PROVE ReplicasFollow'
  BY <1>1 DEF Run, Enter, Goto
<1>2. ASSUME NEW t \in Threads, Share(t) PROVE ReplicasFollow'
  BY <1>2 DEF Share, Goto
<1>3. ASSUME NEW t \in Threads, PostCount(t) PROVE ReplicasFollow'
  BY <1>3 DEF PostCount, Goto
<1>4. ASSUME NEW t \in Threads, PostPut(t) PROVE ReplicasFollow'
  BY <1>4 DEF PostPut, Goto, HeldAfterPost
<1>5. ASSUME NEW t \in Threads, Await(t) PROVE ReplicasFollow'
  BY <1>5 DEF Await, Goto
<1>6. ASSUME NEW t \in Threads, Unload(t) PROVE ReplicasFollow'
  BY <1>6 DEF Unload, Enter, Goto
<1>7. ASSUME NEW t \in Threads, UnloadCheck(t) PROVE ReplicasFollow'
  BY <1>7 DEF UnloadCheck, Goto
<1>8. ASSUME NEW t \in Threads, UnloadTryLock(t) PROVE ReplicasFollow'
  BY <1>8 DEF UnloadTryLock, Goto, LockFree
<1>9. ASSUME NEW t \in Threads, Detach(t) PROVE ReplicasFollow'
  BY <1>9 DEF Detach, Goto
<1>10. ASSUME NEW t \in Threads, UnloadCache(t) PROVE ReplicasFollow'
  BY <1>10 DEF UnloadCache, Goto, Unlock, Clones
<1>11. ASSUME NEW t \in Threads, UnloadThrows(t) PROVE ReplicasFollow'
  BY <1>11 DEF UnloadThrows, Goto, Unlock
<1>12. ASSUME NEW t \in Threads, UnloadCrashes(t) PROVE ReplicasFollow'
  BY <1>12 DEF UnloadCrashes, Goto
<1>13. ASSUME NEW t \in Threads, Load(t) PROVE ReplicasFollow'
  BY <1>13 DEF Load, Enter, Goto
<1>14. ASSUME NEW t \in Threads, LoadLock(t) PROVE ReplicasFollow'
  BY <1>14 DEF LoadLock, Goto, LockFree
<1>15. ASSUME NEW t \in Threads, Assign(t) PROVE ReplicasFollow'
  BY <1>15 DEF Assign, Goto
<1>16. ASSUME NEW t \in Threads, LoadFinish(t) PROVE ReplicasFollow'
  BY <1>16 DEF LoadFinish, Goto, Unlock
<1>17. ASSUME NEW t \in Threads, LoadThrows(t) PROVE ReplicasFollow'
  BY <1>17 DEF LoadThrows, Goto, Unlock
<1>18. ASSUME NEW r \in Replicas, GetJob(r) PROVE ReplicasFollow'
  BY <1>18 DEF GetJob
<1>19. ASSUME NEW r \in Replicas, GetReplica(r) PROVE ReplicasFollow'
  BY <1>19 DEF GetReplica
<1>20. ASSUME NEW r \in Replicas, Answer(r) PROVE ReplicasFollow'
  BY <1>20 DEF Answer
<1>21. ASSUME NEW r \in Replicas, DestroyJob(r) PROVE ReplicasFollow'
  BY <1>21 DEF DestroyJob
<1>22. CASE UNCHANGED vars
  BY <1>22 DEF vars
<1> QED
  BY <1>1, <1>2, <1>3, <1>4, <1>5, <1>6, <1>7, <1>8, <1>9, <1>10, <1>11, <1>12,
     <1>13, <1>14, <1>15, <1>16, <1>17, <1>18, <1>19, <1>20, <1>21, <1>22
     DEF Next, RunStep, UnloadStep, LoadStep, WorkerStep, Terminated

LEMMA NextCallsNumbered == TypeOK /\ CallsNumbered /\ [Next]_vars => CallsNumbered'
<1> SUFFICES ASSUME TypeOK, CallsNumbered, [Next]_vars PROVE CallsNumbered'
  OBVIOUS
<1> USE ModelLifecycleAssumption DEF TypeOK, PCs, Running, Locked, Args, modelVars, lockVars,
      histVars, threadVars, poolVars, Replicas, Calls, Busy, CallsNumbered
<1>1. ASSUME NEW t \in Threads, Run(t) PROVE CallsNumbered'
  BY <1>1 DEF Run, Enter, Goto
<1>2. ASSUME NEW t \in Threads, Share(t) PROVE CallsNumbered'
  BY <1>2 DEF Share, Goto
<1>3. ASSUME NEW t \in Threads, PostCount(t) PROVE CallsNumbered'
  BY <1>3 DEF PostCount, Goto
<1>4. ASSUME NEW t \in Threads, PostPut(t) PROVE CallsNumbered'
  <2>1. /\ DOMAIN queue = 1 .. Len(queue) /\ DOMAIN queue' = 1 .. Len(queue) + 1
        /\ \A k \in 1 .. Len(queue) : queue'[k] = queue[k]
        /\ queue'[Len(queue) + 1] = call[t].id
        /\ Len(queue) \in Nat
    BY <1>4 DEF PostPut
  <2>2. \A k \in DOMAIN queue' :
          (k \in DOMAIN queue /\ queue'[k] = queue[k]) \/
          (k = Len(queue) + 1 /\ queue'[k] = call[t].id)
    BY <2>1
  <2>3. /\ pc' = [pc EXCEPT ![t] = IF call[t].arg = "async" THEN "idle" ELSE "awaiting"]
        /\ UNCHANGED <<call, numCalls, outcome, job, worker>>
    BY <1>4 DEF PostPut, Goto
  <2>4. /\ call[t].id \in 1 .. numCalls /\ outcome[call[t].id] = "pending"
        /\ \A k \in DOMAIN queue : queue[k] # call[t].id
        /\ \A r \in Replicas : Busy(r) => job[r] # call[t].id
    BY <1>4 DEF PostPut
  <2>5. \A u \in Threads : pc'[u] \in Running \ {"awaiting"} => u # t /\ pc'[u] = pc[u]
    BY <2>3
  <2> HIDE DEF Replicas, Calls, TypeOK
  <2>6. \A k \in DOMAIN queue' :
          /\ queue'[k] \in 1 .. numCalls /\ outcome[queue'[k]] = "pending"
          /\ \A l \in DOMAIN queue' : k # l => queue'[k] # queue'[l]
          /\ \A r \in Replicas : Busy(r) => job[r] # queue'[k]
    BY <2>1, <2>2, <2>4
  <2>7. \A u \in Threads : pc'[u] \in Running \ {"awaiting"} =>
          \A k \in DOMAIN queue' : queue'[k] # call[u].id
    BY <2>2, <2>4, <2>5, <1>4 DEF PostPut
  <2>8. \A u \in Threads : pc'[u] # "idle" => call[u].id > 0
    BY <2>3, <1>4 DEF PostPut
  <2>9. \A u \in Threads : pc'[u] \in Running \ {"awaiting"} =>
          /\ outcome[call[u].id] = "pending"
          /\ \A r \in Replicas : Busy(r) => job[r] # call[u].id
    BY <2>5
  <2> HIDE DEF Running
  <2> QED
    BY <2>3, <2>6, <2>7, <2>8, <2>9
<1>5. ASSUME NEW t \in Threads, Await(t) PROVE CallsNumbered'
  BY <1>5 DEF Await, Goto
<1>6. ASSUME NEW t \in Threads, Unload(t) PROVE CallsNumbered'
  BY <1>6 DEF Unload, Enter, Goto
<1>7. ASSUME NEW t \in Threads, UnloadCheck(t) PROVE CallsNumbered'
  BY <1>7 DEF UnloadCheck, Goto
<1>8. ASSUME NEW t \in Threads, UnloadTryLock(t) PROVE CallsNumbered'
  BY <1>8 DEF UnloadTryLock, Goto, LockFree
<1>9. ASSUME NEW t \in Threads, Detach(t) PROVE CallsNumbered'
  BY <1>9 DEF Detach, Goto
<1>10. ASSUME NEW t \in Threads, UnloadCache(t) PROVE CallsNumbered'
  BY <1>10 DEF UnloadCache, Goto, Unlock, Clones
<1>11. ASSUME NEW t \in Threads, UnloadThrows(t) PROVE CallsNumbered'
  BY <1>11 DEF UnloadThrows, Goto, Unlock
<1>12. ASSUME NEW t \in Threads, UnloadCrashes(t) PROVE CallsNumbered'
  BY <1>12 DEF UnloadCrashes, Goto
<1>13. ASSUME NEW t \in Threads, Load(t) PROVE CallsNumbered'
  BY <1>13 DEF Load, Enter, Goto
<1>14. ASSUME NEW t \in Threads, LoadLock(t) PROVE CallsNumbered'
  BY <1>14 DEF LoadLock, Goto, LockFree
<1>15. ASSUME NEW t \in Threads, Assign(t) PROVE CallsNumbered'
  BY <1>15 DEF Assign, Goto
<1>16. ASSUME NEW t \in Threads, LoadFinish(t) PROVE CallsNumbered'
  BY <1>16 DEF LoadFinish, Goto, Unlock
<1>17. ASSUME NEW t \in Threads, LoadThrows(t) PROVE CallsNumbered'
  BY <1>17 DEF LoadThrows, Goto, Unlock
<1>18. ASSUME NEW r \in Replicas, GetJob(r) PROVE CallsNumbered'
  <2>1. /\ DOMAIN queue = 1 .. Len(queue) /\ DOMAIN queue' = 1 .. Len(queue) - 1
        /\ \A k \in 1 .. Len(queue) - 1 : queue'[k] = queue[k + 1]
        /\ Len(queue) \in Nat /\ Len(queue) > 0 /\ Head(queue) = queue[1]
    BY <1>18, HeadTailProperties DEF GetJob
  <2>2. \A k \in DOMAIN queue' : k + 1 \in DOMAIN queue /\ k + 1 # 1 /\ queue'[k] = queue[k + 1]
    BY <2>1
  <2>3. /\ job' = [job EXCEPT ![r] = queue[1]] /\ worker' = [worker EXCEPT ![r] = "got"]
        /\ UNCHANGED <<pc, call, numCalls, outcome, used>>
    BY <1>18, <2>1 DEF GetJob
  <2>4. ~Busy(r) /\ \A s \in Replicas : Busy(s)'
        => (s = r /\ job'[s] = queue[1]) \/ (s # r /\ Busy(s) /\ job'[s] = job[s])
    BY <1>18, <2>3 DEF GetJob
  <2> HIDE DEF Replicas, Calls, TypeOK, Busy
  <2>5. 1 \in DOMAIN queue
    BY <2>1
  <2>6. \A k \in DOMAIN queue' :
          /\ queue'[k] \in 1 .. numCalls /\ outcome[queue'[k]] = "pending"
          /\ \A l \in DOMAIN queue' : k # l => queue'[k] # queue'[l]
          /\ \A s \in Replicas : Busy(s)' => job'[s] # queue'[k]
    BY <2>1, <2>2, <2>4, <2>5, SMTT(30)
  <2>7. \A s \in Replicas : Busy(s)' =>
          /\ job'[s] \in 1 .. numCalls /\ outcome[job'[s]] = "pending"
          /\ \A u \in Replicas : s # u /\ Busy(u)' => job'[s] # job'[u]
    BY <2>4, <2>5
  <2>8. \A t \in Threads : pc[t] \in Running \ {"awaiting"} =>
          /\ \A k \in DOMAIN queue' : queue'[k] # call[t].id
          /\ \A s \in Replicas : Busy(s)' => job'[s] # call[t].id
    BY <2>2, <2>4, <2>5
  <2> QED
    BY <2>3, <2>6, <2>7, <2>8
<1>19. ASSUME NEW r \in Replicas, GetReplica(r) PROVE CallsNumbered'
  <2>1. \A s \in Replicas : Busy(s)' => Busy(s)
    BY <1>19 DEF GetReplica
  <2>2. /\ UNCHANGED <<pc, call, numCalls, queue, job>> /\ Busy(r)
        /\ outcome' = outcome \/ (outcome' = [outcome EXCEPT ![job[r]] = "exception"] /\ ~Busy(r)')
    BY <1>19 DEF GetReplica
  <2>3. \A i \in Calls : i # job[r] => outcome'[i] = outcome[i]
    BY <2>2
  <2>4. CASE outcome' = outcome
    <3> HIDE DEF Busy
    <3> QED
      BY <2>1, <2>2, <2>4
  <2>5. CASE ~Busy(r)'
    <3> HIDE DEF Busy, Replicas
    <3>1. \A s \in Replicas : Busy(s)' => s # r /\ job[s] # job[r]
      BY <2>1, <2>2, <2>5
    <3>2. \A i \in 1 .. numCalls : i \in Calls
      OBVIOUS
    <3> QED
      BY <2>1, <2>2, <2>3, <2>5, <3>1, <3>2
  <2> QED
    BY <2>2, <2>4, <2>5
<1>20. ASSUME NEW r \in Replicas, Answer(r) PROVE CallsNumbered'
  BY <1>20 DEF Answer
<1>21. ASSUME NEW r \in Replicas, DestroyJob(r) PROVE CallsNumbered'
  <2>1. \A s \in Replicas : Busy(s)' => Busy(s) /\ job'[s] = job[s]
    BY <1>21 DEF DestroyJob
  <2>2. UNCHANGED <<pc, call, numCalls, queue, outcome>>
    BY <1>21 DEF DestroyJob
  <2> HIDE DEF Busy, TypeOK, Replicas, Calls
  <2> QED
    BY <2>1, <2>2
<1>22. CASE UNCHANGED vars
  BY <1>22 DEF vars
<1> QED
  BY <1>1, <1>2, <1>3, <1>4, <1>5, <1>6, <1>7, <1>8, <1>9, <1>10, <1>11, <1>12,
     <1>13, <1>14, <1>15, <1>16, <1>17, <1>18, <1>19, <1>20, <1>21, <1>22
     DEF Next, RunStep, UnloadStep, LoadStep, WorkerStep, Terminated

LEMMA NextBatchesAwaited ==
  TypeOK /\ LockHeld /\ CallsNumbered /\ BatchesAwaited /\ [Next]_vars => BatchesAwaited'
<1> SUFFICES ASSUME TypeOK, LockHeld, CallsNumbered, BatchesAwaited, [Next]_vars
      PROVE BatchesAwaited'
  OBVIOUS
<1> USE ModelLifecycleAssumption DEF TypeOK, PCs, Running, Locked, Args, modelVars, lockVars,
      histVars, threadVars, poolVars, Replicas, Calls, Busy, LockHeld, CallsNumbered,
      BatchesAwaited, SomebodyAwaits
<1>1. ASSUME NEW t \in Threads, Run(t) PROVE BatchesAwaited'
  BY <1>1 DEF Run, Enter, Goto
<1>2. ASSUME NEW t \in Threads, Share(t) PROVE BatchesAwaited'
  BY <1>2 DEF Share, Goto
<1>3. ASSUME NEW t \in Threads, PostCount(t) PROVE BatchesAwaited'
  BY <1>3 DEF PostCount, Goto
<1>4. ASSUME NEW t \in Threads, PostPut(t) PROVE BatchesAwaited'
  <2>1. /\ DOMAIN queue = 1 .. Len(queue) /\ DOMAIN queue' = 1 .. Len(queue) + 1
        /\ \A k \in 1 .. Len(queue) : queue'[k] = queue[k]
        /\ queue'[Len(queue) + 1] = call[t].id
        /\ Len(queue) \in Nat
    BY <1>4 DEF PostPut
  <2>2. \A k \in DOMAIN queue' :
          (k \in DOMAIN queue /\ queue'[k] = queue[k]) \/
          (k = Len(queue) + 1 /\ queue'[k] = call[t].id)
    BY <2>1
  <2>3. ASSUME used' \subseteq {"sync"}
        PROVE  /\ pc' = [pc EXCEPT ![t] = "awaiting"] /\ UNCHANGED <<call, job, worker>>
               /\ pc[t] = "putting" /\ used = used'
    BY <1>4, <2>3 DEF PostPut, Goto
  <2>4. ASSUME used' \subseteq {"sync"}, NEW i, SomebodyAwaits(i) \/ i = call[t].id
        PROVE  SomebodyAwaits(i)'
    BY <2>3, <2>4
  <2> HIDE DEF SomebodyAwaits, Replicas
  <2> QED
    BY <2>2, <2>3, <2>4
<1>5. ASSUME NEW t \in Threads, Await(t) PROVE BatchesAwaited'
  BY <1>5 DEF Await, Goto
<1>6. ASSUME NEW t \in Threads, Unload(t) PROVE BatchesAwaited'
  BY <1>6 DEF Unload, Enter, Goto
<1>7. ASSUME NEW t \in Threads, UnloadCheck(t) PROVE BatchesAwaited'
  BY <1>7 DEF UnloadCheck, Goto
<1>8. ASSUME NEW t \in Threads, UnloadTryLock(t) PROVE BatchesAwaited'
  BY <1>8 DEF UnloadTryLock, Goto, LockFree
<1>9. ASSUME NEW t \in Threads, Detach(t) PROVE BatchesAwaited'
  BY <1>9 DEF Detach, Goto
<1>10. ASSUME NEW t \in Threads, UnloadCache(t) PROVE BatchesAwaited'
  BY <1>10 DEF UnloadCache, Goto, Unlock, Clones
<1>11. ASSUME NEW t \in Threads, UnloadThrows(t) PROVE BatchesAwaited'
  BY <1>11 DEF UnloadThrows, Goto, Unlock
<1>12. ASSUME NEW t \in Threads, UnloadCrashes(t) PROVE BatchesAwaited'
  BY <1>12 DEF UnloadCrashes, Goto
<1>13. ASSUME NEW t \in Threads, Load(t) PROVE BatchesAwaited'
  BY <1>13 DEF Load, Enter, Goto
<1>14. ASSUME NEW t \in Threads, LoadLock(t) PROVE BatchesAwaited'
  BY <1>14 DEF LoadLock, Goto, LockFree
<1>15. ASSUME NEW t \in Threads, Assign(t) PROVE BatchesAwaited'
  BY <1>15 DEF Assign, Goto
<1>16. ASSUME NEW t \in Threads, LoadFinish(t) PROVE BatchesAwaited'
  BY <1>16 DEF LoadFinish, Goto, Unlock
<1>17. ASSUME NEW t \in Threads, LoadThrows(t) PROVE BatchesAwaited'
  BY <1>17 DEF LoadThrows, Goto, Unlock
<1>18. ASSUME NEW r \in Replicas, GetJob(r) PROVE BatchesAwaited'
  <2>1. /\ DOMAIN queue = 1 .. Len(queue) /\ DOMAIN queue' = 1 .. Len(queue) - 1
        /\ \A k \in 1 .. Len(queue) - 1 : queue'[k] = queue[k + 1]
        /\ Len(queue) \in Nat /\ Len(queue) > 0 /\ Head(queue) = queue[1]
    BY <1>18, HeadTailProperties DEF GetJob
  <2>2. \A k \in DOMAIN queue' : k + 1 \in DOMAIN queue /\ k + 1 # 1 /\ queue'[k] = queue[k + 1]
    BY <2>1
  <2>3. /\ job' = [job EXCEPT ![r] = queue[1]] /\ worker' = [worker EXCEPT ![r] = "got"]
        /\ UNCHANGED <<pc, call, numCalls, outcome, used>>
    BY <1>18, <2>1 DEF GetJob
  <2>4. \A s \in Replicas : Busy(s)'
        => (s = r /\ job'[s] = queue[1]) \/ (Busy(s) /\ job'[s] = job[s])
    BY <1>18, <2>3 DEF GetJob
  <2>5. 1 \in DOMAIN queue
    BY <2>1
  <2>6. \A i : SomebodyAwaits(i)' <=> SomebodyAwaits(i)
    BY <2>3
  <2> HIDE DEF SomebodyAwaits, Replicas, Busy
  <2> QED
    BY <2>2, <2>3, <2>4, <2>5, <2>6
<1>19. ASSUME NEW r \in Replicas, GetReplica(r) PROVE BatchesAwaited'
  BY <1>19 DEF GetReplica
<1>20. ASSUME NEW r \in Replicas, Answer(r) PROVE BatchesAwaited'
  BY <1>20 DEF Answer
<1>21. ASSUME NEW r \in Replicas, DestroyJob(r) PROVE BatchesAwaited'
  BY <1>21 DEF DestroyJob
<1>22. CASE UNCHANGED vars
  BY <1>22 DEF vars
<1> QED
  BY <1>1, <1>2, <1>3, <1>4, <1>5, <1>6, <1>7, <1>8, <1>9, <1>10, <1>11, <1>12,
     <1>13, <1>14, <1>15, <1>16, <1>17, <1>18, <1>19, <1>20, <1>21, <1>22
     DEF Next, RunStep, UnloadStep, LoadStep, WorkerStep, Terminated

LEMMA NextNoException == IInv /\ [Next]_vars => NoException'
<1> SUFFICES ASSUME IInv, [Next]_vars PROVE NoException'
  OBVIOUS
<1> USE ModelLifecycleAssumption DEF TypeOK, PCs, Running, Locked, Args, modelVars, lockVars,
      histVars, threadVars, poolVars, Replicas, Calls, Busy, IInv, LockHeld, ReplicasFollow,
      CallsNumbered, BatchesAwaited, NoException, SomebodyAwaits
<1>1. ASSUME NEW t \in Threads, Run(t) PROVE NoException'
  BY <1>1 DEF Run, Enter, Goto
<1>2. ASSUME NEW t \in Threads, Share(t) PROVE NoException'
  BY <1>2 DEF Share, Goto
<1>3. ASSUME NEW t \in Threads, PostCount(t) PROVE NoException'
  BY <1>3 DEF PostCount, Goto
<1>4. ASSUME NEW t \in Threads, PostPut(t) PROVE NoException'
  BY <1>4 DEF PostPut, Goto, HeldAfterPost
<1>5. ASSUME NEW t \in Threads, Await(t) PROVE NoException'
  BY <1>5 DEF Await, Goto
<1>6. ASSUME NEW t \in Threads, Unload(t) PROVE NoException'
  BY <1>6 DEF Unload, Enter, Goto
<1>7. ASSUME NEW t \in Threads, UnloadCheck(t) PROVE NoException'
  BY <1>7 DEF UnloadCheck, Goto
<1>8. ASSUME NEW t \in Threads, UnloadTryLock(t) PROVE NoException'
  BY <1>8 DEF UnloadTryLock, Goto, LockFree
<1>9. ASSUME NEW t \in Threads, Detach(t) PROVE NoException'
  BY <1>9 DEF Detach, Goto
<1>10. ASSUME NEW t \in Threads, UnloadCache(t) PROVE NoException'
  BY <1>10 DEF UnloadCache, Goto, Unlock, Clones
<1>11. ASSUME NEW t \in Threads, UnloadThrows(t) PROVE NoException'
  BY <1>11 DEF UnloadThrows, Goto, Unlock
<1>12. ASSUME NEW t \in Threads, UnloadCrashes(t) PROVE NoException'
  BY <1>12 DEF UnloadCrashes, Goto
<1>13. ASSUME NEW t \in Threads, Load(t) PROVE NoException'
  BY <1>13 DEF Load, Enter, Goto
<1>14. ASSUME NEW t \in Threads, LoadLock(t) PROVE NoException'
  BY <1>14 DEF LoadLock, Goto, LockFree
<1>15. ASSUME NEW t \in Threads, Assign(t) PROVE NoException'
  BY <1>15 DEF Assign, Goto
<1>16. ASSUME NEW t \in Threads, LoadFinish(t) PROVE NoException'
  BY <1>16 DEF LoadFinish, Goto, Unlock
<1>17. ASSUME NEW t \in Threads, LoadThrows(t) PROVE NoException'
  BY <1>17 DEF LoadThrows, Goto, Unlock
<1>18. ASSUME NEW r \in Replicas, GetJob(r) PROVE NoException'
  BY <1>18 DEF GetJob
<1>19. ASSUME NEW r \in Replicas, GetReplica(r) PROVE NoException'
  <2>1. CASE replica[r]
    BY <1>19, <2>1 DEF GetReplica
  <2>2. ASSUME ~copyFailed, used \subseteq {"sync"} PROVE replica[r]
    <3>1. PICK t \in Threads : pc[t] = "awaiting"
      BY <1>19, <2>2 DEF GetReplica
    <3>2. call[t].arg = "sync"
      BY <2>2, <3>1
    <3>3. t \in readers
      BY <3>1, <3>2
    <3> QED
      BY <2>2, <3>3
  <2> QED
    BY <1>19, <2>1, <2>2 DEF GetReplica
<1>20. ASSUME NEW r \in Replicas, Answer(r) PROVE NoException'
  BY <1>20 DEF Answer
<1>21. ASSUME NEW r \in Replicas, DestroyJob(r) PROVE NoException'
  BY <1>21 DEF DestroyJob
<1>22. CASE UNCHANGED vars
  BY <1>22 DEF vars
<1> QED
  BY <1>1, <1>2, <1>3, <1>4, <1>5, <1>6, <1>7, <1>8, <1>9, <1>10, <1>11, <1>12,
     <1>13, <1>14, <1>15, <1>16, <1>17, <1>18, <1>19, <1>20, <1>21, <1>22
     DEF Next, RunStep, UnloadStep, LoadStep, WorkerStep, Terminated

-----------------------------------------------------------------------------
(* The strengthening of ReadyUntilCopyFails is inductive.                  *)
THEOREM Invariant == Spec => []IInv
<1>1. Init => IInv
  <2> SUFFICES ASSUME Init PROVE IInv
    OBVIOUS
  <2> USE ModelLifecycleAssumption DEF Init, Replicas, Calls
  <2>1. TypeOK
    <3>1. /\ loaded \in BOOLEAN /\ cached \in BOOLEAN /\ noModel \in BOOLEAN
          /\ alive \in BOOLEAN /\ copyFailed \in BOOLEAN
      BY Zenon
    <3>2. pc \in [Threads -> PCs] /\ call \in [Threads -> [id : Nat, arg : Args]]
      BY DEF PCs, Args
    <3>3. /\ replica \in [Replicas -> BOOLEAN] /\ job \in [Replicas -> Nat]
          /\ worker \in [Replicas -> {"idle", "got", "running", "answered"}]
          /\ outcome \in [Calls -> {"pending", "result", "exception"}]
      OBVIOUS
    <3> QED
      BY <3>1, <3>2, <3>3 DEF TypeOK
  <2>2. LockHeld /\ ReplicasFollow
    BY DEF LockHeld, ReplicasFollow, Running, Locked
  <2>3. CallsNumbered /\ BatchesAwaited /\ NoException
    BY DEF CallsNumbered, BatchesAwaited, NoException, Running, Busy
  <2> QED
    BY <2>1, <2>2, <2>3 DEF IInv
<1>2. IInv /\ [Next]_vars => IInv'
  BY NextTypeOK, NextLockHeld, NextReplicasFollow, NextCallsNumbered, NextBatchesAwaited,
     NextNoException DEF IInv
<1> QED
  BY <1>1, <1>2, PTL DEF Spec

(* A model that is said to be loaded has all its replicas when nobody      *)
(* holds the lock, until a copy fails; and a batch that passed             *)
(* assert_model_is_ready finds one, if all batches are synchronous.        *)
THEOREM LoadedModelIsReady == Spec => []ReadyUntilCopyFails
<1>1. IInv => ReadyUntilCopyFails
  BY DEF IInv, ReplicasFollow, NoException, ReadyUntilCopyFails
<1> QED
  BY <1>1, Invariant, PTL

(* unload_model reads the counter of active jobs before it locks; what     *)
(* protects the replicas is the lock that synchronous batches hold.        *)
THEOREM ReplicasStayUnderBatches == Spec => SynchronousBatchesKeepReplicas
<1>1. ASSUME IInv, NEW t \in Threads, Detach(t), used \subseteq {"sync"}
      PROVE  ~BatchesInProcess
  <2>1. readers = {}
    BY <1>1, ModelLifecycleAssumption DEF IInv, TypeOK, LockHeld, Locked, Detach
  <2>2. \A u \in Threads : pc[u] \notin {"putting", "awaiting"}
    BY <1>1, <2>1 DEF IInv, LockHeld, Running
  <2>3. \A i : ~SomebodyAwaits(i)
    BY <2>2 DEF SomebodyAwaits
  <2>4. queue = <<>>
    <3>1. \A k \in DOMAIN queue : SomebodyAwaits(queue[k])
      BY <1>1 DEF IInv, BatchesAwaited
    <3>2. queue \in Seq(Nat) /\ (queue # <<>> => 1 \in DOMAIN queue)
      BY <1>1 DEF IInv, TypeOK
    <3> QED
      BY <2>3, <3>1, <3>2
  <2>5. \A r \in Replicas : ~Busy(r)
    BY <1>1, <2>3 DEF IInv, BatchesAwaited
  <2> QED
    BY <2>2, <2>4, <2>5 DEF BatchesInProcess, Busy
<1>2. IInv => (((\E t \in Threads : Detach(t)) /\ used \subseteq {"sync"}) => ~BatchesInProcess)
  BY <1>1
<1> QED
  BY <1>2, Invariant, PTL DEF SynchronousBatchesKeepReplicas, Spec

-----------------------------------------------------------------------------
(* ModelLoading: the compute type of a model.                              *)

LEMMA LeastIs == \A T \in SUBSET Nat : T # {} => Min(T) \in T /\ \A y \in T : Min(T) <= y
<1> SUFFICES ASSUME NEW T \in SUBSET Nat, T # {}
             PROVE  \E x \in T : \A y \in T : x <= y
  BY DEF Min
<1> DEFINE R == OpToRel(<, Nat)
<1>1. \A x, y \in Nat : x < y => <<x, y>> \in R
  BY DEF OpToRel
<1>2. IsWellFoundedOn(R, Nat)
  BY NatLessThanWellFounded
<1>3. PICK x \in T : \A y \in T : ~(<<y, x>> \in R)
  BY <1>2, WFMin
<1>4. \A y \in T : x <= y
  <2> SUFFICES ASSUME NEW y \in T, y < x PROVE FALSE
    OBVIOUS
  <2> QED
    BY <1>1, <1>3
<1> QED
  BY <1>3, <1>4

(* resolve_compute_type takes the first type of a list that the device     *)
(* runs, and float32 if there is none.                                     *)
LEMMA FirstThatRunsIs ==
  ASSUME NEW p, NEW types \in Seq(SavedTypes)
  PROVE  LET type == FirstThatRuns(types, p)
         IN  /\ type \in SavedTypes /\ Runs(p, type)
             /\ \A n \in 1 .. Len(types) : Runs(p, types[n]) =>
                  \E m \in 1 .. n : type = types[m]
<1> DEFINE able == {n \in DOMAIN types : Runs(p, types[n])}
<1>1. /\ DOMAIN types = 1 .. Len(types) /\ Len(types) \in Nat
      /\ \A n \in 1 .. Len(types) : types[n] \in SavedTypes
  OBVIOUS
<1>2. able \in SUBSET Nat
  BY <1>1
<1>3. CASE able = {}
  <2>1. FirstThatRuns(types, p) = "float32"
    BY <1>3 DEF FirstThatRuns
  <2>2. Runs(p, "float32") /\ "float32" \in SavedTypes
    <3>1. Runs(p, "float32")
      BY Zenon DEF Runs
    <3> QED
      BY <3>1 DEF SavedTypes
  <2> QED
    BY <1>1, <1>3, <2>1, <2>2
<1>4. CASE able # {}
  <2>1. FirstThatRuns(types, p) = types[Min(able)]
    BY <1>4 DEF FirstThatRuns
  <2>2. Min(able) \in able /\ \A n \in able : Min(able) <= n
    BY <1>2, <1>4, LeastIs
  <2>3. \A n \in 1 .. Len(types) : Runs(p, types[n]) => Min(able) \in 1 .. n
    BY <1>1, <2>2
  <2> HIDE DEF able
  <2> QED
    BY <1>1, <2>1, <2>2, <2>3 DEF able
<1> QED
  BY <1>3, <1>4

(* What a device supports, and the types in which it runs.                 *)
LEMMA SupportsIs ==
  ASSUME NEW p, NEW type \in {"bfloat16", "float16", "int16", "int8"}
  PROVE  Supports(p, type) \in BOOLEAN
BY Zenon DEF Supports

LEMMA RunsIs ==
  ASSUME NEW p
  PROVE  /\ Runs(p, "float32")
         /\ Runs(p, "int8_float32") <=> Supports(p, "int8")
         /\ Runs(p, "int8_float16") <=> Supports(p, "int8") /\ Supports(p, "float16")
         /\ Runs(p, "int8_bfloat16") <=> Supports(p, "int8") /\ Supports(p, "bfloat16")
         /\ \A type \in {"bfloat16", "float16", "int16"} : Runs(p, type) <=> Supports(p, type)
<1>1. Runs(p, "float32")
  BY Zenon DEF Runs
<1>2. Runs(p, "int8_float32") <=> Supports(p, "int8")
  BY Zenon, SupportsIs DEF Runs
<1>3. Runs(p, "int8_float16") <=> Supports(p, "int8") /\ Supports(p, "float16")
  BY Zenon, SupportsIs DEF Runs
<1>4. Runs(p, "int8_bfloat16") <=> Supports(p, "int8") /\ Supports(p, "bfloat16")
  BY Zenon, SupportsIs DEF Runs
<1>5. Runs(p, "bfloat16") <=> Supports(p, "bfloat16")
  BY Zenon, SupportsIs DEF Runs
<1>6. Runs(p, "float16") <=> Supports(p, "float16")
  BY Zenon, SupportsIs DEF Runs
<1>7. Runs(p, "int16") <=> Supports(p, "int16")
  BY Zenon, SupportsIs DEF Runs
<1> QED
  BY <1>1, <1>2, <1>3, <1>4, <1>5, <1>6, <1>7

LEMMA TypesAre ==
  SavedTypes = {"float32", "float16", "bfloat16", "int16", "int8_float32", "int8_float16",
                "int8_bfloat16"}
BY DEF SavedTypes, Int8Types

LEMMA TypesThatRun ==
  ASSUME NEW p, NEW type \in SavedTypes
  PROVE  Runs(p, type) <=> type \in SupportedTypes(p)
BY RunsIs, TypesAre DEF SupportedTypes

LEMMA WeightsAre ==
  /\ \A type \in {"int8_float32", "int8_float16", "int8_bfloat16"} : WeightType(type) = "int8"
  /\ \A type \in {"float32", "float16", "bfloat16", "int16"} : WeightType(type) # "int8"
<1>1. \A type \in Int8Types : WeightType(type) = "int8"
  BY Zenon DEF WeightType
<1>2. \A type : type \notin Int8Types => WeightType(type) = type
  BY Zenon DEF WeightType
<1> QED
  BY <1>1, <1>2 DEF Int8Types

LEMMA Int8WithIs ==
  ASSUME NEW type
  PROVE  Int8With(FloatType(type)) \in {"int8_float32", "int8_float16", "int8_bfloat16"}
BY Zenon DEF Int8With

LEMMA FallbacksAre ==
  ASSUME NEW p, NEW type \in SavedTypes
  PROVE  /\ Fallbacks(type, p) \in Seq(SavedTypes)
         /\ type \in {"int8_float16", "int8_bfloat16"} =>
              Fallbacks(type, p) # <<>> /\ Fallbacks(type, p)[1] = "int8_float32"
<1>1. /\ "float16" \in SavedTypes /\ "bfloat16" \in SavedTypes
      /\ "int16" \in SavedTypes /\ "int8_float32" \in SavedTypes
  BY TypesAre
<1>2. ASSUME NEW x \in SavedTypes, NEW b, NEW y \in SavedTypes, NEW c
      PROVE  (IF b THEN <<x>> ELSE <<>>) \o (IF c THEN <<y>> ELSE <<>>) \in Seq(SavedTypes)
  <2>1. (IF b THEN <<x>> ELSE <<>>) \in Seq(SavedTypes)
    OBVIOUS
  <2>2. (IF c THEN <<y>> ELSE <<>>) \in Seq(SavedTypes)
    OBVIOUS
  <2> QED
    BY <2>1, <2>2, ConcatProperties
<1>3. ASSUME type = "int16" PROVE Fallbacks(type, p) \in Seq(SavedTypes)
  <2>1. Fallbacks(type, p) =
         (IF p.device = "CPU" THEN <<"int8_float32">> ELSE <<>>)
           \o (IF p.device = "CUDA" THEN <<"float16">> ELSE <<>>)
    BY <1>3, Zenon DEF Fallbacks
  <2> QED
    BY <1>1, <1>2, <2>1
<1>4. ASSUME type = "int8_float32" PROVE Fallbacks(type, p) \in Seq(SavedTypes)
  <2>1. Fallbacks(type, p) =
         (IF p.device = "CPU" THEN <<"int16">> ELSE <<>>)
           \o (IF p.device = "CUDA" THEN <<"float16">> ELSE <<>>)
    BY <1>4, Zenon DEF Fallbacks
  <2> QED
    BY <1>1, <1>2, <2>1
<1>5. ASSUME type = "int8_float16"
      PROVE  /\ Fallbacks(type, p) \in Seq(SavedTypes) /\ Fallbacks(type, p) # <<>>
             /\ Fallbacks(type, p)[1] = "int8_float32"
  <2>1. Fallbacks(type, p) = <<"int8_float32", "float16", "int16">>
    BY <1>5, Zenon DEF Fallbacks
  <2> QED
    BY <1>1, <2>1
<1>6. ASSUME type = "int8_bfloat16"
      PROVE  /\ Fallbacks(type, p) \in Seq(SavedTypes) /\ Fallbacks(type, p) # <<>>
             /\ Fallbacks(type, p)[1] = "int8_float32"
  <2>1. Fallbacks(type, p) = <<"int8_float32", "bfloat16">>
    BY <1>6, Zenon DEF Fallbacks
  <2> QED
    BY <1>1, <2>1
<1>7. ASSUME type \in {"float32", "float16", "bfloat16"}
      PROVE  Fallbacks(type, p) \in Seq(SavedTypes)
  <2>1. Fallbacks(type, p) = <<>>
    BY <1>7, Zenon DEF Fallbacks
  <2> QED
    BY <2>1
<1>8. \/ type \in {"int16", "int8_float32", "int8_float16", "int8_bfloat16"}
      \/ type \in {"float32", "float16", "bfloat16"}
  BY TypesAre
<1> QED
  BY <1>3, <1>4, <1>5, <1>6, <1>7, <1>8

LEMMA FallBackIs ==
  ASSUME NEW p, NEW type \in SavedTypes
  PROVE  LET found == FallBack(type, p)
         IN  /\ found \in SavedTypes /\ Runs(p, found)
             /\ Runs(p, type) => found = type
             /\ WeightType(type) = "int8" /\ Supports(p, "int8") => WeightType(found) = "int8"
<1> DEFINE types == <<type>> \o Fallbacks(type, p)
           found == FallBack(type, p)
<1>1. /\ types \in Seq(SavedTypes) /\ 1 \in 1 .. Len(types) /\ types[1] = type
      /\ type \in {"int8_float16", "int8_bfloat16"} =>
           2 \in 1 .. Len(types) /\ types[2] = "int8_float32"
  BY FallbacksAre
<1>2. /\ found \in SavedTypes /\ Runs(p, found)
      /\ \A n \in 1 .. Len(types) : Runs(p, types[n]) => \E m \in 1 .. n : found = types[m]
  <2> HIDE DEF types
  <2>1. found = FirstThatRuns(types, p)
    BY DEF FallBack, types
  <2> QED
    BY <1>1, <2>1, FirstThatRunsIs
<1> HIDE DEF types, found
<1>3. Runs(p, type) => found = type
  BY <1>1, <1>2
<1>4. ASSUME WeightType(type) = "int8", Supports(p, "int8") PROVE WeightType(found) = "int8"
  <2>1. CASE type = "int8_float32"
    BY <1>3, <2>1, RunsIs, <1>4, WeightsAre
  <2>2. CASE type \in {"int8_float16", "int8_bfloat16"}
    <3>1. Runs(p, types[2])
      BY <1>1, <1>4, <2>2, RunsIs
    <3>2. found = types[1] \/ found = types[2]
      BY <1>1, <1>2, <2>2, <3>1
    <3> QED
      BY <1>1, <2>2, <3>2, WeightsAre
  <2> QED
    BY <1>4, <2>1, <2>2, TypesAre, WeightsAre
<1> QED
  BY <1>2, <1>3, <1>4 DEF found

LEMMA AutoOrderIs == \A device : AutoOrder(device) \in Seq(SavedTypes)
<1> SUFFICES ASSUME NEW device PROVE AutoOrder(device) \in Seq(SavedTypes)
  OBVIOUS
<1>1. /\ "float16" \in SavedTypes /\ "int16" \in SavedTypes
      /\ "int8_float32" \in SavedTypes /\ "int8_float16" \in SavedTypes
  BY TypesAre
<1>2. /\ <<>> \in Seq(SavedTypes) /\ <<"int8_float32", "int16">> \in Seq(SavedTypes)
      /\ <<"int8_float16", "int8_float32", "float16">> \in Seq(SavedTypes)
  BY <1>1
<1> QED
  BY <1>2, Zenon DEF AutoOrder

(* What resolve_compute_type makes of each request.                        *)
ResolvesRight(request_, saved_, p) ==
  LET type == Resolve(request_, saved_, p)
      wanted == Int8With(FloatType(saved_))
  IN  /\ type # Refused => type \in SavedTypes /\ Runs(p, type)
      /\ request_ \in {"auto", "default"} => type # Refused
      /\ request_ \in SavedTypes => (IF Runs(p, request_) THEN type = request_ ELSE type = Refused)
      /\ request_ = "int8" =>
           /\ type # Refused <=> Supports(p, "int8")
           /\ type # Refused => WeightType(type) = "int8"
           /\ Runs(p, wanted) => type = wanted

LEMMA ResolveIs ==
  ASSUME NEW p, NEW r \in Requests, NEW s \in SavedTypes
  PROVE  ResolvesRight(r, s, p)
<1> DEFINE type == Resolve(r, s, p)
           wanted == Int8With(FloatType(s))
<1>1. Refused \notin SavedTypes
  BY TypesAre DEF Refused
<1>2. r \in SavedTypes \/ r \in {"int8", "auto", "default"}
  BY DEF Requests
<1>3. "int8" \notin SavedTypes /\ "auto" \notin SavedTypes /\ "default" \notin SavedTypes
  BY TypesAre
<1>4. CASE r = "int8"
  <2> DEFINE found == FallBack(wanted, p)
  <2>1. wanted \in SavedTypes /\ WeightType(wanted) = "int8"
    BY Int8WithIs, TypesAre, WeightsAre
  <2>2. /\ found \in SavedTypes /\ Runs(p, found) /\ (Runs(p, wanted) => found = wanted)
        /\ Supports(p, "int8") => WeightType(found) = "int8"
    BY <2>1, FallBackIs
  <2>3. type = IF WeightType(found) = "int8" THEN found ELSE Refused
    <3>1. type = ResolveInt8(s, p)
      BY <1>4, Zenon DEF Resolve
    <3> QED
      BY <3>1 DEF ResolveInt8
  <2> HIDE DEF type, wanted, found
  <2>4. WeightType(found) = "int8" => Supports(p, "int8")
    <3>1. found \in {"int8_float32", "int8_float16", "int8_bfloat16"}
            \/ found \in {"float32", "float16", "bfloat16", "int16"}
      BY <2>2, TypesAre
    <3> QED
      BY <2>2, <3>1, RunsIs, WeightsAre
  <2>5. /\ type # Refused <=> WeightType(found) = "int8"
        /\ type # Refused => type = found
    BY <1>1, <2>2, <2>3
  <2>6. Runs(p, wanted) => type = wanted
    BY <2>1, <2>2, <2>3
  <2> QED
    BY <1>3, <1>4, <2>2, <2>4, <2>5, <2>6 DEF ResolvesRight, type, wanted
<1>5. CASE r = "auto"
  <2>1. type = FirstThatRuns(AutoOrder(p.device), p)
    BY <1>5, Zenon DEF Resolve
  <2>2. type \in SavedTypes /\ Runs(p, type)
    BY <2>1, AutoOrderIs, FirstThatRunsIs
  <2> HIDE DEF type
  <2> QED
    BY <1>1, <1>3, <1>5, <2>2 DEF ResolvesRight, type
<1>6. CASE r = "default"
  <2>1. type = FallBack(s, p)
    BY <1>6, Zenon DEF Resolve
  <2>2. type \in SavedTypes /\ Runs(p, type)
    BY <2>1, FallBackIs
  <2> HIDE DEF type
  <2> QED
    BY <1>1, <1>3, <1>6, <2>2 DEF ResolvesRight, type
<1>7. CASE r \in SavedTypes
  <2>1. r # "int8" /\ r # "auto" /\ r # "default"
    BY <1>3, <1>7
  <2>2. type = IF Runs(p, r) THEN r ELSE Refused
    BY <2>1, Zenon DEF Resolve
  <2> HIDE DEF type
  <2> QED
    BY <1>1, <1>7, <2>1, <2>2 DEF ResolvesRight, type
<1> QED
  BY <1>2, <1>4, <1>5, <1>6, <1>7

-----------------------------------------------------------------------------
(* ModelLoading: the index of a model.                                     *)

(* Every name has an object, and names are not aliases before RegisterAlias. *)
Sound(m) ==
  /\ m = [index |-> m.index, store |-> m.store]
  /\ m.index = [v \in DOMAIN m.index |-> m.index[v]]
  /\ m.store = [v \in DOMAIN m.store |-> m.store[v]]
  /\ \A v \in DOMAIN m.index : m.index[v] \in DOMAIN m.store

Plain(m) == Sound(m) /\ \A v \in DOMAIN m.index : m.index[v] = v

(* r has the variable v of m, and it is the same object. *)
Keeps(r, m, v) ==
  /\ Has(r, v) <=> Has(m, v)
  /\ Has(m, v) => r.index[v] = m.index[v] /\ Get(r, v) = Get(m, v)

LEMMA RegisterIs ==
  ASSUME NEW m, Sound(m), NEW v, NEW value, \A w \in DOMAIN m.index : m.index[w] = v => Has(m, v)
  PROVE  LET r == Register(m, v, value)
         IN  /\ Sound(r) /\ Has(r, v)
             /\ \A w : w # v \/ Has(m, v) => Keeps(r, m, w)
             /\ ~Has(m, v) => r.index[v] = v /\ Get(r, v) = value
             /\ Plain(m) => Plain(r)
<1> DEFINE r == Register(m, v, value)
           index == [w \in DOMAIN m.index \cup {v} |-> IF w = v THEN v ELSE m.index[w]]
           store == [w \in DOMAIN m.store \cup {v} |-> IF w = v THEN value ELSE m.store[w]]
<1>1. CASE Has(m, v)
  <2>1. r = m
    BY <1>1 DEF Register
  <2>2. \A w : Keeps(m, m, w)
    BY DEF Keeps
  <2> QED
    BY <1>1, <2>1, <2>2
<1>2. CASE ~Has(m, v)
  <2>1. r = [index |-> index, store |-> store]
    BY <1>2, Zenon DEF Register, Extended
  <2> HIDE DEF r
  <2>2. r.index = index /\ r.store = store
    BY <2>1
  <2>3. /\ DOMAIN r.index = DOMAIN m.index \cup {v}
        /\ DOMAIN r.store = DOMAIN m.store \cup {v}
        /\ r.index[v] = v /\ r.store[v] = value
        /\ \A w \in DOMAIN m.index : w # v /\ r.index[w] = m.index[w]
        /\ \A w \in DOMAIN m.store : w # v => r.store[w] = m.store[w]
    BY <1>2, <2>2 DEF Has
  <2>4. r = [index |-> r.index, store |-> r.store]
    BY <2>1, <2>2
  <2>5. /\ r.index = [w \in DOMAIN r.index |-> r.index[w]]
        /\ r.store = [w \in DOMAIN r.store |-> r.store[w]]
    BY <2>2
  <2> HIDE DEF index, store
  <2>6. Sound(r)
    BY <2>3, <2>4, <2>5 DEF Sound
  <2>7. \A w \in DOMAIN m.index : m.index[w] # v /\ m.index[w] \in DOMAIN m.store
    BY <1>2 DEF Sound
  <2>8. ASSUME NEW w, w # v PROVE Keeps(r, m, w)
    BY <2>3, <2>7, <2>8 DEF Keeps, Has, Get
  <2>9. Get(r, v) = value /\ Has(r, v)
    BY <2>3 DEF Get, Has
  <2>10. Plain(m) => Plain(r)
    BY <2>3, <2>6 DEF Plain
  <2> QED
    BY <1>2, <2>3, <2>6, <2>8, <2>9, <2>10 DEF r
<1> QED
  BY <1>1, <1>2

LEMMA RemoveIs ==
  ASSUME NEW m, Sound(m), NEW v
  PROVE  LET r == RemoveVariable(m, v)
         IN  /\ Sound(r) /\ ~Has(r, v)
             /\ \A w : w # v => Keeps(r, m, w)
             /\ Plain(m) => Plain(r)
<1> DEFINE r == RemoveVariable(m, v)
           index == [w \in DOMAIN m.index \ {v} |-> m.index[w]]
<1>1. r = [m EXCEPT !.index = index]
  BY DEF RemoveVariable, Restrict
<1>2. m = [index |-> m.index, store |-> m.store]
  BY DEF Sound
<1> HIDE DEF r
<1>3. r = [index |-> index, store |-> m.store]
  <2> HIDE DEF index
  <2> QED
    BY <1>1, <1>2
<1>4. r.index = index /\ r.store = m.store
  BY <1>3
<1>5. /\ DOMAIN r.index = DOMAIN m.index \ {v}
      /\ \A w \in DOMAIN r.index : r.index[w] = m.index[w]
      /\ r.index = [w \in DOMAIN r.index |-> r.index[w]]
  BY <1>4
<1> HIDE DEF index
<1>6. Sound(r)
  BY <1>3, <1>4, <1>5 DEF Sound
<1>7. ~Has(r, v) /\ \A w : w # v => Keeps(r, m, w)
  BY <1>4, <1>5 DEF Has, Keeps, Get
<1> QED
  BY <1>5, <1>6, <1>7 DEF Plain, r

LEMMA SetIs ==
  ASSUME NEW m, Plain(m), NEW v, Has(m, v), NEW value
  PROVE  LET r == SetVariable(m, v, value)
         IN  /\ Plain(r) /\ Has(r, v) /\ Get(r, v) = value
             /\ \A w : w # v => Keeps(r, m, w)
<1> DEFINE r == SetVariable(m, v, value)
           store == [m.store EXCEPT ![v] = value]
<1>1. m.index[v] = v /\ v \in DOMAIN m.store
  BY DEF Plain, Sound, Has
<1>2. m = [index |-> m.index, store |-> m.store]
  BY DEF Plain, Sound
<1>3. r = [m EXCEPT !.store = store]
  BY <1>1 DEF SetVariable
<1> HIDE DEF r
<1>4. r = [index |-> m.index, store |-> store]
  <2> HIDE DEF store
  <2> QED
    BY <1>2, <1>3
<1>5. r.index = m.index /\ r.store = store
  BY <1>4
<1>6. /\ DOMAIN r.store = DOMAIN m.store /\ r.store[v] = value
      /\ \A w \in DOMAIN m.store : w # v => r.store[w] = m.store[w]
      /\ r.store = [w \in DOMAIN r.store |-> r.store[w]]
  BY <1>1, <1>5
<1> HIDE DEF store
<1>7. Plain(r)
  BY <1>4, <1>5, <1>6 DEF Plain, Sound
<1>8. Has(r, v) /\ Get(r, v) = value /\ \A w : w # v => Keeps(r, m, w)
  BY <1>1, <1>5, <1>6 DEF Has, Get, Keeps, Plain, Sound
<1> QED
  BY <1>7, <1>8 DEF r

-----------------------------------------------------------------------------
(* ensure_dtype gives a layer a weight and a scale of the same origin.     *)

WeightOf(m, n) == Get(m, <<n, "weight">>)
ScaleOf(m, n) == Get(m, <<n, "scale">>)

(* A layer as files have it. *)
FromFile(m, n) ==
  /\ Has(m, <<n, "weight">>)
  /\ WeightOf(m, n).dtype \in FloatDataTypes \cup {"int8", "int16"}
  /\ IF IsFloat(WeightOf(m, n).dtype) THEN ~Has(m, <<n, "scale">>)
     ELSE /\ WeightOf(m, n).of = "file"
          /\ Has(m, <<n, "scale">>) => ScaleOf(m, n).of = "file"
          /\ WeightOf(m, n).dtype = "int8" => Has(m, <<n, "scale">>)

(* A layer that can be run. *)
Coherent(m, n) ==
  /\ Has(m, <<n, "weight">>)
  /\ IF IsFloat(WeightOf(m, n).dtype) THEN ~Has(m, <<n, "scale">>)
     ELSE Has(m, <<n, "scale">>) /\ ScaleOf(m, n).of = WeightOf(m, n).of
  /\ WeightOf(m, n).dtype = "int32" => Has(m, <<n, "zero">>)

LEMMA EnsureTypeIs ==
  ASSUME NEW m, Plain(m), NEW n, FromFile(m, n),
         NEW dtype \in FloatDataTypes \cup {"int8", "int16"}
  PROVE  LET r == EnsureType(m, n, dtype)
         IN  /\ Plain(r) /\ Coherent(r, n) /\ WeightOf(r, n).dtype = dtype
             /\ \A v : v \notin {<<n, "weight">>, <<n, "scale">>} => Keeps(r, m, v)
<1> DEFINE w == <<n, "weight">>
           c == <<n, "scale">>
           from == WeightOf(m, n).dtype
           scaled == Scaled(m, n)
           Good(r) == /\ Plain(r) /\ Coherent(r, n) /\ WeightOf(r, n).dtype = dtype
                      /\ \A v : v \notin {w, c} => Keeps(r, m, v)
<1>1. w # c
  OBVIOUS
<1>2. ASSUME NEW a, NEW b, NEW d, NEW v, Keeps(a, b, v), Keeps(b, d, v) PROVE Keeps(a, d, v)
  BY <1>2 DEF Keeps
<1>3. ASSUME NEW v PROVE Keeps(m, m, v)
  BY DEF Keeps
<1>4. \A dt : IsFloat(dt) <=> dt \in FloatDataTypes
  BY DEF IsFloat
<1>5. "int8" \notin FloatDataTypes /\ "int16" \notin FloatDataTypes /\ "int32" \notin FloatDataTypes
  BY DEF FloatDataTypes
<1>6. \A dt, of : Value(dt, of).dtype = dt /\ Value(dt, of).of = of
  BY DEF Value
<1>7. /\ Has(m, w) /\ from \in FloatDataTypes \cup {"int8", "int16"}
      /\ IF IsFloat(from) THEN ~Has(m, c)
         ELSE /\ WeightOf(m, n).of = "file"
              /\ Has(m, c) => ScaleOf(m, n).of = "file"
              /\ from = "int8" => Has(m, c)
  BY DEF FromFile
<1>8. Sound(m)
  BY DEF Plain
<1>9. ASSUME ~IsFloat(from)
      PROVE  /\ Plain(scaled) /\ Has(scaled, c) /\ ScaleOf(scaled, n).of = "file"
             /\ \A v : v # c => Keeps(scaled, m, v)
  <2> DEFINE value == Value("float32", "file")
  <2>1. \A v \in DOMAIN m.index : m.index[v] = c => Has(m, c)
    BY DEF Plain, Has
  <2>2. LET r == Register(m, c, value)
        IN  /\ Has(r, c) /\ \A v : v # c \/ Has(m, c) => Keeps(r, m, v)
            /\ ~Has(m, c) => Get(r, c) = value
            /\ Plain(r)
    BY <1>8, <2>1, RegisterIs
  <2>3. CASE from = "int16"
    <3>1. scaled = Register(m, c, value)
      BY <2>3 DEF Scaled, WeightOf
    <3> HIDE DEF scaled, value
    <3>2. /\ Plain(scaled) /\ Has(scaled, c) /\ \A v : v # c \/ Has(m, c) => Keeps(scaled, m, v)
          /\ ~Has(m, c) => Get(scaled, c) = value
      BY <2>2, <3>1
    <3>3. value.of = "file"
      BY <1>6 DEF value
    <3>4. ScaleOf(scaled, n).of = "file"
      BY <1>7, <1>9, <3>2, <3>3 DEF ScaleOf, Keeps
    <3> QED
      BY <3>2, <3>4
  <2>4. CASE from = "int8"
    <3>1. scaled = m
      BY <2>4 DEF Scaled, WeightOf
    <3> QED
      BY <1>3, <1>7, <1>9, <2>4, <3>1
  <2> QED
    BY <1>4, <1>7, <1>9, <2>3, <2>4
<1> HIDE DEF from, w, c, scaled
<1>10. ASSUME NEW a, Plain(a), NEW value, Has(a, w), ~Has(a, c), ~IsFloat(dtype),
              value = Value(dtype, "load"),
              \A v : v \notin {w, c} => Keeps(a, m, v)
       PROVE  Good(Quantized(a, n, dtype))
  <2> DEFINE b == SetVariable(a, w, value)
             scale == Value("float32", "load")
             r == Register(b, c, scale)
  <2>1. Plain(b) /\ Has(b, w) /\ Get(b, w) = value /\ \A v : v # w => Keeps(b, a, v)
    BY <1>10, SetIs
  <2> HIDE DEF b
  <2>2. ~Has(b, c)
    BY <1>1, <1>10, <2>1 DEF Keeps
  <2>3. Sound(b) /\ \A v \in DOMAIN b.index : b.index[v] = c => Has(b, c)
    BY <2>1 DEF Plain, Has
  <2>4. /\ Plain(r) /\ Has(r, c) /\ Get(r, c) = scale
        /\ \A v : v # c => Keeps(r, b, v)
    BY <2>1, <2>2, <2>3, RegisterIs
  <2> HIDE DEF r, scale
  <2>5. Has(r, w) /\ Get(r, w) = value
    BY <1>1, <2>1, <2>4 DEF Keeps
  <2>6. \A v : v \notin {w, c} => Keeps(r, m, v)
    BY <1>2, <1>10, <2>1, <2>4
  <2>7. value.dtype = dtype /\ value.of = "load" /\ scale.of = "load"
    BY <1>6, <1>10 DEF scale
  <2>8. WeightOf(r, n) = value /\ ScaleOf(r, n) = scale
    BY <2>4, <2>5 DEF WeightOf, ScaleOf, w, c
  <2>9. Coherent(r, n)
    BY <1>5, <1>10, <2>4, <2>5, <2>7, <2>8 DEF Coherent, w, c
  <2>10. Quantized(a, n, dtype) = r
    BY <1>10 DEF Quantized, r, b, w, c, scale
  <2> QED
    BY <2>4, <2>6, <2>7, <2>8, <2>9, <2>10
<1>11. CASE from = dtype
  <2>1. EnsureType(m, n, dtype) = scaled
    BY <1>11 DEF EnsureType, from, WeightOf, scaled
  <2>2. CASE IsFloat(from)
    <3>1. scaled = m
      BY <1>4, <1>5, <2>2 DEF Scaled, scaled, from, WeightOf
    <3>2. Coherent(m, n)
      BY <1>4, <1>5, <1>7, <2>2 DEF Coherent, from, w, c
    <3> QED
      BY <1>3, <1>11, <2>1, <3>1, <3>2 DEF from
  <2>3. CASE ~IsFloat(from)
    <3>1. Keeps(scaled, m, w)
      BY <1>1, <1>9, <2>3
    <3>2. Has(scaled, w) /\ WeightOf(scaled, n) = WeightOf(m, n)
      BY <1>7, <3>1 DEF Keeps, WeightOf, w
    <3>3. Coherent(scaled, n)
      BY <1>4, <1>7, <1>9, <2>3, <3>2 DEF Coherent, w, c, from
    <3> QED
      BY <1>9, <1>11, <2>1, <2>3, <3>2, <3>3 DEF from, w, c
  <2> QED
    BY <2>2, <2>3
<1>12. CASE from # dtype /\ IsFloat(from) /\ IsFloat(dtype)
  <2> DEFINE value == Value(dtype, "none")
             r == SetVariable(m, w, value)
  <2>1. EnsureType(m, n, dtype) = r
    BY <1>12 DEF EnsureType, from, WeightOf, w
  <2>2. Plain(r) /\ Has(r, w) /\ Get(r, w) = value /\ \A v : v # w => Keeps(r, m, v)
    BY <1>7, SetIs
  <2>3. value.dtype = dtype
    BY <1>6
  <2> HIDE DEF r, value
  <2>4. ~Has(r, c)
    BY <1>1, <1>7, <1>12, <2>2 DEF Keeps
  <2>5. WeightOf(r, n) = value
    BY <2>2 DEF WeightOf, w
  <2>6. Coherent(r, n)
    BY <1>4, <1>5, <1>12, <2>2, <2>3, <2>4, <2>5 DEF Coherent, w, c
  <2> QED
    BY <2>1, <2>2, <2>3, <2>5, <2>6 DEF w, c
<1>13. CASE from # dtype /\ ~IsFloat(from) /\ IsFloat(dtype)
  <2> DEFINE value == Value(dtype, "none")
             b == SetVariable(scaled, w, value)
             r == RemoveVariable(b, c)
  <2>1. EnsureType(m, n, dtype) = r
    <3>1. EnsureType(m, n, dtype) = Dequantized(scaled, n, dtype)
      BY <1>13 DEF EnsureType, from, WeightOf, scaled
    <3> QED
      BY <3>1 DEF Dequantized, w, c
  <2>2. Has(scaled, w)
    BY <1>1, <1>7, <1>9, <1>13 DEF Keeps
  <2>3. Plain(b) /\ Has(b, w) /\ Get(b, w) = value /\ \A v : v # w => Keeps(b, scaled, v)
    BY <1>9, <1>13, <2>2, SetIs
  <2>4. value.dtype = dtype
    BY <1>6
  <2> HIDE DEF b, value
  <2>5. Plain(r) /\ ~Has(r, c) /\ \A v : v # c => Keeps(r, b, v)
    BY <2>3, RemoveIs DEF Plain
  <2> HIDE DEF r
  <2>6. Has(r, w) /\ WeightOf(r, n) = value
    BY <1>1, <2>3, <2>5 DEF Keeps, WeightOf, w
  <2>7. Coherent(r, n)
    BY <1>4, <1>5, <1>13, <2>4, <2>5, <2>6 DEF Coherent, w, c
  <2>8. \A v : v \notin {w, c} => Keeps(r, m, v)
    BY <1>2, <1>9, <1>13, <2>3, <2>5
  <2> QED
    BY <2>1, <2>4, <2>5, <2>6, <2>7, <2>8 DEF w, c
<1>14. CASE from # dtype /\ IsFloat(from) /\ ~IsFloat(dtype)
  <2>1. EnsureType(m, n, dtype) = Quantized(m, n, dtype)
    BY <1>14 DEF EnsureType, from, WeightOf
  <2> QED
    BY <1>3, <1>7, <1>10, <1>14, <2>1 DEF w, c
<1>15. CASE from # dtype /\ ~IsFloat(from) /\ ~IsFloat(dtype)
  <2> DEFINE a == RemoveVariable(scaled, c)
  <2>1. EnsureType(m, n, dtype) = Quantized(a, n, dtype)
    <3>1. EnsureType(m, n, dtype) = Requantized(scaled, n, dtype)
      BY <1>15 DEF EnsureType, from, WeightOf, scaled
    <3> QED
      BY <3>1 DEF Requantized, c
  <2>2. Plain(a) /\ ~Has(a, c) /\ \A v : v # c => Keeps(a, scaled, v)
    BY <1>9, <1>15, RemoveIs DEF Plain
  <2> HIDE DEF a
  <2>3. \A v : v # c => Keeps(a, m, v)
    BY <1>2, <1>9, <1>15, <2>2
  <2>4. Has(a, w)
    BY <1>1, <1>7, <2>3 DEF Keeps
  <2> QED
    BY <1>10, <1>15, <2>1, <2>2, <2>3, <2>4 DEF w, c
<1> QED
  BY <1>11, <1>12, <1>13, <1>14, <1>15 DEF w, c

-----------------------------------------------------------------------------
(* The loops of the loading: one lemma gives the functions that the four   *)
(* FoldSet are, and one the induction over the subsets of a finite set.    *)

LoopStep(loop, type, m, x) ==
  CASE loop = "ensure" -> EnsureType(m, x, WeightTarget(x, type))
    [] loop = "convert" -> ConvertOther(m, x, FloatType(type))
    [] loop = "alias" -> RegisterAlias(m, x, <<Aliases[x[1]], x[2]>>)
    [] loop = "pack" -> Packed(Compensated(m, x), x)

Picked(s) == CHOOSE x \in s : TRUE

LoopIs(loop, type, base, S, f) ==
  f = [s \in SUBSET S |-> IF s = {} THEN base
                          ELSE LoopStep(loop, type, f[s \ {Picked(s)}], Picked(s))]

LEMMA PickedIs ==
  ASSUME NEW S, IsFiniteSet(S), NEW s \in SUBSET S, s # {}
  PROVE  /\ Picked(s) \in s /\ s \ {Picked(s)} \in SUBSET S
         /\ Cardinality(s) \in Nat /\ Cardinality(s \ {Picked(s)}) = Cardinality(s) - 1
<1>1. Picked(s) \in s
  BY DEF Picked
<1>2. IsFiniteSet(s)
  BY FS_Subset
<1> QED
  BY <1>1, <1>2, FS_RemoveElement, FS_CardinalityType

(* What holds of the empty set, and of a set when it holds without one of  *)
(* its elements, holds of every finite set.                                *)
LEMMA SubsetInduction ==
  ASSUME NEW S, IsFiniteSet(S), NEW Good, {} \in Good,
         \A s \in SUBSET S : s # {} /\ s \ {Picked(s)} \in Good => s \in Good
  PROVE  S \in Good
<1> DEFINE C == Cardinality(S)
           T == {n \in 0 .. C : \A s \in SUBSET S : Cardinality(s) <= n => s \in Good}
<1>1. C \in Nat
  BY FS_CardinalityType
<1>2. ASSUME NEW s \in SUBSET S
      PROVE  Cardinality(s) \in Nat /\ (Cardinality(s) = 0 => s = {}) /\ Cardinality(s) <= C
  <2>1. IsFiniteSet(s) /\ Cardinality(s) <= C
    BY FS_Subset
  <2> QED
    BY <2>1, FS_CardinalityType, FS_EmptySet
<1> HIDE DEF C
<1>3. 0 \in T
  BY <1>1, <1>2
<1>4. ASSUME NEW n \in 0 .. C - 1, n \in T PROVE n + 1 \in T
  <2>1. ASSUME NEW s \in SUBSET S, Cardinality(s) <= n + 1 PROVE s \in Good
    <3>1. CASE s = {}
      BY <3>1
    <3>2. CASE s # {}
      <4>1. s \ {Picked(s)} \in SUBSET S /\ Cardinality(s \ {Picked(s)}) <= n
        BY <1>1, <2>1, <3>2, PickedIs
      <4> QED
        BY <1>4, <3>2, <4>1
    <3> QED
      BY <3>1, <3>2
  <2> QED
    BY <1>1, <2>1
<1>5. C \in T
  <2> HIDE DEF T
  <2>1. \A m \in 0 .. C : m \in T
    BY <1>1, <1>3, <1>4, Induction
  <2> QED
    BY <1>1, <2>1
<1> QED
  BY <1>1, <1>5 DEF C

LEMMA LoopExists ==
  ASSUME NEW S, IsFiniteSet(S), NEW loop, NEW type, NEW base
  PROVE  \E f : LoopIs(loop, type, base, S, f)
<1> DEFINE Item(f, s) == IF s = {} THEN base
                         ELSE LoopStep(loop, type, f[s \ {Picked(s)}], Picked(s))
           C == Cardinality(S)
           Small(n) == {s \in SUBSET S : Cardinality(s) <= n}
           T == {n \in 0 .. C : \E f : f = [s \in Small(n) |-> Item(f, s)]}
<1>1. C \in Nat
  BY FS_CardinalityType
<1>2. ASSUME NEW s \in SUBSET S
      PROVE  Cardinality(s) \in Nat /\ (Cardinality(s) = 0 => s = {}) /\ Cardinality(s) <= C
  <2>1. IsFiniteSet(s) /\ Cardinality(s) <= C
    BY FS_Subset
  <2> QED
    BY <2>1, FS_CardinalityType, FS_EmptySet
<1> HIDE DEF C
<1>3. 0 \in T
  <2> DEFINE f == [s \in Small(0) |-> base]
  <2>1. ASSUME NEW s \in Small(0) PROVE f[s] = Item(f, s)
    BY <1>2, <2>1
  <2> HIDE DEF Item
  <2>2. f = [s \in Small(0) |-> Item(f, s)]
    BY <2>1
  <2> HIDE DEF f, Small
  <2> QED
    BY <1>1, <2>2
<1>4. ASSUME NEW n \in 0 .. C - 1, n \in T PROVE n + 1 \in T
  <2>1. PICK f : f = [s \in Small(n) |-> Item(f, s)]
    BY <1>4
  <2> DEFINE h == [s \in Small(n + 1) |-> IF s \in Small(n) THEN f[s] ELSE Item(f, s)]
  <2>2. ASSUME NEW s \in Small(n + 1), s # {}
        PROVE  s \ {Picked(s)} \in Small(n)
    BY <1>1, <1>2, <2>2, PickedIs
  <2>3. Small(n) \subseteq Small(n + 1)
    BY <1>1, <1>2
  <2> HIDE DEF Small
  <2>4. ASSUME NEW s \in Small(n + 1) PROVE h[s] = Item(h, s)
    <3>1. CASE s = {}
      <4>1. h[s] = base
        <5> HIDE DEF h
        <5>1. h[s] = IF s \in Small(n) THEN f[s] ELSE Item(f, s)
          BY DEF h
        <5>2. s \in Small(n) => f[s] = Item(f, s)
          <6> HIDE DEF Item
          <6> QED
            BY <2>1
        <5> QED
          BY <3>1, <5>1, <5>2
      <4> QED
        BY <3>1, <4>1
    <3>2. CASE s # {}
      <4>1. /\ s \ {Picked(s)} \in Small(n)
            /\ h[s \ {Picked(s)}] = f[s \ {Picked(s)}]
        BY <2>2, <2>3, <3>2
      <4>2. h[s] = Item(f, s)
        <5> HIDE DEF Item
        <5>1. s \in Small(n) => f[s] = Item(f, s)
          BY <2>1
        <5> QED
          BY <5>1
      <4>3. Item(h, s) = Item(f, s)
        BY <3>2, <4>1
      <4> QED
        BY <4>2, <4>3
    <3> QED
      BY <3>1, <3>2
  <2> HIDE DEF Item
  <2>5. h = [s \in Small(n + 1) |-> Item(h, s)]
    BY <2>4
  <2>6. n + 1 \in 0 .. C
    BY <1>1
  <2> HIDE DEF h
  <2> QED
    BY <2>5, <2>6
<1>5. C \in T
  <2> HIDE DEF T
  <2>1. \A m \in 0 .. C : m \in T
    BY ONLY <1>1, <1>3, <1>4, Induction
  <2> QED
    BY <1>1, <2>1
<1>6. Small(C) = SUBSET S
  BY <1>2
<1>7. PICK f : f = [s \in SUBSET S |-> Item(f, s)]
  <2> HIDE DEF Item, Small
  <2> QED
    BY <1>5, <1>6
<1> QED
  BY <1>7 DEF LoopIs

Ensured(base, type, S) == FoldSet(LAMBDA n, acc : EnsureType(acc, n, WeightTarget(n, type)), base, S)

LEMMA EnsureLoop ==
  ASSUME NEW S, IsFiniteSet(S), NEW type, NEW base
  PROVE  \E f : /\ LoopIs("ensure", type, base, S, f)
                /\ f[S] = Ensured(base, type, S)
<1> DEFINE Chosen(s) == CHOOSE x \in s : TRUE
           Loop(f) == [s \in SUBSET S |-> IF s = {} THEN base
                         ELSE EnsureType(f[s \ {Chosen(s)}], Chosen(s), WeightTarget(Chosen(s), type))]
           loop == CHOOSE f : f = Loop(f)
<1>1. ASSUME NEW f PROVE LoopIs("ensure", type, base, S, f) <=> f = Loop(f)
  BY DEF LoopIs, LoopStep, Picked
<1>2. \E f : f = Loop(f)
  <2> HIDE DEF Loop
  <2> QED
    BY <1>1, LoopExists
<1>3. loop = Loop(loop)
  <2> HIDE DEF Loop
  <2> QED
    BY <1>2, Zenon
<1>4. Ensured(base, type, S) = loop[S]
  BY Zenon DEF Ensured, FoldSet, MapThenFoldSet
<1> HIDE DEF loop, Loop
<1> QED
  BY <1>1, <1>3, <1>4, Zenon

ConvertedOthers(base, type, S) == FoldSet(LAMBDA v, acc : ConvertOther(acc, v, FloatType(type)), base, S)

LEMMA ConvertLoop ==
  ASSUME NEW S, IsFiniteSet(S), NEW type, NEW base
  PROVE  \E f : /\ LoopIs("convert", type, base, S, f)
                /\ f[S] = ConvertedOthers(base, type, S)
<1> DEFINE Chosen(s) == CHOOSE x \in s : TRUE
           Loop(f) == [s \in SUBSET S |-> IF s = {} THEN base
                         ELSE ConvertOther(f[s \ {Chosen(s)}], Chosen(s), FloatType(type))]
           loop == CHOOSE f : f = Loop(f)
<1>1. ASSUME NEW f PROVE LoopIs("convert", type, base, S, f) <=> f = Loop(f)
  BY DEF LoopIs, LoopStep, Picked
<1>2. \E f : f = Loop(f)
  <2> HIDE DEF Loop
  <2> QED
    BY <1>1, LoopExists
<1>3. loop = Loop(loop)
  <2> HIDE DEF Loop
  <2> QED
    BY <1>2, Zenon
<1>4. ConvertedOthers(base, type, S) = loop[S]
  BY Zenon DEF ConvertedOthers, FoldSet, MapThenFoldSet
<1> HIDE DEF loop, Loop
<1> QED
  BY <1>1, <1>3, <1>4, Zenon

WithAliases(base, S) == FoldSet(LAMBDA v, acc : RegisterAlias(acc, v, <<Aliases[v[1]], v[2]>>), base, S)

LEMMA AliasLoop ==
  ASSUME NEW S, IsFiniteSet(S), NEW type, NEW base
  PROVE  \E f : /\ LoopIs("alias", type, base, S, f)
                /\ f[S] = WithAliases(base, S)
<1> DEFINE Chosen(s) == CHOOSE x \in s : TRUE
           Loop(f) == [s \in SUBSET S |-> IF s = {} THEN base
                         ELSE RegisterAlias(f[s \ {Chosen(s)}], Chosen(s), <<Aliases[Chosen(s)[1]], Chosen(s)[2]>>)]
           loop == CHOOSE f : f = Loop(f)
<1>1. ASSUME NEW f PROVE LoopIs("alias", type, base, S, f) <=> f = Loop(f)
  BY DEF LoopIs, LoopStep, Picked
<1>2. \E f : f = Loop(f)
  <2> HIDE DEF Loop
  <2> QED
    BY <1>1, LoopExists
<1>3. loop = Loop(loop)
  <2> HIDE DEF Loop
  <2> QED
    BY <1>2, Zenon
<1>4. WithAliases(base, S) = loop[S]
  BY Zenon DEF WithAliases, FoldSet, MapThenFoldSet
<1> HIDE DEF loop, Loop
<1> QED
  BY <1>1, <1>3, <1>4, Zenon

WithPacked(base, S) == FoldSet(LAMBDA n, acc : Packed(Compensated(acc, n), n), base, S)

LEMMA PackLoop ==
  ASSUME NEW S, IsFiniteSet(S), NEW type, NEW base
  PROVE  \E f : /\ LoopIs("pack", type, base, S, f)
                /\ f[S] = WithPacked(base, S)
<1> DEFINE Chosen(s) == CHOOSE x \in s : TRUE
           Loop(f) == [s \in SUBSET S |-> IF s = {} THEN base
                         ELSE Packed(Compensated(f[s \ {Chosen(s)}], Chosen(s)), Chosen(s))]
           loop == CHOOSE f : f = Loop(f)
<1>1. ASSUME NEW f PROVE LoopIs("pack", type, base, S, f) <=> f = Loop(f)
  BY DEF LoopIs, LoopStep, Picked
<1>2. \E f : f = Loop(f)
  <2> HIDE DEF Loop
  <2> QED
    BY <1>1, LoopExists
<1>3. loop = Loop(loop)
  <2> HIDE DEF Loop
  <2> QED
    BY <1>2, Zenon
<1>4. WithPacked(base, S) = loop[S]
  BY Zenon DEF WithPacked, FoldSet, MapThenFoldSet
<1> HIDE DEF loop, Loop
<1> QED
  BY <1>1, <1>3, <1>4, Zenon

LEMMA LoopUnfolds ==
  ASSUME NEW loop, NEW type, NEW base, NEW S, NEW f, LoopIs(loop, type, base, S, f)
  PROVE  /\ f[{}] = base
         /\ \A s \in SUBSET S :
              s # {} => f[s] = LoopStep(loop, type, f[s \ {Picked(s)}], Picked(s))
<1> DEFINE Item(s) == IF s = {} THEN base
                      ELSE LoopStep(loop, type, f[s \ {Picked(s)}], Picked(s))
<1>1. f = [s \in SUBSET S |-> Item(s)]
  BY DEF LoopIs
<1>2. \A s \in SUBSET S : f[s] = Item(s)
  <2> HIDE DEF Item
  <2> QED
    BY <1>1
<1> QED
  BY <1>2

-----------------------------------------------------------------------------
(* set_compute_type.                                                       *)

FileNames == (Saved \X {"weight", "scale"}) \cup (Others \X {"other"})

LEMMA LayersKeep ==
  ASSUME NEW r, NEW m, NEW n,
         \A role \in {"weight", "scale", "zero"} : Keeps(r, m, <<n, role>>)
  PROVE  /\ FromFile(m, n) => FromFile(r, n)
         /\ Coherent(m, n) => Coherent(r, n)
         /\ Has(m, <<n, "weight">>) => WeightOf(r, n) = WeightOf(m, n)
<1>1. /\ Keeps(r, m, <<n, "weight">>) /\ Keeps(r, m, <<n, "scale">>) /\ Keeps(r, m, <<n, "zero">>)
  OBVIOUS
<1>2. /\ Has(r, <<n, "weight">>) <=> Has(m, <<n, "weight">>)
      /\ Has(r, <<n, "scale">>) <=> Has(m, <<n, "scale">>)
      /\ Has(r, <<n, "zero">>) <=> Has(m, <<n, "zero">>)
      /\ Has(m, <<n, "weight">>) => WeightOf(r, n) = WeightOf(m, n)
      /\ Has(m, <<n, "scale">>) => ScaleOf(r, n) = ScaleOf(m, n)
  BY <1>1 DEF Keeps, WeightOf, ScaleOf
<1> QED
  BY <1>2 DEF FromFile, Coherent

(* The weights that ConvertVariables converts. *)
LEMMA WeightsAreEnsured ==
  ASSUME IsFiniteSet(Saved), NEW m, Plain(m), \A n \in Saved : FromFile(m, n), NEW type,
         \A n \in Saved : WeightTarget(n, type) \in FloatDataTypes \cup {"int8", "int16"}
  PROVE  LET r == Ensured(m, type, Saved)
         IN  /\ Plain(r)
             /\ \A n \in Saved : Coherent(r, n) /\ WeightOf(r, n).dtype = WeightTarget(n, type)
             /\ \A v : v \notin Saved \X {"weight", "scale"} => Keeps(r, m, v)
<1> DEFINE r == Ensured(m, type, Saved)
           Done(a, s) ==
             /\ Plain(a)
             /\ \A n \in s : Coherent(a, n) /\ WeightOf(a, n).dtype = WeightTarget(n, type)
             /\ \A v : v \notin s \X {"weight", "scale"} => Keeps(a, m, v)
<1>1. PICK f : /\ LoopIs("ensure", type, m, Saved, f) /\ f[Saved] = r
  BY EnsureLoop
<1> HIDE DEF r
<1> DEFINE Good == {s \in SUBSET Saved : Done(f[s], s)}
<1>2. /\ f[{}] = m
      /\ \A s \in SUBSET Saved : s # {} =>
           f[s] = EnsureType(f[s \ {Picked(s)}], Picked(s), WeightTarget(Picked(s), type))
  <2>1. \A a, n : LoopStep("ensure", type, a, n) = EnsureType(a, n, WeightTarget(n, type))
    BY DEF LoopStep
  <2> QED
    BY <1>1, <2>1, LoopUnfolds
<1>3. {} \in Good
  <2>1. Done(m, {})
    BY DEF Keeps
  <2> HIDE DEF Done
  <2> QED
    BY <1>2, <2>1
<1>4. ASSUME NEW s \in SUBSET Saved, s # {}, s \ {Picked(s)} \in Good
      PROVE  s \in Good
  <2>1. PICK n, t, a, b : n = Picked(s) /\ t = s \ {n} /\ a = f[t] /\ b = f[s]
    OBVIOUS
  <2>2. n \in s /\ n \in Saved /\ s = t \cup {n} /\ n \notin t
    <3> HIDE DEF Good
    <3> QED
      BY <1>4, <2>1, PickedIs
  <2>3. Done(a, t)
    <3> HIDE DEF Done
    <3> QED
      BY <1>4, <2>1
  <2>4. b = EnsureType(a, n, WeightTarget(n, type))
    BY <1>2, <1>4, <2>1
  <2>5. \A role \in {"weight", "scale", "zero"} : Keeps(a, m, <<n, role>>)
    BY <2>2, <2>3
  <2>6. FromFile(a, n)
    BY <2>2, <2>5, LayersKeep
  <2>7. /\ Plain(b) /\ Coherent(b, n) /\ WeightOf(b, n).dtype = WeightTarget(n, type)
        /\ \A v : v \notin {<<n, "weight">>, <<n, "scale">>} => Keeps(b, a, v)
    <3>1. Plain(a) /\ WeightTarget(n, type) \in FloatDataTypes \cup {"int8", "int16"}
      BY <2>2, <2>3
    <3> QED
      BY <2>4, <2>6, <3>1, EnsureTypeIs
  <2>8. ASSUME NEW k \in s PROVE Coherent(b, k) /\ WeightOf(b, k).dtype = WeightTarget(k, type)
    <3>1. CASE k = n
      BY <2>7, <3>1
    <3>2. CASE k # n
      <4>1. k \in t
        BY <2>1, <3>2
      <4>2. \A role \in {"weight", "scale", "zero"} : Keeps(b, a, <<k, role>>)
        BY <2>7, <3>2
      <4>3. Coherent(a, k) /\ WeightOf(a, k).dtype = WeightTarget(k, type)
        BY <2>3, <4>1
      <4>4. Has(a, <<k, "weight">>)
        BY <4>3 DEF Coherent
      <4> QED
        BY <4>2, <4>3, <4>4, LayersKeep
    <3> QED
      BY <3>1, <3>2
  <2>9. ASSUME NEW v, v \notin s \X {"weight", "scale"} PROVE Keeps(b, m, v)
    <3>1. Keeps(b, a, v)
      BY <2>2, <2>7, <2>9
    <3>2. Keeps(a, m, v)
      BY <2>1, <2>3, <2>9
    <3> QED
      BY <3>1, <3>2 DEF Keeps
  <2>10. Done(b, s)
    BY <2>7, <2>8, <2>9
  <2> HIDE DEF Done
  <2> QED
    BY <2>1, <2>10
<1>5. Saved \in Good
  <2> HIDE DEF Good
  <2> QED
    BY <1>3, <1>4, SubsetInduction
<1> QED
  BY <1>1, <1>5 DEF r

(* The other variables. *)
LEMMA OthersAreConverted ==
  ASSUME NEW m, Plain(m), IsFiniteSet(Convertible(m)), NEW type
  PROVE  LET r == ConvertedOthers(m, type, Convertible(m))
         IN  /\ Plain(r)
             /\ \A v : v \notin Convertible(m) => Keeps(r, m, v)
             /\ \A v \in Convertible(m) :
                  Has(r, v) /\ (IsFloat(Get(m, v).dtype) => Get(r, v).dtype = FloatType(type))
<1> DEFINE S == Convertible(m)
           r == ConvertedOthers(m, type, S)
           Done(a, s) ==
             /\ Plain(a)
             /\ \A v : v \notin s => Keeps(a, m, v)
             /\ \A v \in s :
                  Has(a, v) /\ (IsFloat(Get(m, v).dtype) => Get(a, v).dtype = FloatType(type))
<1>0. \A v \in S : Has(m, v)
  BY DEF Convertible, Has
<1>1. PICK f : /\ LoopIs("convert", type, m, S, f) /\ f[S] = r
  BY ConvertLoop
<1> HIDE DEF r, S
<1> DEFINE Good == {s \in SUBSET S : Done(f[s], s)}
<1>2. /\ f[{}] = m
      /\ \A s \in SUBSET S : s # {} =>
           f[s] = ConvertOther(f[s \ {Picked(s)}], Picked(s), FloatType(type))
  <2>1. \A a, n : LoopStep("convert", type, a, n) = ConvertOther(a, n, FloatType(type))
    BY DEF LoopStep
  <2> QED
    BY <1>1, <2>1, LoopUnfolds
<1>3. {} \in Good
  <2>1. Done(m, {})
    BY DEF Keeps
  <2> HIDE DEF Done
  <2> QED
    BY <1>2, <2>1
<1>4. ASSUME NEW s \in SUBSET S, s # {}, s \ {Picked(s)} \in Good
      PROVE  s \in Good
  <2>1. PICK n, t, a, b : n = Picked(s) /\ t = s \ {n} /\ a = f[t] /\ b = f[s]
    OBVIOUS
  <2>2. n \in s /\ n \in S /\ s = t \cup {n} /\ n \notin t
    <3> HIDE DEF Good
    <3> QED
      BY <1>4, <2>1, PickedIs DEF S
  <2>3. Done(a, t)
    <3> HIDE DEF Done
    <3> QED
      BY <1>4, <2>1
  <2>4. b = ConvertOther(a, n, FloatType(type))
    BY <1>2, <1>4, <2>1
  <2>5. Has(a, n) /\ Get(a, n) = Get(m, n)
    BY <1>0, <2>2, <2>3 DEF Keeps
  <2>6. /\ Plain(b) /\ Has(b, n) /\ \A v : v # n => Keeps(b, a, v)
        /\ IsFloat(Get(m, n).dtype) => Get(b, n).dtype = FloatType(type)
    <3>1. CASE IsFloat(Get(a, n).dtype)
      <4> DEFINE value == Value(FloatType(type), "none")
      <4>1. b = SetVariable(a, n, value)
        BY <2>4, <3>1 DEF ConvertOther
      <4>2. value.dtype = FloatType(type)
        BY DEF Value
      <4> HIDE DEF value
      <4>3. /\ Plain(b) /\ Has(b, n) /\ Get(b, n) = value /\ \A v : v # n => Keeps(b, a, v)
        BY <2>3, <2>5, <4>1, SetIs
      <4> QED
        BY <4>2, <4>3
    <3>2. CASE ~IsFloat(Get(a, n).dtype)
      <4>1. b = a
        BY <2>4, <3>2 DEF ConvertOther
      <4> QED
        BY <2>3, <2>5, <3>2, <4>1 DEF Keeps
    <3> QED
      BY <3>1, <3>2
  <2>7. ASSUME NEW v \in s
        PROVE  Has(b, v) /\ (IsFloat(Get(m, v).dtype) => Get(b, v).dtype = FloatType(type))
    BY <2>1, <2>3, <2>6 DEF Keeps
  <2>8. ASSUME NEW v, v \notin s PROVE Keeps(b, m, v)
    BY <2>2, <2>3, <2>6, <2>8 DEF Keeps
  <2>9. Done(b, s)
    BY <2>6, <2>7, <2>8
  <2> HIDE DEF Done
  <2> QED
    BY <2>1, <2>9
<1>5. S \in Good
  <2> HIDE DEF Good
  <2> QED
    BY <1>3, <1>4, SubsetInduction DEF S
<1> QED
  BY <1>1, <1>5 DEF r, S

LEMMA NoCommonType ==
  /\ \A dtype : IsFloat(dtype) <=> dtype \in FloatDataTypes
  /\ FloatDataTypes = {"float32", "float16", "bfloat16"}
BY DEF IsFloat, FloatDataTypes

LEMMA TargetsAre ==
  /\ \A type \in SavedTypes \cup {"int8"} : WeightType(type) \in FloatDataTypes \cup {"int8", "int16"}
  /\ \A type : FloatType(type) \in FloatDataTypes
  /\ \A n : \A type \in SavedTypes : WeightTarget(n, type) \in FloatDataTypes \cup {"int8", "int16"}
<1>1. ASSUME NEW type \in SavedTypes \cup {"int8"}
      PROVE  WeightType(type) \in FloatDataTypes \cup {"int8", "int16"}
  <2>1. type \in Int8Types => WeightType(type) = "int8"
    BY Zenon DEF WeightType
  <2>2. type \notin Int8Types => WeightType(type) = type
    BY Zenon DEF WeightType
  <2>3. type \in Int8Types \/ type \in {"float32", "float16", "bfloat16", "int16"}
    BY TypesAre DEF Int8Types
  <2> QED
    BY <2>1, <2>2, <2>3, NoCommonType
<1>2. ASSUME NEW type PROVE FloatType(type) \in FloatDataTypes
  BY NoCommonType DEF FloatType
<1>3. \A n, type : WeightTarget(n, type) = FloatType(type) \/ WeightTarget(n, type) = WeightType(type)
  BY DEF WeightTarget
<1> QED
  BY <1>1, <1>2, <1>3

LEMMA FilesAre ==
  ASSUME NEW f \in Files
  PROVE  /\ f.awq \in BOOLEAN
         /\ f.awq => /\ f.weight = "int32" /\ f.scaled
         /\ ~f.awq => /\ f.weight \in FloatDataTypes \cup {"int8", "int16"}
                      /\ f.scaled \in BOOLEAN
                      /\ IsFloat(f.weight) => ~f.scaled
                      /\ f.weight = "int8" => f.scaled
                      /\ \A v \in Others : f.other[v] \in FloatDataTypes
<1>1. CASE f = OldFile
  BY <1>1, NoCommonType DEF OldFile
<1>2. CASE f = AwqFile
  BY <1>2 DEF AwqFile
<1>3. CASE \E float \in FloatDataTypes, quantization \in SavedTypes \cup {"int8", "none"} :
             f = Converted(float, quantization)
  <2>1. PICK float \in FloatDataTypes, quantization \in SavedTypes \cup {"int8", "none"} :
          f = Converted(float, quantization)
    BY <1>3
  <2> DEFINE type == IF quantization = "none" THEN float ELSE quantization
  <2>2. f.weight = WeightType(type) /\ f.scaled = ~IsFloat(WeightType(type)) /\ f.awq = FALSE
        /\ f.other = [n \in Others |-> OtherType(n, float, quantization)]
    BY <2>1 DEF Converted
  <2>3. type \in SavedTypes \cup {"int8"}
    BY TypesAre, NoCommonType
  <2>4. WeightType(type) \in FloatDataTypes \cup {"int8", "int16"}
    BY <2>3, TargetsAre
  <2> HIDE DEF type
  <2>5. ASSUME NEW v \in Others PROVE f.other[v] \in FloatDataTypes
    <3>1. f.other[v] = OtherType(v, float, quantization)
      BY <2>2
    <3>2. OtherType(v, float, quantization) \in {"float16", "bfloat16", "float32", float}
      BY Zenon DEF OtherType
    <3> QED
      BY <3>1, <3>2, NoCommonType
  <2> QED
    BY <2>2, <2>4, <2>5, NoCommonType
<1> QED
  BY <1>1, <1>2, <1>3 DEF Files

LEMMA ReadIs ==
  ASSUME NEW f \in Files
  PROVE  LET m == Read(f)
         IN  /\ Plain(m)
             /\ f.awq => /\ DOMAIN m.index \subseteq FileNames \cup (Saved \X {"zero"})
                         /\ \A n \in Saved : Coherent(m, n)
             /\ ~f.awq => /\ DOMAIN m.index \subseteq FileNames
                          /\ \A n \in Saved : FromFile(m, n)
                          /\ \A v \in Others : /\ Has(m, <<v, "other">>)
                                               /\ IsFloat(Get(m, <<v, "other">>).dtype)
<1> DEFINE m == Read(f)
           quantized == IF f.awq THEN Linears ELSE Saved
           places == (Saved \X {"weight"}) \cup (Others \X {"other"})
                       \cup (IF f.scaled THEN quantized \X {"scale"} ELSE {})
                       \cup (IF f.awq THEN quantized \X {"zero"} ELSE {})
           ValueAt(v) ==
             CASE v[2] = "weight" /\ v[1] \notin quantized -> Value("float16", "none")
               [] v[2] = "weight" /\ v[1] \in quantized ->
                    Value(f.weight, IF IsFloat(f.weight) THEN "none" ELSE "file")
               [] v[2] = "scale" -> Value(IF f.awq THEN "float16" ELSE "float32", "file")
               [] v[2] = "zero" -> Value("int32", "file")
               [] OTHER -> Value(f.other[v[1]], "none")
<1>1. m = [index |-> [v \in places |-> v], store |-> [v \in places |-> ValueAt(v)]]
  BY DEF Read
<1>2. /\ \A n \in quantized : ValueAt(<<n, "weight">>) =
             Value(f.weight, IF IsFloat(f.weight) THEN "none" ELSE "file")
      /\ \A n : n \notin quantized => ValueAt(<<n, "weight">>) = Value("float16", "none")
      /\ \A n : ValueAt(<<n, "scale">>).of = "file"
      /\ \A n : ValueAt(<<n, "other">>) = Value(f.other[n], "none")
  <2> HIDE DEF quantized
  <2>1. ASSUME NEW n, n \in quantized
        PROVE ValueAt(<<n, "weight">>) = Value(f.weight, IF IsFloat(f.weight) THEN "none" ELSE "file")
    BY <2>1
  <2>2. ASSUME NEW n, n \notin quantized PROVE ValueAt(<<n, "weight">>) = Value("float16", "none")
    BY <2>2
  <2>3. ASSUME NEW n PROVE ValueAt(<<n, "scale">>).of = "file"
    BY DEF Value
  <2>4. ASSUME NEW n PROVE ValueAt(<<n, "other">>) = Value(f.other[n], "none")
    OBVIOUS
  <2> HIDE DEF ValueAt
  <2> QED
    BY <2>1, <2>2, <2>3, <2>4
<1> HIDE DEF m, ValueAt
<1>3. /\ m.index = [v \in places |-> v] /\ DOMAIN m.index = places
      /\ \A v \in places : m.store[v] = ValueAt(v) /\ m.index[v] = v
      /\ DOMAIN m.store = places
  <2> HIDE DEF places
  <2> QED
    BY <1>1
<1>4. Plain(m)
  <2> HIDE DEF places
  <2>1. m = [index |-> m.index, store |-> m.store]
    BY <1>1
  <2>2. m.store = [v \in DOMAIN m.store |-> m.store[v]]
    BY <1>1
  <2> QED
    BY <1>3, <2>1, <2>2 DEF Plain, Sound
<1>5. \A v \in places : Has(m, v) /\ Get(m, v) = ValueAt(v)
  BY <1>3 DEF Has, Get
<1>6. \A v : v \notin places => ~Has(m, v)
  BY <1>3 DEF Has
<1>7. \A dtype, of : Value(dtype, of).dtype = dtype /\ Value(dtype, of).of = of
  BY DEF Value
<1>8. quantized \subseteq Saved
  BY DEF Saved
<1>9. /\ \A n \in Saved : <<n, "weight">> \in places
      /\ \A n \in Others : <<n, "other">> \in places
      /\ \A n \in quantized : f.scaled => <<n, "scale">> \in places
      /\ \A n \in quantized : f.awq => <<n, "zero">> \in places
      /\ \A n : <<n, "scale">> \in places => f.scaled /\ n \in quantized
  BY <1>8
<1>10. CASE f.awq
  <2>1. f.weight = "int32" /\ f.scaled /\ ~IsFloat(f.weight) /\ IsFloat("float16")
    BY <1>10, FilesAre, NoCommonType
  <2>2. places \subseteq FileNames \cup (Saved \X {"zero"})
    BY <1>8 DEF FileNames
  <2>3. ASSUME NEW n \in Saved PROVE Coherent(m, n)
    <3> HIDE DEF places, quantized
    <3>1. Has(m, <<n, "weight">>) /\ WeightOf(m, n) = ValueAt(<<n, "weight">>)
      BY <1>5, <1>9 DEF WeightOf
    <3>2. CASE n \in quantized
      <4>1. Has(m, <<n, "scale">>) /\ ScaleOf(m, n) = ValueAt(<<n, "scale">>) /\ Has(m, <<n, "zero">>)
        BY <1>5, <1>9, <1>10, <2>1, <3>2 DEF ScaleOf
      <4>2. WeightOf(m, n).of = "file" /\ ScaleOf(m, n).of = "file" /\ ~IsFloat(WeightOf(m, n).dtype)
        BY <1>2, <1>7, <2>1, <3>1, <3>2, <4>1
      <4> QED
        BY <3>1, <4>1, <4>2 DEF Coherent
    <3>3. CASE n \notin quantized
      <4>1. WeightOf(m, n).dtype = "float16"
        BY <1>2, <1>7, <3>1, <3>3
      <4>2. ~Has(m, <<n, "scale">>)
        BY <1>6, <1>9, <3>3
      <4> QED
        BY <2>1, <3>1, <4>1, <4>2 DEF Coherent
    <3> QED
      BY <3>2, <3>3
  <2> HIDE DEF places, quantized
  <2> QED
    BY <1>3, <1>4, <1>10, <2>2, <2>3 DEF m
<1>11. CASE ~f.awq
  <2>1. quantized = Saved
    BY <1>11
  <2>2. places \subseteq FileNames
    BY <1>8, <1>11 DEF FileNames
  <2>3. /\ f.weight \in FloatDataTypes \cup {"int8", "int16"}
        /\ IsFloat(f.weight) => ~f.scaled
        /\ f.weight = "int8" => f.scaled
        /\ \A v \in Others : f.other[v] \in FloatDataTypes
    BY <1>11, FilesAre
  <2> HIDE DEF places, quantized
  <2>4. ASSUME NEW n \in Saved PROVE FromFile(m, n)
    <3>1. Has(m, <<n, "weight">>) /\ WeightOf(m, n) = ValueAt(<<n, "weight">>)
      BY <1>5, <1>9 DEF WeightOf
    <3>2. WeightOf(m, n).dtype = f.weight /\ (~IsFloat(f.weight) => WeightOf(m, n).of = "file")
      BY <1>2, <1>7, <2>1, <3>1
    <3>3. Has(m, <<n, "scale">>) => f.scaled /\ ScaleOf(m, n).of = "file"
      BY <1>2, <1>5, <1>6, <1>9 DEF ScaleOf
    <3>4. f.scaled => Has(m, <<n, "scale">>)
      BY <1>5, <1>9, <2>1
    <3> QED
      BY <2>3, <3>1, <3>2, <3>3, <3>4 DEF FromFile
  <2>5. ASSUME NEW v \in Others PROVE Has(m, <<v, "other">>) /\ IsFloat(Get(m, <<v, "other">>).dtype)
    <3>1. Has(m, <<v, "other">>) /\ Get(m, <<v, "other">>).dtype = f.other[v]
      BY <1>2, <1>5, <1>7, <1>9
    <3> QED
      BY <2>3, <3>1, NoCommonType
  <2> QED
    BY <1>3, <1>4, <1>11, <2>2, <2>4, <2>5 DEF m
<1>12. f.awq \in BOOLEAN
  BY FilesAre
<1> QED
  BY <1>10, <1>11, <1>12

(* What set_compute_type leaves: the aliases are not there yet.            *)
Typed(m, type, f) ==
  /\ Plain(m)
  /\ DOMAIN m.index \subseteq FileNames \cup (Saved \X {"zero"})
  /\ \A n \in Saved : Coherent(m, n)
  /\ ~f.awq => /\ \A n \in Saved : WeightOf(m, n).dtype = WeightTarget(n, type)
               /\ \A v \in Others : /\ Has(m, <<v, "other">>)
                                    /\ Get(m, <<v, "other">>).dtype = FloatType(type)

LEMMA SetsAreFinite == IsFiniteSet(Saved) /\ IsFiniteSet(Others) /\ IsFiniteSet(DOMAIN Aliases)
BY ModelLoadingAssumption DEF Saved

LEMMA VariablesAreConverted ==
  ASSUME NEW f \in Files, ~f.awq, NEW type \in SavedTypes
  PROVE  Typed(ConvertVariables(Read(f), type), type, f)
<1> DEFINE m == Read(f)
           weights == Ensured(m, type, Saved)
           C == Convertible(weights)
           r == ConvertedOthers(weights, type, C)
<1>1. ConvertVariables(m, type) = r
  BY DEF ConvertVariables, Ensured, ConvertedOthers
<1>2. /\ Plain(m) /\ DOMAIN m.index \subseteq FileNames
      /\ \A n \in Saved : FromFile(m, n)
      /\ \A v \in Others : Has(m, <<v, "other">>) /\ IsFloat(Get(m, <<v, "other">>).dtype)
  BY ReadIs
<1> HIDE DEF m, r
<1>3. \A n \in Saved : WeightTarget(n, type) \in FloatDataTypes \cup {"int8", "int16"}
  BY TargetsAre
<1>4. /\ Plain(weights)
      /\ \A n \in Saved : Coherent(weights, n) /\ WeightOf(weights, n).dtype = WeightTarget(n, type)
      /\ \A v : v \notin Saved \X {"weight", "scale"} => Keeps(weights, m, v)
  BY <1>2, <1>3, SetsAreFinite, WeightsAreEnsured
<1> HIDE DEF weights
<1>5. DOMAIN weights.index \subseteq FileNames
  <2> SUFFICES ASSUME NEW v \in DOMAIN weights.index, v \notin Saved \X {"weight", "scale"}
               PROVE  v \in FileNames
    BY DEF FileNames
  <2>1. Has(weights, v) /\ Keeps(weights, m, v)
    BY <1>4 DEF Has
  <2>2. v \in DOMAIN m.index
    BY <2>1 DEF Keeps, Has
  <2> QED
    BY <1>2, <2>2
<1>6. C \subseteq Others \X {"other"} /\ \A v \in Others : <<v, "other">> \in C
  <2>1. C \subseteq Others \X {"other"}
    BY <1>5 DEF Convertible, FileNames
  <2>2. ASSUME NEW v \in Others PROVE <<v, "other">> \in C
    <3>1. Has(weights, <<v, "other">>)
      BY <1>2, <1>4 DEF Keeps
    <3> QED
      BY <3>1 DEF Convertible, Has
  <2> QED
    BY <2>1, <2>2
<1>7. IsFiniteSet(C)
  <2>1. IsFiniteSet(Others \X {"other"})
    BY SetsAreFinite, FS_Product, FS_Singleton
  <2> QED
    BY <1>6, <2>1, FS_Subset
<1>8. /\ Plain(r)
      /\ \A v : v \notin C => Keeps(r, weights, v)
      /\ \A v \in C :
           Has(r, v) /\ (IsFloat(Get(weights, v).dtype) => Get(r, v).dtype = FloatType(type))
  BY <1>4, <1>7, OthersAreConverted DEF r
<1> HIDE DEF C
<1>9. DOMAIN r.index \subseteq FileNames
  <2> SUFFICES ASSUME NEW v \in DOMAIN r.index, v \notin C PROVE v \in FileNames
    BY <1>6 DEF FileNames
  <2>1. v \in DOMAIN weights.index
    BY <1>8 DEF Keeps, Has
  <2> QED
    BY <1>5, <2>1
<1>10. ASSUME NEW n \in Saved PROVE Coherent(r, n) /\ WeightOf(r, n).dtype = WeightTarget(n, type)
  <2>1. \A role \in {"weight", "scale", "zero"} : Keeps(r, weights, <<n, role>>)
    BY <1>6, <1>8
  <2>2. Has(weights, <<n, "weight">>)
    BY <1>4 DEF Coherent
  <2> QED
    BY <1>4, <2>1, <2>2, LayersKeep
<1>11. ASSUME NEW v \in Others
       PROVE  Has(r, <<v, "other">>) /\ Get(r, <<v, "other">>).dtype = FloatType(type)
  <2>1. Keeps(weights, m, <<v, "other">>)
    BY <1>4
  <2>2. IsFloat(Get(weights, <<v, "other">>).dtype)
    BY <1>2, <2>1 DEF Keeps
  <2> QED
    BY <1>6, <1>8, <2>2
<1>12. Typed(r, type, f)
  BY <1>8, <1>9, <1>10, <1>11 DEF Typed
<1> QED
  BY <1>1, <1>12 DEF m

-----------------------------------------------------------------------------
(* The aliases.                                                            *)

LEMMA RegisterAliasIs ==
  ASSUME NEW m, Sound(m), NEW alias, ~Has(m, alias), NEW v
  PROVE  LET r == RegisterAlias(m, alias, v)
         IN  /\ Sound(r)
             /\ \A w : w # alias => Keeps(r, m, w)
             /\ Has(r, alias) <=> Has(m, v)
             /\ Has(m, v) => r.index[alias] = m.index[v] /\ Get(r, alias) = Get(m, v)
<1> DEFINE r == RegisterAlias(m, alias, v)
           index == [w \in DOMAIN m.index \cup {alias} |-> IF w = alias THEN m.index[v] ELSE m.index[w]]
<1>1. CASE ~Has(m, v)
  <2>1. r = m
    BY <1>1 DEF RegisterAlias
  <2>2. \A w : Keeps(m, m, w)
    BY DEF Keeps
  <2> QED
    BY <1>1, <2>1, <2>2
<1>2. CASE Has(m, v)
  <2>1. m = [index |-> m.index, store |-> m.store]
    BY DEF Sound
  <2>2. r = [m EXCEPT !.index = index]
    BY <1>2 DEF RegisterAlias, Extended
  <2> HIDE DEF r
  <2>3. r = [index |-> index, store |-> m.store]
    <3> HIDE DEF index
    <3> QED
      BY <2>1, <2>2
  <2>4. r.index = index /\ r.store = m.store
    BY <2>3
  <2>5. /\ DOMAIN r.index = DOMAIN m.index \cup {alias}
        /\ r.index[alias] = m.index[v]
        /\ \A w \in DOMAIN m.index : w # alias /\ r.index[w] = m.index[w]
        /\ r.index = [w \in DOMAIN r.index |-> r.index[w]]
    BY <2>4 DEF Has
  <2> HIDE DEF index
  <2>6. Sound(r)
    BY <1>2, <2>3, <2>4, <2>5 DEF Sound, Has
  <2>7. /\ \A w : w # alias => Keeps(r, m, w)
        /\ Has(r, alias) /\ Get(r, alias) = Get(m, v)
    BY <2>4, <2>5 DEF Has, Keeps, Get
  <2> QED
    BY <1>2, <2>5, <2>6, <2>7 DEF r
<1> QED
  BY <1>1, <1>2

AliasNames == (DOMAIN Aliases) \X AliasedRoles

(* An alias is another name of what its layer has.                         *)
LEMMA AliasesAreRegistered ==
  ASSUME NEW m, Plain(m), DOMAIN m.index \subseteq FileNames \cup (Saved \X {"zero"})
  PROVE  LET r == WithAliases(m, AliasNames)
         IN  /\ Sound(r)
             /\ \A v : v \notin AliasNames => Keeps(r, m, v)
             /\ \A a \in DOMAIN Aliases : \A role \in AliasedRoles :
                  /\ Has(r, <<a, role>>) <=> Has(m, <<Aliases[a], role>>)
                  /\ Has(m, <<Aliases[a], role>>) =>
                       /\ r.index[<<a, role>>] = <<Aliases[a], role>>
                       /\ Get(r, <<a, role>>) = Get(m, <<Aliases[a], role>>)
<1> DEFINE S == AliasNames
           Of(v) == <<Aliases[v[1]], v[2]>>
           r == WithAliases(m, S)
           Done(b, s) ==
             /\ Sound(b)
             /\ \A v : v \notin s => Keeps(b, m, v)
             /\ \A v \in s : /\ Has(b, v) <=> Has(m, Of(v))
                             /\ Has(m, Of(v)) => b.index[v] = m.index[Of(v)] /\ Get(b, v) = Get(m, Of(v))
<1>0. IsFiniteSet(S)
  <2>1. IsFiniteSet(AliasedRoles)
    <3>1. /\ IsFiniteSet({"weight"}) /\ IsFiniteSet({"scale"}) /\ IsFiniteSet({"zero"})
          /\ AliasedRoles = ({"weight"} \cup {"scale"}) \cup {"zero"}
      BY FS_Singleton DEF AliasedRoles
    <3>2. IsFiniteSet({"weight"} \cup {"scale"})
      BY <3>1, FS_Union
    <3> QED
      BY <3>1, <3>2, FS_Union
  <2> QED
    BY <2>1, SetsAreFinite, FS_Product DEF AliasNames
<1>1. PICK f : /\ LoopIs("alias", "none", m, S, f) /\ f[S] = r
  BY <1>0, AliasLoop
<1>2. ASSUME NEW v \in S PROVE ~Has(m, v) /\ Of(v) \notin S
  <2>1. PICK a \in DOMAIN Aliases, role \in AliasedRoles : v = <<a, role>>
    BY DEF AliasNames
  <2>2. Aliases[a] \in Saved /\ Saved \cap DOMAIN Aliases = {}
    BY ModelLoadingAssumption DEF Saved
  <2>3. v \notin FileNames \cup (Saved \X {"zero"})
    BY <2>1, <2>2 DEF FileNames, AliasedRoles
  <2>4. Of(v) = <<Aliases[a], role>>
    BY <2>1
  <2> QED
    BY <2>2, <2>3, <2>4 DEF Has, AliasNames
<1> HIDE DEF r, S, Of
<1> DEFINE Good == {s \in SUBSET S : Done(f[s], s)}
<1>3. /\ f[{}] = m
      /\ \A s \in SUBSET S : s # {} =>
           f[s] = RegisterAlias(f[s \ {Picked(s)}], Picked(s), Of(Picked(s)))
  <2>1. \A b, n : LoopStep("alias", "none", b, n) = RegisterAlias(b, n, Of(n))
    BY DEF LoopStep, Of
  <2>2. /\ f[{}] = m
        /\ \A s \in SUBSET S :
             s # {} => f[s] = LoopStep("alias", "none", f[s \ {Picked(s)}], Picked(s))
    <3>1. LoopIs("alias", "none", m, S, f)
      BY <1>1
    <3> QED
      BY ONLY <3>1, LoopUnfolds
  <2>3. ASSUME NEW s \in SUBSET S, s # {}
        PROVE  f[s] = RegisterAlias(f[s \ {Picked(s)}], Picked(s), Of(Picked(s)))
    BY <2>1, <2>2, <2>3, Zenon
  <2> QED
    BY <2>2, <2>3
<1>4. {} \in Good
  <2>1. Done(m, {})
    BY DEF Keeps, Plain
  <2> HIDE DEF Done
  <2> QED
    BY <1>3, <2>1
<1>5. ASSUME NEW s \in SUBSET S, s # {}, s \ {Picked(s)} \in Good
      PROVE  s \in Good
  <2>1. PICK n, t, a, b : n = Picked(s) /\ t = s \ {n} /\ a = f[t] /\ b = f[s]
    OBVIOUS
  <2>2. n \in s /\ n \in S /\ s = t \cup {n} /\ n \notin t /\ t \subseteq S
    <3>1. Picked(s) \in s
      BY <1>0, <1>5, PickedIs
    <3> QED
      BY <1>5, <2>1, <3>1
  <2>3. Done(a, t)
    <3> HIDE DEF Done
    <3> QED
      BY <1>5, <2>1
  <2>4. b = RegisterAlias(a, n, Of(n))
    BY <1>3, <1>5, <2>1
  <2>5. ~Has(a, n) /\ Keeps(a, m, Of(n))
    BY <1>2, <2>2, <2>3 DEF Keeps
  <2>6. /\ Sound(b)
        /\ \A w : w # n => Keeps(b, a, w)
        /\ Has(b, n) <=> Has(a, Of(n))
        /\ Has(a, Of(n)) => b.index[n] = a.index[Of(n)] /\ Get(b, n) = Get(a, Of(n))
    BY <2>3, <2>4, <2>5, RegisterAliasIs
  <2>7. ASSUME NEW v \in s
        PROVE  /\ Has(b, v) <=> Has(m, Of(v))
               /\ Has(m, Of(v)) => b.index[v] = m.index[Of(v)] /\ Get(b, v) = Get(m, Of(v))
    <3>1. CASE v = n
      BY <2>5, <2>6, <3>1 DEF Keeps
    <3>2. CASE v # n
      <4>1. v \in t /\ Keeps(b, a, v)
        BY <2>1, <2>6, <3>2
      <4> QED
        BY <2>3, <4>1 DEF Keeps
    <3> QED
      BY <3>1, <3>2
  <2>8. ASSUME NEW v, v \notin s PROVE Keeps(b, m, v)
    <3>1. Keeps(b, a, v) /\ Keeps(a, m, v)
      BY <2>2, <2>3, <2>6, <2>8
    <3> QED
      BY <3>1 DEF Keeps
  <2>9. Done(b, s)
    BY <2>6, <2>7, <2>8
  <2> HIDE DEF Done
  <2> QED
    BY <2>1, <2>9
<1>6. S \in Good
  <2> HIDE DEF Good
  <2> QED
    BY <1>0, <1>4, <1>5, SubsetInduction
<1>7. Done(r, S)
  BY <1>1, <1>6
<1>8. ASSUME NEW a \in DOMAIN Aliases, NEW role \in AliasedRoles
      PROVE  /\ Has(r, <<a, role>>) <=> Has(m, <<Aliases[a], role>>)
             /\ Has(m, <<Aliases[a], role>>) =>
                  /\ r.index[<<a, role>>] = <<Aliases[a], role>>
                  /\ Get(r, <<a, role>>) = Get(m, <<Aliases[a], role>>)
  <2>1. <<a, role>> \in S /\ Of(<<a, role>>) = <<Aliases[a], role>>
    BY DEF S, AliasNames, Of
  <2>2. Has(m, <<Aliases[a], role>>) => m.index[<<Aliases[a], role>>] = <<Aliases[a], role>>
    BY DEF Plain, Has
  <2> QED
    BY <1>7, <2>1, <2>2
<1> QED
  BY <1>7, <1>8 DEF r, S

(* What RegisterAliases leaves.                                            *)
Aliased(m, type, f) ==
  /\ Sound(m)
  /\ \A v \in DOMAIN m.index : v[2] \notin {"packed", "compensation"}
                                 /\ m.index[v][2] \notin {"packed", "compensation"}
  /\ \A n \in Layers : Coherent(m, n) /\ m.index[<<n, "weight">>] = <<Original(n), "weight">>
  /\ ~f.awq => /\ \A n \in Layers : WeightOf(m, n).dtype = WeightTarget(Original(n), type)
               /\ \A v \in Others : /\ Has(m, <<v, "other">>)
                                    /\ Get(m, <<v, "other">>).dtype = FloatType(type)

LEMMA TypedIsAliased ==
  ASSUME NEW m, NEW type, NEW f, Typed(m, type, f)
  PROVE  Aliased(WithAliases(m, AliasNames), type, f)
<1> DEFINE r == WithAliases(m, AliasNames)
<1>1. /\ Plain(m) /\ DOMAIN m.index \subseteq FileNames \cup (Saved \X {"zero"})
      /\ \A n \in Saved : Coherent(m, n)
  BY DEF Typed
<1>2. /\ Sound(r)
      /\ \A v : v \notin AliasNames => Keeps(r, m, v)
      /\ \A a \in DOMAIN Aliases : \A role \in AliasedRoles :
           /\ Has(r, <<a, role>>) <=> Has(m, <<Aliases[a], role>>)
           /\ Has(m, <<Aliases[a], role>>) =>
                /\ r.index[<<a, role>>] = <<Aliases[a], role>>
                /\ Get(r, <<a, role>>) = Get(m, <<Aliases[a], role>>)
  BY <1>1, AliasesAreRegistered
<1> HIDE DEF r
<1>3. ASSUME NEW v \in DOMAIN r.index
      PROVE  v[2] \notin {"packed", "compensation"} /\ r.index[v][2] \notin {"packed", "compensation"}
  <2>1. CASE v \in AliasNames
    <3>1. PICK a \in DOMAIN Aliases, role \in AliasedRoles : v = <<a, role>>
      BY <2>1 DEF AliasNames
    <3>2. r.index[v] = <<Aliases[a], role>>
      BY <1>2, <3>1 DEF Has
    <3> QED
      BY <3>1, <3>2 DEF AliasedRoles
  <2>2. CASE v \notin AliasNames
    <3>1. Keeps(r, m, v) /\ Has(r, v)
      BY <1>2, <2>2 DEF Has
    <3>2. v \in DOMAIN m.index /\ r.index[v] = v
      BY <1>1, <3>1 DEF Keeps, Has, Plain
    <3>3. v \in FileNames \cup (Saved \X {"zero"})
      BY <1>1, <3>2
    <3>4. v[2] \notin {"packed", "compensation"}
      BY <3>3 DEF FileNames
    <3> QED
      BY <3>2, <3>4
  <2> QED
    BY <2>1, <2>2
<1>4. ASSUME NEW n \in Layers
      PROVE  /\ Coherent(r, n) /\ r.index[<<n, "weight">>] = <<Original(n), "weight">>
             /\ WeightOf(r, n) = WeightOf(m, Original(n))
             /\ Original(n) \in Saved
  <2>1. CASE n \in DOMAIN Aliases
    <3>1. Original(n) = Aliases[n] /\ Aliases[n] \in Saved
      BY <2>1, ModelLoadingAssumption DEF Original, Saved
    <3>2. Coherent(m, Aliases[n])
      BY <1>1, <3>1
    <3>3. "weight" \in AliasedRoles /\ "scale" \in AliasedRoles /\ "zero" \in AliasedRoles
      BY DEF AliasedRoles
    <3>4. /\ Has(r, <<n, "weight">>) <=> Has(m, <<Aliases[n], "weight">>)
          /\ Has(r, <<n, "scale">>) <=> Has(m, <<Aliases[n], "scale">>)
          /\ Has(r, <<n, "zero">>) <=> Has(m, <<Aliases[n], "zero">>)
          /\ Has(m, <<Aliases[n], "weight">>) =>
               /\ WeightOf(r, n) = WeightOf(m, Aliases[n])
               /\ r.index[<<n, "weight">>] = <<Aliases[n], "weight">>
          /\ Has(m, <<Aliases[n], "scale">>) => ScaleOf(r, n) = ScaleOf(m, Aliases[n])
      BY <1>2, <2>1, <3>3 DEF WeightOf, ScaleOf
    <3> QED
      BY <3>1, <3>2, <3>4 DEF Coherent
  <2>2. CASE n \notin DOMAIN Aliases
    <3>1. Original(n) = n /\ n \in Saved
      BY <2>2 DEF Original, Layers
    <3>2. \A role : Keeps(r, m, <<n, role>>)
      BY <1>2, <2>2 DEF AliasNames
    <3>3. Coherent(m, n)
      BY <1>1, <3>1
    <3>4. Has(m, <<n, "weight">>)
      BY <3>3 DEF Coherent
    <3>5. Coherent(r, n) /\ WeightOf(r, n) = WeightOf(m, n)
      BY <3>2, <3>3, <3>4, LayersKeep
    <3>6. r.index[<<n, "weight">>] = <<n, "weight">>
      BY <1>1, <3>2, <3>4 DEF Keeps, Plain, Has
    <3> QED
      BY <3>1, <3>5, <3>6
  <2> QED
    BY <2>1, <2>2
<1>5. ASSUME ~f.awq, NEW n \in Layers PROVE WeightOf(r, n).dtype = WeightTarget(Original(n), type)
  BY <1>4, <1>5 DEF Typed
<1>6. ASSUME ~f.awq, NEW v \in Others
      PROVE  Has(r, <<v, "other">>) /\ Get(r, <<v, "other">>).dtype = FloatType(type)
  <2>1. Keeps(r, m, <<v, "other">>)
    BY <1>2 DEF AliasNames, AliasedRoles
  <2> QED
    BY <1>6, <2>1 DEF Typed, Keeps
<1> QED
  BY <1>2, <1>3, <1>4, <1>5, <1>6 DEF Aliased, r

-----------------------------------------------------------------------------
(* process_linear_weights.                                                 *)

Roles == {"packed", "compensation"}

(* A packed weight or a compensation has no other name. *)
OwnForms(m) == \A v \in DOMAIN m.index : m.index[v][2] \in Roles => m.index[v] = v

(* What is done to one layer. *)
LayerPacked(r, m, n) ==
  LET weight == WeightOf(m, n)
  IN  /\ Has(r, <<n, "compensation">>) <=> weight.dtype = "int8" /\ PrefersU8(platform)
      /\ Has(r, <<n, "compensation">>) => Get(r, <<n, "compensation">>).of = weight.of
      /\ IF PacksWeights(platform, effective) /\ IsPacked(n)
           THEN /\ Has(r, <<n, "packed">>) /\ Get(r, <<n, "packed">>) = weight
                /\ ~Has(r, <<n, "weight">>)
           ELSE ~Has(r, <<n, "packed">>) /\ Keeps(r, m, <<n, "weight">>)

LEMMA LayerIsPacked ==
  ASSUME NEW m, Sound(m), OwnForms(m), NEW n,
         Has(m, <<n, "weight">>), ~Has(m, <<n, "packed">>), ~Has(m, <<n, "compensation">>)
  PROVE  LET r == Packed(Compensated(m, n), n)
         IN  /\ Sound(r) /\ OwnForms(r) /\ LayerPacked(r, m, n)
             /\ \A v : v \notin {n} \X {"weight", "packed", "compensation"} => Keeps(r, m, v)
<1> DEFINE w == <<n, "weight">>
           p == <<n, "packed">>
           c == <<n, "compensation">>
           weight == Get(m, w)
           b == Compensated(m, n)
           r == Packed(b, n)
<1>1. /\ w # p /\ w # c /\ p # c /\ p[2] \in Roles /\ c[2] \in Roles /\ w[2] \notin Roles
      /\ {n} \X {"weight", "packed", "compensation"} = {w, p, c}
  BY DEF Roles
<1>2. /\ Sound(m) /\ OwnForms(m) /\ Has(m, w) /\ ~Has(m, p) /\ ~Has(m, c)
  OBVIOUS
<1>3. ASSUME NEW a, Sound(a), OwnForms(a), NEW v, ~Has(a, v), v[2] \in Roles, NEW value
      PROVE  LET e == Register(a, v, value)
             IN  /\ Sound(e) /\ OwnForms(e) /\ Has(e, v) /\ Get(e, v) = value
                 /\ \A u : u # v => Keeps(e, a, u)
  <2> DEFINE e == Register(a, v, value)
  <2>1. \A u \in DOMAIN a.index : a.index[u] = v => Has(a, v)
    BY <1>3 DEF OwnForms, Has
  <2>2. /\ Sound(e) /\ Has(e, v) /\ e.index[v] = v /\ Get(e, v) = value
        /\ \A u : u # v => Keeps(e, a, u)
    BY <1>3, <2>1, RegisterIs
  <2> HIDE DEF e
  <2>3. ASSUME NEW u \in DOMAIN e.index, e.index[u][2] \in Roles PROVE e.index[u] = u
    <3>1. CASE u = v
      BY <2>2, <3>1
    <3>2. CASE u # v
      <4>1. u \in DOMAIN a.index /\ e.index[u] = a.index[u]
        BY <2>2, <3>2 DEF Keeps, Has
      <4> QED
        BY <1>3, <2>3, <4>1 DEF OwnForms
    <3> QED
      BY <3>1, <3>2
  <2>4. OwnForms(e)
    BY <2>3 DEF OwnForms
  <2> QED
    BY <2>2, <2>4 DEF e
<1> HIDE DEF w, p, c
<1>4. /\ Sound(b) /\ OwnForms(b)
      /\ Has(b, c) <=> weight.dtype = "int8" /\ PrefersU8(platform)
      /\ Has(b, c) => Get(b, c).of = weight.of
      /\ \A u : u # c => Keeps(b, m, u)
  <2> DEFINE value == Value("int32", weight.of)
  <2>1. CASE weight.dtype = "int8" /\ PrefersU8(platform)
    <3>1. b = Register(m, c, value)
      BY <2>1 DEF Compensated, w, c
    <3>2. value.of = weight.of
      BY DEF Value
    <3> HIDE DEF b, value
    <3>3. /\ Sound(b) /\ OwnForms(b) /\ Has(b, c) /\ Get(b, c) = value
          /\ \A u : u # c => Keeps(b, m, u)
      BY <1>1, <1>2, <1>3, <3>1
    <3> QED
      BY <2>1, <3>2, <3>3
  <2>2. CASE ~(weight.dtype = "int8" /\ PrefersU8(platform))
    <3>1. b = m
      BY <2>2 DEF Compensated, w
    <3>2. \A u : Keeps(m, m, u)
      BY DEF Keeps
    <3> HIDE DEF b
    <3> QED
      BY <1>2, <2>2, <3>1, <3>2
  <2> QED
    BY <2>1, <2>2
<1> HIDE DEF b
<1>5. Has(b, w) /\ Get(b, w) = weight /\ ~Has(b, p) /\ Keeps(b, m, w)
  BY <1>1, <1>2, <1>4 DEF Keeps
<1>6. CASE PacksWeights(platform, effective) /\ IsPacked(n)
  <2> DEFINE e == Register(b, p, weight)
  <2>1. r = RemoveVariable(e, w)
    BY <1>5, <1>6 DEF Packed, w, p
  <2>2. /\ Sound(e) /\ OwnForms(e) /\ Has(e, p) /\ Get(e, p) = weight
        /\ \A u : u # p => Keeps(e, b, u)
    BY <1>1, <1>3, <1>4, <1>5
  <2> HIDE DEF e, r
  <2>3. Sound(r) /\ ~Has(r, w) /\ \A u : u # w => Keeps(r, e, u)
    BY <2>1, <2>2, RemoveIs
  <2>4. OwnForms(r)
    <3> SUFFICES ASSUME NEW u \in DOMAIN r.index, r.index[u][2] \in Roles PROVE r.index[u] = u
      BY DEF OwnForms
    <3>1. u # w
      BY <2>3 DEF Has
    <3>2. u \in DOMAIN e.index /\ r.index[u] = e.index[u]
      BY <2>3, <3>1 DEF Keeps, Has
    <3> QED
      BY <2>2, <3>2 DEF OwnForms
  <2>5. Has(r, p) /\ Get(r, p) = weight
    BY <1>1, <2>2, <2>3 DEF Keeps
  <2>6. (Has(r, c) <=> Has(b, c)) /\ (Has(b, c) => Get(r, c) = Get(b, c))
    BY <1>1, <2>2, <2>3 DEF Keeps
  <2>7. LayerPacked(r, m, n)
    BY <1>4, <1>6, <2>3, <2>5, <2>6 DEF LayerPacked, WeightOf, w, p, c
  <2>8. ASSUME NEW v, v \notin {w, p, c} PROVE Keeps(r, m, v)
    <3>1. Keeps(b, m, v) /\ Keeps(e, b, v) /\ Keeps(r, e, v)
      BY <1>4, <2>2, <2>3, <2>8
    <3> QED
      BY <3>1 DEF Keeps
  <2> QED
    BY <1>1, <2>3, <2>4, <2>7, <2>8 DEF r, b
<1>7. CASE ~(PacksWeights(platform, effective) /\ IsPacked(n))
  <2>1. r = b
    BY <1>7, Zenon DEF Packed
  <2>2. LayerPacked(b, m, n)
    BY <1>4, <1>5, <1>7 DEF LayerPacked, WeightOf, w, p, c
  <2> QED
    BY <1>1, <1>4, <2>1, <2>2 DEF r, b
<1> QED
  BY <1>6, <1>7

ToPack == {n \in Layers : IsLinear(n)}

LEMMA LayersArePacked ==
  ASSUME NEW m, NEW type, NEW f, Aliased(m, type, f)
  PROVE  LET r == WithPacked(m, ToPack)
         IN  /\ \A n \in ToPack : LayerPacked(r, m, n)
             /\ \A v : v \notin ToPack \X {"weight", "packed", "compensation"} => Keeps(r, m, v)
<1> DEFINE S == ToPack
           r == WithPacked(m, S)
           Done(a, s) ==
             /\ Sound(a) /\ OwnForms(a)
             /\ \A n \in s : LayerPacked(a, m, n)
             /\ \A v : v \notin s \X {"weight", "packed", "compensation"} => Keeps(a, m, v)
<1>0. IsFiniteSet(S)
  <2>1. IsFiniteSet(Layers)
    BY SetsAreFinite, FS_Union DEF Layers
  <2> QED
    BY <2>1, FS_Subset DEF ToPack
<1>1. PICK g : /\ LoopIs("pack", "none", m, S, g) /\ g[S] = r
  BY <1>0, PackLoop
<1>2. Sound(m) /\ OwnForms(m)
  BY DEF Aliased, OwnForms, Roles
<1>3. \A n \in S : Has(m, <<n, "weight">>) /\ ~Has(m, <<n, "packed">>) /\ ~Has(m, <<n, "compensation">>)
  BY DEF Aliased, Coherent, Has, ToPack
<1> HIDE DEF r, S
<1> DEFINE Good == {s \in SUBSET S : Done(g[s], s)}
<1>4. /\ g[{}] = m
      /\ \A s \in SUBSET S : s # {} =>
           g[s] = Packed(Compensated(g[s \ {Picked(s)}], Picked(s)), Picked(s))
  <2>1. \A a, n : LoopStep("pack", "none", a, n) = Packed(Compensated(a, n), n)
    BY DEF LoopStep
  <2>2. LoopIs("pack", "none", m, S, g)
    BY <1>1
  <2>3. /\ g[{}] = m
        /\ \A s \in SUBSET S :
             s # {} => g[s] = LoopStep("pack", "none", g[s \ {Picked(s)}], Picked(s))
    BY ONLY <2>2, LoopUnfolds
  <2> QED
    BY <2>1, <2>3
<1>5. {} \in Good
  <2>1. Done(m, {})
    BY <1>2 DEF Keeps
  <2> HIDE DEF Done
  <2> QED
    BY <1>4, <2>1
<1>6. ASSUME NEW s \in SUBSET S, s # {}, s \ {Picked(s)} \in Good
      PROVE  s \in Good
  <2>1. PICK n, t, a, b : n = Picked(s) /\ t = s \ {n} /\ a = g[t] /\ b = g[s]
    OBVIOUS
  <2>2. n \in s /\ n \in S /\ s = t \cup {n} /\ n \notin t
    <3>1. Picked(s) \in s
      BY <1>0, <1>6, PickedIs
    <3> QED
      BY <1>6, <2>1, <3>1
  <2>3. Done(a, t)
    <3> HIDE DEF Done
    <3> QED
      BY <1>6, <2>1
  <2>4. b = Packed(Compensated(a, n), n)
    BY <1>4, <1>6, <2>1
  <2>5. \A role : Keeps(a, m, <<n, role>>)
    BY <2>2, <2>3
  <2>6. /\ Has(a, <<n, "weight">>) /\ WeightOf(a, n) = WeightOf(m, n)
        /\ ~Has(a, <<n, "packed">>) /\ ~Has(a, <<n, "compensation">>)
    BY <1>3, <2>2, <2>5 DEF Keeps, WeightOf
  <2>7. /\ Sound(b) /\ OwnForms(b) /\ LayerPacked(b, a, n)
        /\ \A v : v \notin {n} \X {"weight", "packed", "compensation"} => Keeps(b, a, v)
    BY <2>3, <2>4, <2>6, LayerIsPacked
  <2>8. ASSUME NEW k \in s PROVE LayerPacked(b, m, k)
    <3>1. CASE k = n
      <4>1. Keeps(b, a, <<n, "weight">>) => Keeps(b, m, <<n, "weight">>)
        BY <2>5 DEF Keeps
      <4> QED
        BY <2>6, <2>7, <3>1, <4>1 DEF LayerPacked
    <3>2. CASE k # n
      <4>1. \A role : Keeps(b, a, <<k, role>>)
        BY <2>7, <3>2
      <4>2. LayerPacked(a, m, k)
        BY <2>1, <2>3, <3>2
      <4>3. Keeps(a, m, <<k, "weight">>) => Keeps(b, m, <<k, "weight">>)
        BY <4>1 DEF Keeps
      <4>4. /\ Keeps(b, a, <<k, "weight">>) /\ Keeps(b, a, <<k, "packed">>)
            /\ Keeps(b, a, <<k, "compensation">>)
        BY <4>1
      <4>5. /\ Has(b, <<k, "weight">>) <=> Has(a, <<k, "weight">>)
            /\ Has(b, <<k, "packed">>) <=> Has(a, <<k, "packed">>)
            /\ Has(b, <<k, "compensation">>) <=> Has(a, <<k, "compensation">>)
            /\ Has(a, <<k, "packed">>) => Get(b, <<k, "packed">>) = Get(a, <<k, "packed">>)
            /\ Has(a, <<k, "compensation">>) =>
                 Get(b, <<k, "compensation">>) = Get(a, <<k, "compensation">>)
        BY <4>4 DEF Keeps
      <4> QED
        BY <4>2, <4>3, <4>5 DEF LayerPacked
    <3> QED
      BY <3>1, <3>2
  <2>9. ASSUME NEW v, v \notin s \X {"weight", "packed", "compensation"} PROVE Keeps(b, m, v)
    <3>1. Keeps(b, a, v)
      BY <2>2, <2>7, <2>9
    <3>2. Keeps(a, m, v)
      BY <2>1, <2>3, <2>9
    <3> QED
      BY <3>1, <3>2 DEF Keeps
  <2>10. Done(b, s)
    BY <2>7, <2>8, <2>9
  <2> HIDE DEF Done
  <2> QED
    BY <2>1, <2>10
<1>7. S \in Good
  <2> HIDE DEF Good
  <2> QED
    BY <1>0, <1>5, <1>6, SubsetInduction
<1>8. Done(r, S)
  BY <1>1, <1>7
<1> QED
  BY <1>8 DEF r, S

-----------------------------------------------------------------------------
(* What the layers find.                                                   *)

WeightName(m, n) ==
  IF IsLinear(n) /\ ~IsConv(n) /\ Has(m, <<n, "packed">>) THEN <<n, "packed">> ELSE <<n, "weight">>

FoundBy(m, n) ==
  LET weight == Get(m, WeightName(m, n))
      scale  == <<n, "scale">>
  IN  /\ Has(m, <<n, "weight">>) /\ Has(m, <<Original(n), "weight">>)
           => m.index[<<n, "weight">>] = m.index[<<Original(n), "weight">>]
      /\ Has(m, WeightName(m, n))
      /\ n \in Masked => ~Has(m, <<n, "packed">>)
      /\ IF IsFloat(weight.dtype) THEN ~Has(m, scale)
         ELSE Has(m, scale) /\ Get(m, scale).of = weight.of
      /\ weight.dtype = "int8" /\ IsLinear(n) /\ ~IsConv(n)
           /\ platform.device = "CPU" /\ PrefersU8(platform)
           => /\ Has(m, <<n, "compensation">>)
              /\ Get(m, <<n, "compensation">>).of = weight.of
      /\ weight.dtype = "int32" => Has(m, <<n, "zero">>)
      /\ ~file.awq => weight.dtype = WeightTarget(Original(n), effective)

Found(m) ==
  /\ \A n \in Layers : FoundBy(m, n)
  /\ ~file.awq => \A v \in Others : /\ Has(m, <<v, "other">>)
                                    /\ Get(m, <<v, "other">>).dtype = FloatType(effective)

(* The weight of a layer, with the names that the layer looks up. *)
LayerHasWeight(r, m, n) ==
  /\ Has(r, WeightName(r, n)) /\ Get(r, WeightName(r, n)) = WeightOf(m, n)
  /\ Has(r, <<n, "weight">>) => r.index[<<n, "weight">>] = <<Original(n), "weight">>
  /\ n \in Masked => ~Has(r, <<n, "packed">>)
  /\ Keeps(r, m, <<n, "scale">>) /\ Keeps(r, m, <<n, "zero">>)
  /\ WeightOf(m, n).dtype = "int8" /\ IsLinear(n) /\ ~IsConv(n)
       /\ platform.device = "CPU" /\ PrefersU8(platform)
       => /\ Has(r, <<n, "compensation">>)
          /\ Get(r, <<n, "compensation">>).of = WeightOf(m, n).of

LEMMA OriginalsAreSaved ==
  ASSUME NEW n \in Layers
  PROVE  Original(n) \in Layers /\ Original(Original(n)) = Original(n)
BY ModelLoadingAssumption DEF Layers, Original, Saved

LEMMA LayersHaveWeights ==
  ASSUME NEW r, NEW m, NEW f, Aliased(m, effective, f), f = file,
         \A n \in Layers : LayerHasWeight(r, m, n),
         \A v \in Others : Keeps(r, m, <<v, "other">>)
  PROVE  Found(r)
<1>1. ASSUME NEW n \in Layers PROVE FoundBy(r, n)
  <2>1. /\ Coherent(m, n) /\ (~file.awq => WeightOf(m, n).dtype = WeightTarget(Original(n), effective))
    BY DEF Aliased
  <2>2. LayerHasWeight(r, m, n) /\ LayerHasWeight(r, m, Original(n))
    BY OriginalsAreSaved
  <2>3. Has(r, <<n, "weight">>) /\ Has(r, <<Original(n), "weight">>)
           => r.index[<<n, "weight">>] = r.index[<<Original(n), "weight">>]
    BY <2>2, OriginalsAreSaved DEF LayerHasWeight
  <2>4. /\ Has(r, <<n, "scale">>) <=> Has(m, <<n, "scale">>)
        /\ Has(m, <<n, "scale">>) => Get(r, <<n, "scale">>) = ScaleOf(m, n)
        /\ Has(r, <<n, "zero">>) <=> Has(m, <<n, "zero">>)
    BY <2>2 DEF LayerHasWeight, Keeps, ScaleOf
  <2>5. /\ Has(r, WeightName(r, n)) /\ Get(r, WeightName(r, n)) = WeightOf(m, n)
        /\ n \in Masked => ~Has(r, <<n, "packed">>)
        /\ WeightOf(m, n).dtype = "int8" /\ IsLinear(n) /\ ~IsConv(n)
             /\ platform.device = "CPU" /\ PrefersU8(platform)
             => /\ Has(r, <<n, "compensation">>)
                /\ Get(r, <<n, "compensation">>).of = WeightOf(m, n).of
    BY <2>2 DEF LayerHasWeight
  <2>6. /\ IF IsFloat(WeightOf(m, n).dtype) THEN ~Has(m, <<n, "scale">>)
           ELSE Has(m, <<n, "scale">>) /\ ScaleOf(m, n).of = WeightOf(m, n).of
        /\ WeightOf(m, n).dtype = "int32" => Has(m, <<n, "zero">>)
    BY <2>1 DEF Coherent
  <2> QED
    BY <2>1, <2>3, <2>4, <2>5, <2>6 DEF FoundBy
<1>2. ASSUME ~file.awq, NEW v \in Others
      PROVE  Has(r, <<v, "other">>) /\ Get(r, <<v, "other">>).dtype = FloatType(effective)
  BY <1>2 DEF Aliased, Keeps
<1> QED
  BY <1>1, <1>2 DEF Found

(* The weights are left alone on other devices than the CPU. *)
LEMMA LoadedIsFound ==
  ASSUME NEW m, Aliased(m, effective, file)
  PROVE  /\ platform.device # "CPU" => Found(m)
         /\ Found(WithPacked(m, ToPack))
<1>1. ASSUME NEW n \in Layers
      PROVE  /\ Has(m, <<n, "weight">>) /\ m.index[<<n, "weight">>] = <<Original(n), "weight">>
             /\ ~Has(m, <<n, "packed">>)
  BY DEF Aliased, Coherent, Has
<1>2. ASSUME platform.device # "CPU" PROVE Found(m)
  <2>1. ASSUME NEW n \in Layers PROVE LayerHasWeight(m, m, n)
    <3>1. WeightName(m, n) = <<n, "weight">>
      BY <1>1 DEF WeightName
    <3> QED
      BY <1>1, <1>2, <3>1 DEF LayerHasWeight, Keeps, WeightOf
  <2>2. \A v \in Others : Keeps(m, m, <<v, "other">>)
    BY DEF Keeps
  <2> QED
    BY <2>1, <2>2, LayersHaveWeights
<1>3. Found(WithPacked(m, ToPack))
  <2> DEFINE r == WithPacked(m, ToPack)
  <2>1. /\ \A n \in ToPack : LayerPacked(r, m, n)
        /\ \A v : v \notin ToPack \X {"weight", "packed", "compensation"} => Keeps(r, m, v)
    BY LayersArePacked
  <2> HIDE DEF r
  <2>2. ASSUME NEW n \in Layers PROVE LayerHasWeight(r, m, n)
    <3>1. Keeps(r, m, <<n, "scale">>) /\ Keeps(r, m, <<n, "zero">>)
      BY <2>1
    <3>2. CASE IsLinear(n)
      <4>1. LayerPacked(r, m, n)
        BY <2>1, <3>2 DEF ToPack
      <4>2. WeightOf(m, n).dtype = "int8" /\ PrefersU8(platform) =>
              /\ Has(r, <<n, "compensation">>)
              /\ Get(r, <<n, "compensation">>).of = WeightOf(m, n).of
        BY <4>1 DEF LayerPacked
      <4>3. CASE PacksWeights(platform, effective) /\ IsPacked(n)
        <5>1. /\ Has(r, <<n, "packed">>) /\ Get(r, <<n, "packed">>) = WeightOf(m, n)
              /\ ~Has(r, <<n, "weight">>)
          BY <4>1, <4>3 DEF LayerPacked
        <5>2. n \notin Masked /\ ~IsConv(n)
          BY <4>3 DEF IsPacked
        <5>3. WeightName(r, n) = <<n, "packed">>
          BY <3>2, <5>1, <5>2 DEF WeightName
        <5> QED
          BY <3>1, <4>2, <5>1, <5>2, <5>3 DEF LayerHasWeight
      <4>4. CASE ~(PacksWeights(platform, effective) /\ IsPacked(n))
        <5>1. ~Has(r, <<n, "packed">>) /\ Keeps(r, m, <<n, "weight">>)
          BY <4>1, <4>4 DEF LayerPacked
        <5>2. WeightName(r, n) = <<n, "weight">>
          BY <5>1 DEF WeightName
        <5>3. /\ Has(r, <<n, "weight">>) /\ Get(r, <<n, "weight">>) = WeightOf(m, n)
              /\ r.index[<<n, "weight">>] = <<Original(n), "weight">>
          BY <1>1, <5>1 DEF Keeps, WeightOf
        <5> QED
          BY <3>1, <4>2, <5>1, <5>2, <5>3 DEF LayerHasWeight
      <4> QED
        BY <4>3, <4>4
    <3>3. CASE ~IsLinear(n)
      <4>1. n \notin ToPack
        BY <3>3 DEF ToPack
      <4>2. Keeps(r, m, <<n, "weight">>) /\ Keeps(r, m, <<n, "packed">>)
        BY <2>1, <4>1
      <4>3. WeightName(r, n) = <<n, "weight">>
        BY <3>3 DEF WeightName
      <4>4. /\ Has(r, <<n, "weight">>) /\ Get(r, <<n, "weight">>) = WeightOf(m, n)
            /\ r.index[<<n, "weight">>] = <<Original(n), "weight">>
            /\ ~Has(r, <<n, "packed">>)
        BY <1>1, <4>2 DEF Keeps, WeightOf
      <4> QED
        BY <3>1, <3>3, <4>3, <4>4 DEF LayerHasWeight
    <3> QED
      BY <3>2, <3>3
  <2>3. ASSUME NEW v \in Others PROVE Keeps(r, m, <<v, "other">>)
    BY <2>1
  <2> QED
    BY <2>2, <2>3, LayersHaveWeights DEF r
<1> QED
  BY <1>2, <1>3

(* A copy has the same names, the same values, and the same sharing.       *)
LEMMA CopiesAreFound ==
  ASSUME NEW m, Found(m), NEW r,
         r.index = [v \in DOMAIN m.index |-> CopyOf(m, v)],
         r.store = [names \in Range(r.index) |-> Get(m, CHOOSE v \in names : TRUE)]
  PROVE  Found(r)
<1>1. \A v : Has(r, v) <=> Has(m, v)
  BY DEF Has
<1>2. ASSUME NEW v, Has(m, v) PROVE Get(r, v) = Get(m, v)
  <2>1. r.index[v] = CopyOf(m, v) /\ r.index[v] \in Range(r.index)
    BY <1>2 DEF Has, Range
  <2>2. v \in CopyOf(m, v)
    BY <1>2 DEF CopyOf, Has
  <2>3. PICK u : u = CHOOSE x \in CopyOf(m, v) : TRUE
    OBVIOUS
  <2>4. u \in CopyOf(m, v)
    BY <2>2, <2>3
  <2>5. Get(r, v) = Get(m, u)
    BY <2>1, <2>3 DEF Get
  <2> QED
    BY <2>4, <2>5 DEF CopyOf, Get
<1>3. ASSUME NEW v, NEW w, Has(m, v), Has(m, w), m.index[v] = m.index[w] PROVE r.index[v] = r.index[w]
  <2>1. r.index[v] = CopyOf(m, v) /\ r.index[w] = CopyOf(m, w)
    BY <1>3 DEF Has
  <2>2. CopyOf(m, v) = CopyOf(m, w)
    BY <1>3 DEF CopyOf
  <2> QED
    BY <2>1, <2>2
<1>4. ASSUME NEW n \in Layers PROVE FoundBy(r, n)
  <2>1. FoundBy(m, n)
    BY DEF Found
  <2>2. WeightName(r, n) = WeightName(m, n)
    BY <1>1 DEF WeightName
  <2>3. Has(m, WeightName(m, n)) /\ Get(r, WeightName(r, n)) = Get(m, WeightName(m, n))
    BY <1>2, <2>1, <2>2 DEF FoundBy
  <2>4. /\ Has(m, <<n, "scale">>) => Get(r, <<n, "scale">>) = Get(m, <<n, "scale">>)
        /\ Has(m, <<n, "compensation">>) => Get(r, <<n, "compensation">>) = Get(m, <<n, "compensation">>)
    BY <1>2
  <2>5. Has(r, <<n, "weight">>) /\ Has(r, <<Original(n), "weight">>)
           => r.index[<<n, "weight">>] = r.index[<<Original(n), "weight">>]
    BY <1>1, <1>3, <2>1 DEF FoundBy
  <2> QED
    BY <1>1, <2>1, <2>2, <2>3, <2>4, <2>5 DEF FoundBy
<1>5. ASSUME ~file.awq, NEW v \in Others
      PROVE  Has(r, <<v, "other">>) /\ Get(r, <<v, "other">>).dtype = FloatType(effective)
  BY <1>1, <1>2, <1>5 DEF Found
<1> QED
  BY <1>4, <1>5 DEF Found

-----------------------------------------------------------------------------
(* What a load has decided of the type: the variables are those of the     *)
(* file until set_compute_type, which resolves the request with the type   *)
(* that it infers, and refuses what resolves to nothing, or flash          *)
(* attention in float32.                                                   *)
TypeDecided ==
  /\ platform \in Platforms /\ request \in Requests /\ flash \in BOOLEAN /\ file \in Files
  /\ phase = "read" => model = Read(file)
  /\ phase # "read" /\ ~file.awq =>
       /\ saved \in SavedTypes
       /\ LET type == Resolve(request, saved, platform)
          IN  IF phase = "refused"
                THEN type = Refused \/ (flash /\ FloatType(type) = "float32")
                ELSE type # Refused /\ effective = type

LEMMA InferredIsType == \A m : Inferred(m) \subseteq SavedTypes
<1>1. \A weight, float : TypeOf(weight, float) \in SavedTypes
  <2> SUFFICES ASSUME NEW weight, NEW float PROVE TypeOf(weight, float) \in SavedTypes
    OBVIOUS
  <2>1. Int8With(float) \in {"int8_float32", "int8_float16", "int8_bfloat16"}
    BY Zenon DEF Int8With
  <2>2. /\ Int8With(float) \in SavedTypes /\ "float32" \in SavedTypes
        /\ "int16" \in SavedTypes /\ "float16" \in SavedTypes /\ "bfloat16" \in SavedTypes
    BY <2>1, TypesAre
  <2>3. TypeOf(weight, float) \in {Int8With(float), weight, "float32"}
          /\ (TypeOf(weight, float) = weight =>
                 weight \in {"int16", "float16", "bfloat16", "float32", Int8With(float)})
    BY Zenon DEF TypeOf
  <2> QED
    BY <2>2, <2>3
<1> QED
  <2> SUFFICES ASSUME NEW m, NEW type \in Inferred(m) PROVE type \in SavedTypes
    OBVIOUS
  <2>1. PICK n \in Saved, float \in OtherTypes(m) : type = TypeOf(Get(m, <<n, "weight">>).dtype, float)
    BY DEF Inferred
  <2> QED
    BY <1>1, <2>1

(* The weights of a file that are int8 have their scales.                  *)
LEMMA ScalesAreThere ==
  ASSUME NEW f \in Files, ~f.awq
  PROVE  ~ScalesAreMissing(Read(f))
<1> DEFINE m == Read(f)
<1>1. /\ Plain(m) /\ DOMAIN m.index \subseteq FileNames
      /\ \A n \in Saved : FromFile(m, n)
      /\ \A v \in Others : Has(m, <<v, "other">>) /\ IsFloat(Get(m, <<v, "other">>).dtype)
  BY ReadIs
<1> HIDE DEF m
<1>2. ~ScalesAreMissing(m)
  BY <1>1, NoCommonType DEF ScalesAreMissing, FromFile, WeightOf
<1> QED
  BY <1>2 DEF m

LEMMA LoadInvariant == LoadSpec => []TypeDecided
<1>1. LoadInit => TypeDecided
  <2> SUFFICES ASSUME LoadInit PROVE TypeDecided
    OBVIOUS
  <2>1. IsPlatform(platform)
    BY ModelLoadingAssumption DEF LoadInit
  <2>2. flash \in BOOLEAN
    BY <2>1 DEF LoadInit, IsPlatform
  <2> QED
    BY <2>2 DEF LoadInit, TypeDecided
<1>2. TypeDecided /\ [LoadNext]_loadVars => TypeDecided'
  <2> SUFFICES ASSUME TypeDecided, [LoadNext]_loadVars PROVE TypeDecided'
    OBVIOUS
  <2>1. CASE SetComputeType
    <3> DEFINE type == Resolve(RequestOf(file), saved', platform)
    <3>1. saved' \in SavedTypes
      BY <2>1, InferredIsType DEF SetComputeType
    <3>2. UNCHANGED <<platform, request, flash, file>> /\ phase = "read"
      BY <2>1 DEF SetComputeType
    <3>3. ~file.awq => RequestOf(file) = request
      BY DEF RequestOf
    <3>4. ~file.awq => ~ScalesAreMissing(model)
      BY <3>2, ScalesAreThere DEF TypeDecided
    <3>5. IF \/ type = Refused
             \/ ~file.awq /\ flash /\ FloatType(type) = "float32"
             \/ ~file.awq /\ ScalesAreMissing(model)
            THEN phase' = "refused" /\ UNCHANGED <<effective, model>>
            ELSE phase' = "typed" /\ effective' = type
      BY <2>1 DEF SetComputeType
    <3> HIDE DEF type
    <3>6. phase' = "refused" \/ phase' = "typed"
      BY <3>5
    <3>7. ASSUME ~file.awq
          PROVE  IF phase' = "refused" THEN type = Refused \/ (flash /\ FloatType(type) = "float32")
                 ELSE type # Refused /\ effective' = type
      BY <3>4, <3>5, <3>7
    <3>8. ~file.awq => type = Resolve(request, saved', platform)
      BY <3>3 DEF type
    <3> QED
      BY <3>1, <3>2, <3>6, <3>7, <3>8 DEF TypeDecided
  <2>2. CASE RegisterAliases
    BY <2>2 DEF RegisterAliases, TypeDecided
  <2>3. CASE ProcessLinearWeights
    BY <2>3 DEF ProcessLinearWeights, TypeDecided
  <2>4. CASE CopyTo
    BY <2>4 DEF CopyTo, TypeDecided
  <2>5. CASE UNCHANGED loadVars
    BY <2>5 DEF loadVars, TypeDecided
  <2> QED
    BY <2>1, <2>2, <2>3, <2>4, <2>5 DEF LoadNext
<1> QED
  BY <1>1, <1>2, PTL DEF LoadSpec

(* For any device, model and file: a type that the user asks for is the    *)
(* one that runs, or resolve_compute_type throws, and it throws exactly    *)
(* for what get_supported_compute_types does not return; int8 never falls  *)
(* back to weights of another type; auto and default always load.          *)
THEOREM RequestsResolve == LoadSpec => []RequestsAreHonoured
<1>1. TypeDecided => RequestsAreHonoured
  <2> SUFFICES ASSUME TypeDecided, phase # "read", ~file.awq
               PROVE  /\ request \in {"auto", "default"} => phase # "refused" \/ flash
                      /\ ~flash /\ request \notin {"auto", "default"} =>
                           (phase # "refused" <=> request \in SupportedTypes(platform))
                      /\ phase # "refused" =>
                           /\ effective \in SupportedTypes(platform) \ {"int8"}
                           /\ request \in SavedTypes => effective = request
                           /\ request = "int8" => WeightType(effective) = "int8"
                           /\ request = "int8" /\ Int8With(FloatType(saved)) \in SupportedTypes(platform)
                                => effective = Int8With(FloatType(saved))
    BY DEF RequestsAreHonoured
  <2> DEFINE type == Resolve(request, saved, platform)
             wanted == Int8With(FloatType(saved))
  <2>1. request \in Requests /\ saved \in SavedTypes /\ flash \in BOOLEAN
    BY DEF TypeDecided
  <2>2. IF phase = "refused" THEN type = Refused \/ (flash /\ FloatType(type) = "float32")
        ELSE type # Refused /\ effective = type
    BY DEF TypeDecided
  <2>3. ResolvesRight(request, saved, platform)
    BY <2>1, ResolveIs
  <2>4. /\ type # Refused => type \in SavedTypes /\ Runs(platform, type)
        /\ request \in {"auto", "default"} => type # Refused
        /\ request \in SavedTypes =>
             (IF Runs(platform, request) THEN type = request ELSE type = Refused)
    BY <2>3 DEF ResolvesRight
  <2>5. request = "int8" =>
           /\ type # Refused <=> Supports(platform, "int8")
           /\ type # Refused => WeightType(type) = "int8"
           /\ Runs(platform, wanted) => type = wanted
    BY <2>3 DEF ResolvesRight
  <2>6. wanted \in SavedTypes
    BY Int8WithIs, TypesAre
  <2>7. "int8" \in SupportedTypes(platform) <=> Supports(platform, "int8")
    BY DEF SupportedTypes
  <2>8. request \in SavedTypes \/ request \in {"int8", "auto", "default"}
    BY <2>1 DEF Requests
  <2>9. "int8" \notin SavedTypes /\ Refused \notin SavedTypes
    BY TypesAre DEF Refused
  <2> HIDE DEF type, wanted
  <2>10. request \in {"auto", "default"} => phase # "refused" \/ flash
    BY <2>2, <2>4
  <2>11. ASSUME ~flash, request \notin {"auto", "default"}
         PROVE  phase # "refused" <=> request \in SupportedTypes(platform)
    <3>1. phase # "refused" <=> type # Refused
      BY <2>2, <2>11
    <3>2. CASE request = "int8"
      BY <2>5, <2>7, <3>1, <3>2
    <3>3. CASE request \in SavedTypes
      BY <2>4, <2>9, <3>1, <3>3, TypesThatRun
    <3> QED
      BY <2>8, <2>11, <3>2, <3>3
  <2>12. ASSUME phase # "refused"
         PROVE  /\ effective \in SupportedTypes(platform) \ {"int8"}
                /\ request \in SavedTypes => effective = request
                /\ request = "int8" => WeightType(effective) = "int8"
                /\ request = "int8" /\ wanted \in SupportedTypes(platform) => effective = wanted
    <3>1. type # Refused /\ effective = type
      BY <2>2, <2>12
    <3>2. effective \in SupportedTypes(platform) \ {"int8"}
      BY <2>4, <2>9, <3>1, TypesThatRun
    <3>3. request \in SavedTypes => effective = request
      BY <2>4, <3>1
    <3> QED
      BY <2>5, <2>6, <3>1, <3>2, <3>3, TypesThatRun
  <2> QED
    BY <2>10, <2>11, <2>12 DEF wanted
<1> QED
  BY <1>1, LoadInvariant, PTL

-----------------------------------------------------------------------------
ModelDecided ==
  /\ phase = "typed" => Typed(model, effective, file)
  /\ phase = "aliased" => Aliased(model, effective, file)
  /\ Loaded => Found(model)

LEMMA FilesAreTyped ==
  TypeDecided /\ SetComputeType /\ phase' = "typed" => Typed(model', effective', file)
<1> SUFFICES ASSUME TypeDecided, SetComputeType, phase' = "typed"
             PROVE  Typed(model', effective', file)
  OBVIOUS
<1> DEFINE type == Resolve(RequestOf(file), saved', platform)
<1>1. /\ type # Refused /\ effective' = type
      /\ model' = IF file.awq THEN model ELSE ConvertVariables(model, type)
      /\ phase = "read" /\ saved' \in Inferred(model)
  BY DEF SetComputeType
<1>2. file \in Files /\ request \in Requests /\ model = Read(file)
  BY <1>1 DEF TypeDecided
<1> HIDE DEF type
<1>3. CASE file.awq
  <2>1. /\ Plain(model) /\ DOMAIN model.index \subseteq FileNames \cup (Saved \X {"zero"})
        /\ \A n \in Saved : Coherent(model, n)
    BY <1>2, <1>3, ReadIs
  <2> QED
    BY <1>1, <1>3, <2>1 DEF Typed
<1>4. CASE ~file.awq
  <2>1. RequestOf(file) = request
    BY <1>4 DEF RequestOf
  <2>2. saved' \in SavedTypes
    BY <1>1, InferredIsType
  <2>3. ResolvesRight(request, saved', platform)
    BY <1>2, <2>2, ResolveIs
  <2>4. type \in SavedTypes
    BY <1>1, <2>1, <2>3 DEF ResolvesRight, type
  <2> QED
    BY <1>1, <1>2, <1>4, <2>4, VariablesAreConverted
<1> QED
  BY <1>3, <1>4

LEMMA LayersInvariant == LoadSpec => []ModelDecided
<1>1. LoadInit => ModelDecided
  BY DEF LoadInit, ModelDecided, Loaded
<1>2. TypeDecided /\ ModelDecided /\ [LoadNext]_loadVars => ModelDecided'
  <2> SUFFICES ASSUME TypeDecided, ModelDecided, [LoadNext]_loadVars PROVE ModelDecided'
    OBVIOUS
  <2>1. ASSUME platform' = platform, Typed(model', effective', file), file' = file
        PROVE  Typed(model, effective, file)'
    BY <2>1 DEF Typed, WeightTarget
  <2>2. ASSUME platform' = platform, Aliased(model', effective', file), file' = file
        PROVE  Aliased(model, effective, file)'
    BY <2>2 DEF Aliased, WeightTarget
  <2>3. ASSUME platform' = platform, effective' = effective, Found(model'), file' = file
        PROVE  Found(model)'
    BY <2>3 DEF Found, FoundBy, WeightTarget
  <2>4. CASE SetComputeType
    <3>1. UNCHANGED <<platform, file>> /\ (phase' = "typed" \/ phase' = "refused")
      BY <2>4 DEF SetComputeType
    <3> QED
      BY <2>1, <2>4, <3>1, FilesAreTyped DEF ModelDecided, Loaded
  <2>5. CASE RegisterAliases
    <3>1. /\ UNCHANGED <<platform, file, effective>> /\ phase' = "aliased"
          /\ model' = WithAliases(model, AliasNames) /\ phase = "typed"
      BY <2>5 DEF RegisterAliases, WithAliases, AliasNames
    <3>2. Aliased(model', effective', file)
      BY <3>1, TypedIsAliased DEF ModelDecided
    <3> QED
      BY <2>2, <3>1, <3>2 DEF ModelDecided, Loaded
  <2>6. CASE ProcessLinearWeights
    <3>1. /\ UNCHANGED <<platform, file, effective>> /\ phase' = "loaded"
          /\ model' = IF platform.device # "CPU" THEN model ELSE WithPacked(model, ToPack)
          /\ phase = "aliased"
      BY <2>6 DEF ProcessLinearWeights, WithPacked, ToPack
    <3>2. Found(model')
      BY <3>1, LoadedIsFound DEF ModelDecided
    <3> QED
      BY <2>3, <3>1, <3>2 DEF ModelDecided, Loaded
  <2>7. CASE CopyTo
    <3> DEFINE index == [v \in DOMAIN model.index |-> CopyOf(model, v)]
               store == [names \in Range(index) |-> Get(model, CHOOSE v \in names : TRUE)]
    <3>1. /\ UNCHANGED <<platform, file, effective>> /\ phase' = "copied"
          /\ model' = [index |-> index, store |-> store]
          /\ phase = "loaded"
      BY <2>7 DEF CopyTo
    <3>2. model'.index = index /\ model'.store = store
      <4> HIDE DEF index, store
      <4> QED
        BY <3>1
    <3>3. Found(model')
      BY <3>1, <3>2, CopiesAreFound DEF ModelDecided, Loaded
    <3> QED
      BY <2>3, <3>1, <3>3 DEF ModelDecided, Loaded
  <2>8. CASE UNCHANGED loadVars
    BY <2>8 DEF loadVars, ModelDecided, Loaded, Typed, Aliased, Found, FoundBy, WeightTarget
  <2> QED
    BY <2>4, <2>5, <2>6, <2>7, <2>8 DEF LoadNext
<1> QED
  BY <1>1, <1>2, LoadInvariant, PTL DEF LoadSpec

(* For any device, model and file, with any layers and aliases: a layer of *)
(* a loaded model, or of a copy of it, finds its weight in the form that   *)
(* it reads, with the scale and the compensation of the quantization that  *)
(* made it; layers that share a weight share the object; and the variables *)
(* have the types of the effective compute type.                           *)
THEOREM LayersAreComplete == LoadSpec => []LayersFindTheirVariables
<1>1. TypeDecided /\ ModelDecided => LayersFindTheirVariables
  <2> SUFFICES ASSUME TypeDecided, Found(model), NEW n \in Layers
               PROVE  /\ Has(model, <<n, "weight">>) /\ Has(model, <<Original(n), "weight">>)
                           => model.index[<<n, "weight">>] = model.index[<<Original(n), "weight">>]
                      /\ Has(model, LayerWeight(n))
                      /\ n \in Masked => ~Has(model, <<n, "packed">>)
                      /\ LET weight == Get(model, LayerWeight(n))
                             scale  == <<n, "scale">>
                         IN  /\ IF IsFloat(weight.dtype) THEN ~Has(model, scale)
                                ELSE Has(model, scale) /\ Get(model, scale).of = weight.of
                             /\ weight.dtype = "int8" /\ IsLinear(n) /\ ~IsConv(n)
                                  /\ platform.device = "CPU" /\ PrefersU8(platform)
                                  => /\ Has(model, <<n, "compensation">>)
                                     /\ Get(model, <<n, "compensation">>).of = weight.of
                             /\ weight.dtype = "int32" => Has(model, <<n, "zero">>)
                             /\ ~file.awq => weight.dtype =
                                  IF IsConv(n) /\ (platform.device # "CPU" \/ "DNNL" \in Range(platform.backends))
                                    THEN FloatType(effective) ELSE WeightType(effective)
                             /\ ~file.awq =>
                                  \A v \in Others : Get(model, <<v, "other">>).dtype = FloatType(effective)
    BY DEF LayersFindTheirVariables, ModelDecided
  <2>1. LayerWeight(n) = WeightName(model, n)
    BY DEF LayerWeight, DenseWeight, WeightName
  <2>2. FoundBy(model, n) /\ (~file.awq => \A v \in Others : Get(model, <<v, "other">>).dtype = FloatType(effective))
    BY DEF Found
  <2>3. IsPlatform(platform)
    BY ModelLoadingAssumption DEF TypeDecided
  <2>4. ConvIsFloat(platform) <=> platform.device # "CPU" \/ "DNNL" \in Range(platform.backends)
    BY <2>3 DEF ConvIsFloat, IsPlatform, Range
  <2>5. WeightTarget(Original(n), effective) =
          IF IsConv(n) /\ (platform.device # "CPU" \/ "DNNL" \in Range(platform.backends))
            THEN FloatType(effective) ELSE WeightType(effective)
    BY <2>4 DEF WeightTarget, IsConv
  <2> QED
    BY <2>1, <2>2, <2>5 DEF FoundBy
<1> QED
  BY <1>1, LoadInvariant, LayersInvariant, PTL

-----------------------------------------------------------------------------
(* WhisperDecoding: the prompts.                                           *)

(* Sentences and rows: the divisions of SentenceOf. *)
LEMMA SentenceIs ==
  ASSUME NEW n \in Nat \ {0}, NEW size \in Nat
  PROVE  /\ \A h \in 1 .. n * size : SentenceOf(h, n) \in 1 .. size
         /\ \A i \in 1 .. size : SentenceOf((i - 1) * n + 1, n) = i
         /\ n = 1 => \A i \in 1 .. size : SentenceOf(i, n) = i
<1>1. ASSUME NEW h \in 1 .. n * size PROVE SentenceOf(h, n) \in 1 .. size
  <2> DEFINE q == (h - 1) \div n
  <2>0. n * size \in Nat /\ h \in Int /\ h - 1 \in Nat /\ h - 1 < n * size
    OBVIOUS
  <2>1. q \in Nat /\ n * q <= h - 1
    BY <2>0
  <2> HIDE DEF q
  <2>2. q < size
    <3> SUFFICES ASSUME size <= q PROVE FALSE
      BY <2>1
    <3>1. size * n <= q * n
      BY <2>1, GrowFactor
    <3>2. size * n = n * size /\ q * n = n * q
      BY <2>1
    <3> QED
      BY <2>0, <2>1, <3>1, <3>2
  <2>3. q + 1 \in 1 .. size
    BY <2>1, <2>2
  <2> QED
    BY <2>3 DEF SentenceOf, q
<1>2. ASSUME NEW i \in 1 .. size PROVE SentenceOf((i - 1) * n + 1, n) = i
  <2>1. ((i - 1) * n + 1) - 1 = (i - 1) * n
    BY ONLY i \in Int, n \in Int
  <2>2. ((i - 1) * n) \div n = i - 1
    BY SMT
  <2> QED
    BY <2>1, <2>2 DEF SentenceOf
<1>3. ASSUME n = 1, NEW i \in 1 .. size PROVE SentenceOf(i, n) = i
  BY <1>3 DEF SentenceOf
<1> QED
  BY <1>1, <1>2, <1>3

(* The start token of a prompt that CheckPrompts accepts, and its task.    *)
LEMMA PromptIs ==
  ASSUME NEW p \in Seq(Ids), SotIndex(p) # 0
  PROVE  /\ SotIndex(p) \in 1 .. Len(p)
         /\ PromptLength(p) \in SotIndex(p) .. Len(p)
<1> DEFINE starts == {i \in 1 .. Len(p) : p[i] = SotId}
           tasks == {n \in SotIndex(p) .. Len(p) :
                       \A i \in SotIndex(p) .. n : p[i] \in SotId .. NoTimestampsId}
<1>1. SotIndex(p) = IF starts # {} THEN Min(starts) ELSE 0
  BY DEF SotIndex, SelectInSeq
<1>2. Len(p) \in Nat /\ starts \in SUBSET Nat
  OBVIOUS
<1>3. SotIndex(p) \in starts
  BY <1>1, <1>2, LeastIs
<1>4. SotIndex(p) \in tasks
  <2>1. SotId \in SotId .. NoTimestampsId
    BY WhisperAssumption
  <2> QED
    BY <1>2, <1>3, <2>1
<1>5. tasks \in SUBSET Int /\ IsFiniteSet(tasks) /\ tasks # {}
  <2>1. IsFiniteSet(SotIndex(p) .. Len(p))
    BY <1>2, <1>3, FS_Interval
  <2> QED
    BY <1>2, <1>3, <1>4, <2>1, FS_Subset
<1>6. Max(tasks) \in tasks
  BY <1>5, GreatestNumber
<1> QED
  BY <1>3, <1>6 DEF PromptLength

(* What the options of a call are. *)
LEMMA OptionsAre ==
  ASSUME options \in WhisperRequests
  PROVE  /\ options.prompts \in Seq(Seq(Ids)) /\ options.prompts # <<>>
         /\ options.beams \in Nat \ {0} /\ options.samples \in Nat \ {0}
         /\ options.maxLength \in Nat /\ options.maxInitial \in Nat
         /\ options.onCpu \in BOOLEAN
  BY WhisperAssumption

LEMMA IdsAre ==
  /\ EotId \in Ids /\ SotId \in Ids /\ NoTimestampsId \in Ids /\ TimestampBeginId \in Ids
  /\ EotId < NoTimestampsId /\ TimestampBeginId = NoTimestampsId + 1
  /\ TimestampEndId \in Nat /\ Ids \subseteq Nat
  /\ \A id \in Int : IsTimestamp(id) <=> id > NoTimestampsId
  BY WhisperAssumption DEF Ids, TimestampBeginId, IsTimestamp

(* The prompts of a call that is decoded. *)
LEMMA PromptsAre ==
  ASSUME options \in WhisperRequests, CheckPrompts
  PROVE  /\ Len(options.prompts) \in Nat \ {0} /\ Sentences = 1 .. Len(options.prompts)
         /\ Task \in Nat \ {0}
         /\ \A s \in Sentences :
              /\ options.prompts[s] \in Seq(Ids) /\ Task <= Len(options.prompts[s])
              /\ SotIndex(options.prompts[s]) = SotIndex(options.prompts[1])
              /\ Prefix(s) \in Seq(Ids)
              /\ Len(Prefix(s)) = Len(options.prompts[s]) - Task
              /\ Len(Prefix(s)) \in Nat
         /\ SotIndex(options.prompts[1]) \in Nat
<1> DEFINE P == options.prompts
<1>1. P \in Seq(Seq(Ids)) /\ P # <<>>
  BY OptionsAre
<1>2. Len(P) \in Nat \ {0} /\ DOMAIN P = 1 .. Len(P) /\ \A s \in 1 .. Len(P) : P[s] \in Seq(Ids)
  BY <1>1
<1>3. \A s \in 1 .. Len(P) : P[s] \in Range(P)
  BY <1>2 DEF Range
<1>4. \A s \in 1 .. Len(P) : /\ SotIndex(P[s]) # 0 /\ SotIndex(P[s]) = SotIndex(P[1])
                             /\ PromptLength(P[s]) = Task
  BY <1>2, <1>3 DEF CheckPrompts, Task
<1>5. \A s \in 1 .. Len(P) : /\ SotIndex(P[s]) \in 1 .. Len(P[s])
                             /\ Task \in SotIndex(P[s]) .. Len(P[s])
  BY <1>2, <1>4, PromptIs
<1>6. Task \in Nat \ {0} /\ SotIndex(P[1]) \in Nat
  BY <1>2, <1>5
<1>7. ASSUME NEW s \in 1 .. Len(P)
      PROVE  /\ Prefix(s) \in Seq(Ids) /\ Len(Prefix(s)) = Len(P[s]) - Task
             /\ Len(Prefix(s)) \in Nat /\ Task <= Len(P[s])
  <2>1. P[s] \in Seq(Ids) /\ Task <= Len(P[s]) /\ Len(P[s]) \in Nat
    BY <1>2, <1>5
  <2>2. \A i \in Task + 1 .. Len(P[s]) : P[s][i] \in Ids
    BY <1>6, <2>1
  <2>3. Task + 1 \in Int /\ Len(P[s]) \in Int
    BY <1>6, <2>1
  <2> DEFINE t == SubSeq(P[s], Task + 1, Len(P[s]))
  <2>4. /\ t \in Seq(Ids)
        /\ Len(t) = IF Task + 1 <= Len(P[s]) THEN Len(P[s]) - (Task + 1) + 1 ELSE 0
    BY ONLY <2>2, <2>3, SubSeqProperties
  <2>5. Len(t) = Len(P[s]) - Task /\ Len(t) \in Nat
    BY <1>6, <2>1, <2>4
  <2>6. t = Prefix(s)
    BY DEF Prefix
  <2> HIDE DEF t
  <2> QED
    BY <1>6, <2>1, <2>4, <2>5, <2>6
<1>8. Sentences = 1 .. Len(P)
  BY <1>2 DEF Sentences
<1> QED
  BY <1>2, <1>4, <1>6, <1>7, <1>8

-----------------------------------------------------------------------------
(* The probabilities of silence: until the first step those of the         *)
(* forwarded prompts, and after it those of the sentences.                 *)

SilenceIsRead ==
  \A s \in Sentences : noSpeech[s] = ReadNoSpeech(s, SotIndex(options.prompts[s]))

SilenceInv ==
  /\ options \in WhisperRequests
  /\ step \in Nat
  /\ stage = "called" => step = 0
  /\ stage \in {"decoding", "answered"} => CheckPrompts
  /\ stage = "decoding" /\ step = 0 =>
       /\ batchOffset = [h \in 1 .. options.samples * Len(options.prompts) |-> h]
       /\ noSpeech = ForwardedNoSpeech
  /\ stage \in {"decoding", "answered"} /\ options.returnNoSpeech /\ options.samples = 1 /\ step > 0 =>
       SilenceIsRead

LEMMA InitSilence == WhisperInit => SilenceInv
  BY DEF WhisperInit, SilenceInv

LEMMA FirstStepReads ==
  ASSUME SilenceInv, stage = "decoding", step = 0, options.returnNoSpeech, options.samples = 1
  PROVE  \A s \in Sentences :
           (IF SotIsStartToken THEN FirstStepNoSpeech ELSE noSpeech)[s]
             = ReadNoSpeech(s, SotIndex(options.prompts[s]))
<1> SUFFICES ASSUME NEW s \in Sentences
             PROVE  (IF SotIsStartToken THEN FirstStepNoSpeech ELSE noSpeech)[s]
                      = ReadNoSpeech(s, SotIndex(options.prompts[s]))
  OBVIOUS
<1>1. options \in WhisperRequests /\ CheckPrompts
  BY DEF SilenceInv
<1>2. /\ Len(options.prompts) \in Nat \ {0} /\ s \in 1 .. Len(options.prompts)
      /\ Task \in Nat \ {0}
      /\ SotIndex(options.prompts[s]) = SotIndex(options.prompts[1])
      /\ options.beams \in Nat \ {0}
  BY <1>1, PromptsAre, OptionsAre
<1>3. CASE ~SotIsStartToken
  <2>1. noSpeech = [q \in Sentences |-> ReadNoSpeech(q, SotIndex(options.prompts[q]))]
    BY <1>3 DEF SilenceInv, ForwardedNoSpeech
  <2> QED
    BY <1>3, <2>1
<1>4. CASE SotIsStartToken
  <2>1. batchOffset = [h \in 1 .. Len(options.prompts) |-> h]
    <3>1. 1 * Len(options.prompts) = Len(options.prompts)
      BY <1>2
    <3> QED
      BY <3>1 DEF SilenceInv
  <2>2. BeamSize \in Nat \ {0}
    BY <1>2 DEF BeamSize
  <2>3. FirstStepNoSpeech[s] = ReadNoSpeech(Sentence((s - 1) * BeamSize + 1), StartStep + 1)
    BY <1>2, <2>1 DEF FirstStepNoSpeech
  <2>4. Sentence((s - 1) * BeamSize + 1) = s
    <3>1. SentenceOf((s - 1) * BeamSize + 1, BeamSize) = s
      BY <1>2, <2>2, SentenceIs
    <3>2. BatchIndex((s - 1) * BeamSize + 1) = s
      BY <1>2, <2>1, <3>1 DEF BatchIndex
    <3>3. SentenceOf(s, 1) = s
      BY <1>2 DEF SentenceOf
    <3> QED
      BY <3>2, <3>3 DEF Sentence
  <2>5. StartStep + 1 = SotIndex(options.prompts[s])
    BY <1>2, <1>4 DEF StartStep, SotIsStartToken
  <2> QED
    BY <1>4, <2>3, <2>4, <2>5
<1> QED
  BY <1>3, <1>4

LEMMA NextSilence == SilenceInv /\ [WhisperNext]_whisperVars => SilenceInv'
<1> SUFFICES ASSUME SilenceInv, [WhisperNext]_whisperVars PROVE SilenceInv'
  OBVIOUS
<1>1. CASE BeginGenerate
  BY <1>1 DEF SilenceInv, BeginGenerate, SilenceIsRead, CheckPrompts, ForwardedNoSpeech,
              SotIsStartToken, Sentences, Task
<1>2. CASE SearchStep
  <2>1. /\ options' = options /\ step' = step + 1 /\ stage = "decoding"
        /\ noSpeech' = IF step = 0 /\ options.returnNoSpeech /\ SotIsStartToken
                         THEN FirstStepNoSpeech ELSE noSpeech
        /\ stage' \in {"decoding", "answered"}
    BY <1>2 DEF SearchStep
  <2>2. step' \in Nat /\ step' > 0
    BY <2>1 DEF SilenceInv
  <2>3. CheckPrompts'
    BY <2>1 DEF SilenceInv, CheckPrompts
  <2>4. ASSUME options.returnNoSpeech, options.samples = 1 PROVE SilenceIsRead'
    <3>1. CASE step = 0
      <4>1. noSpeech' = IF SotIsStartToken THEN FirstStepNoSpeech ELSE noSpeech
        BY <2>1, <2>4, <3>1
      <4>2. \A s \in Sentences : noSpeech'[s] = ReadNoSpeech(s, SotIndex(options.prompts[s]))
        BY <2>1, <2>4, <3>1, <4>1, FirstStepReads
      <4> QED
        BY <2>1, <4>2 DEF SilenceIsRead, Sentences
    <3>2. CASE step # 0
      <4>1. noSpeech' = noSpeech /\ step > 0
        BY <2>1, <3>2 DEF SilenceInv
      <4>2. SilenceIsRead
        BY <2>1, <2>4, <4>1 DEF SilenceInv
      <4> QED
        BY <2>1, <4>1, <4>2 DEF SilenceIsRead, Sentences
    <3> QED
      BY <3>1, <3>2
  <2> QED
    BY <2>1, <2>2, <2>3, <2>4 DEF SilenceInv
<1>3. CASE NoStep
  BY <1>3 DEF SilenceInv, NoStep, SilenceIsRead, CheckPrompts, Sentences
<1>4. CASE UNCHANGED whisperVars
  BY <1>4 DEF SilenceInv, whisperVars, SilenceIsRead, CheckPrompts, Sentences, ForwardedNoSpeech,
              SotIsStartToken, Task
<1> QED
  BY <1>1, <1>2, <1>3, <1>4 DEF WhisperNext

(* With one hypothesis for each sentence, the probability of silence of an *)
(* answer is read from the rows of its own sentence, after the start token:*)
(* get_batch_index and the skipped rows of beams agree with forward.       *)
THEOREM SilenceIsOfTheSentence == WhisperSpec => []NoSpeechOfSingleSamples
<1>1. WhisperSpec => []SilenceInv
  BY InitSilence, NextSilence, PTL DEF WhisperSpec
<1>2. SilenceInv => NoSpeechOfSingleSamples
  BY DEF SilenceInv, NoSpeechOfSingleSamples, SilenceIsRead
<1> QED
  BY <1>1, <1>2, PTL

-----------------------------------------------------------------------------
(* No row is without a token, if the options leave the end and the first   *)
(* timestamp.                                                              *)

SomethingIsLeft ==
  /\ EotId \notin options.suppressed
  /\ TimestampBeginId \notin options.suppressed \cup options.suppressedAtBegin

LEMMA TokensAreLeft ==
  ASSUME options \in WhisperRequests, step \in Nat, SomethingIsLeft, NEW row
  PROVE  {} \notin Allowed(row)
<1> DEFINE left == Ids \ SuppressedTokens(row)
           Rest(likely) == {id \in left \ RuledOut(row) : likely => IsTimestamp(id)}
<1>1. \E id \in Ids : id \in left \ RuledOut(row)
  <2>1. CASE step = SampleBegin(row)
    <3>1. TimestampBeginId \in left
      BY IdsAre DEF SomethingIsLeft, SuppressedTokens
    <3>2. TimestampBeginId \notin RuledOut(row)
      <4>1. /\ TimestampBeginId # NoTimestampsId /\ TimestampBeginId \in Int
            /\ IsTimestamp(TimestampBeginId)
            /\ ~(TimestampBeginId > TimestampBeginId + options.maxInitial)
        BY IdsAre, OptionsAre
      <4>2. ~PairIsClosed(row) /\ ~PairIsOpen(row) /\ ~InText(row)
        BY <2>1 DEF PairIsClosed, PairIsOpen, InText, Sampling
      <4> QED
        BY <4>1, <4>2 DEF RuledOut
    <3> QED
      BY <3>1, <3>2, IdsAre
  <2>2. CASE step # SampleBegin(row)
    <3>1. EotId \in left
      BY <2>2, IdsAre DEF SomethingIsLeft, SuppressedTokens
    <3>2. EotId \notin RuledOut(row)
      <4>1. EotId # NoTimestampsId /\ EotId \in Int /\ ~IsTimestamp(EotId) /\ ~(EotId < EotId)
        BY IdsAre
      <4>2. ~(step = 0 /\ SampleBegin(row) = 0)
        BY <2>2
      <4>3. EotId \notin Past(row)
        BY <4>1 DEF Past
      <4> QED
        BY <4>1, <4>2, <4>3 DEF RuledOut
    <3> QED
      BY <3>1, <3>2, IdsAre
  <2> QED
    BY <2>1, <2>2
<1>2. ASSUME NEW likely \in MustBeTimestamp(row) PROVE Rest(likely) # {}
  <2>1. CASE likely = FALSE
    BY <1>1, <2>1
  <2>2. CASE likely # FALSE
    <3>1. \E id \in Counted(row) : IsTimestamp(id)
      BY <1>2, <2>2 DEF MustBeTimestamp
    <3>2. Counted(row) = left \ RuledOut(row)
      BY DEF Counted
    <3> QED
      BY <3>1, <3>2
  <2> QED
    BY <2>1, <2>2
<1>3. Allowed(row) = IF ~HasRules THEN {left} ELSE {Rest(likely) : likely \in MustBeTimestamp(row)}
  BY DEF Allowed
<1>4. left # {}
  BY <1>1
<1> HIDE DEF left, Rest
<1> QED
  BY <1>2, <1>3, <1>4

(* The tokens of a row fit after its prompt. *)
StepsInv ==
  /\ options \in WhisperRequests
  /\ step \in Nat
  /\ stage = "called" => step = 0
  /\ stage = "decoding" => CheckPrompts
  /\ step > 0 => StartStep + step <= options.maxLength

LEMMA MaxLengthIs ==
  ASSUME options \in WhisperRequests, CheckPrompts
  PROVE  MaxLength \in Int /\ StartStep + MaxLength <= options.maxLength
<1> DEFINE a == options.maxLength \div 2
           b == options.maxLength - StartStep
<1>1. StartStep \in Int /\ options.maxLength \in Nat
  BY PromptsAre, OptionsAre DEF StartStep
<1>2. a \in Int /\ b \in Int /\ StartStep + b = options.maxLength
  BY <1>1
<1> HIDE DEF a, b
<1>3. \E x \in {a, b} : \A y \in {a, b} : x <= y
  BY <1>2
<1>4. Min({a, b}) \in {a, b} /\ Min({a, b}) <= b
  BY <1>2, <1>3 DEF Min
<1>5. MaxLength = Min({a, b})
  BY DEF MaxLength, a, b
<1> QED
  BY <1>1, <1>2, <1>4, <1>5

LEMMA NextSteps == StepsInv /\ [WhisperNext]_whisperVars => StepsInv'
<1> SUFFICES ASSUME StepsInv, [WhisperNext]_whisperVars PROVE StepsInv'
  OBVIOUS
<1>1. CASE BeginGenerate
  BY <1>1 DEF StepsInv, BeginGenerate, CheckPrompts
<1>2. CASE SearchStep
  <2>1. /\ options' = options /\ step' = step + 1 /\ step < MaxLength
        /\ stage = "decoding" /\ stage' # "called"
    BY <1>2 DEF SearchStep
  <2>2. CheckPrompts
    BY <2>1 DEF StepsInv
  <2>3. MaxLength \in Int /\ StartStep + MaxLength <= options.maxLength /\ StartStep \in Int
    BY <2>2, MaxLengthIs, PromptsAre DEF StepsInv, StartStep
  <2>4. step' \in Nat /\ StartStep + step' <= options.maxLength
    BY <2>1, <2>3, OptionsAre DEF StepsInv
  <2>5. StartStep' = StartStep /\ CheckPrompts'
    BY <2>1, <2>2 DEF StartStep, Task, CheckPrompts
  <2> QED
    BY <2>1, <2>4, <2>5 DEF StepsInv
<1>3. CASE NoStep
  BY <1>3 DEF StepsInv, NoStep, StartStep, Task
<1>4. CASE UNCHANGED whisperVars
  BY <1>4 DEF StepsInv, whisperVars, CheckPrompts, StartStep, Task
<1> QED
  BY <1>1, <1>2, <1>3, <1>4 DEF WhisperNext

(* The rules of the timestamps never contradict each other so far that a   *)
(* row has no token, for either answer of should_sample_timestamp; and the *)
(* steps fit in max_length, for any prompts and options.                   *)
THEOREM EveryStepHasTokens == WhisperSpec => [](SomethingIsLeft => StepsArePossible)
<1>1. WhisperInit => StepsInv
  BY DEF WhisperInit, StepsInv
<1>2. WhisperSpec => []StepsInv
  BY <1>1, NextSteps, PTL DEF WhisperSpec
<1>3. StepsInv => (SomethingIsLeft => StepsArePossible)
  BY TokensAreLeft DEF StepsInv, StepsArePossible
<1> QED
  BY <1>2, <1>3, PTL

-----------------------------------------------------------------------------
(* A token that the rules leave keeps the texts of Increases and InPairs.  *)

LEMMA TextGrows ==
  ASSUME NEW text \in Seq(Ids), NEW id \in Ids, Increases(text), InPairs(text),
         LET n == Len(text)
         IN  /\ n > 0 /\ IsTimestamp(text[n]) /\ (n = 1 \/ IsTimestamp(text[n - 1])) => ~IsTimestamp(id)
             /\ n > 1 /\ IsTimestamp(text[n]) /\ ~IsTimestamp(text[n - 1]) =>
                  id >= EotId /\ (IsTimestamp(id) => text[n] <= id)
             /\ n > 0 /\ ~IsTimestamp(text[n]) /\ IsTimestamp(id) =>
                  \A i \in 1 .. n : IsTimestamp(text[i]) => text[i] < id
  PROVE  Increases(Append(text, id)) /\ InPairs(Append(text, id))
<1> DEFINE n == Len(text)
           new == Append(text, id)
           Stamp(t, i) == i \in TimestampsOf(t)
<1>1. /\ n \in Nat /\ \A i \in 1 .. n : text[i] \in Nat /\ text[i] \in Ids
      /\ id \in Nat /\ EotId \in Nat
  <2>1. n \in Nat /\ \A i \in 1 .. n : text[i] \in Ids
    OBVIOUS
  <2> HIDE DEF n
  <2> QED
    BY <2>1, IdsAre
<1>2. /\ Len(new) = n + 1 /\ DOMAIN new = 1 .. n + 1 /\ DOMAIN text = 1 .. n
      /\ new[n + 1] = id /\ \A i \in 1 .. n : new[i] = text[i]
  OBVIOUS
<1>3. /\ \A i : Stamp(text, i) <=> i \in 1 .. n /\ IsTimestamp(text[i])
      /\ \A i : Stamp(new, i) <=> i \in 1 .. n + 1 /\ IsTimestamp(new[i])
  BY <1>2 DEF TimestampsOf
<1>4. /\ \A i \in 1 .. n : Stamp(new, i) <=> Stamp(text, i)
      /\ Stamp(new, n + 1) <=> IsTimestamp(id)
  BY <1>1, <1>2, <1>3
<1>5. /\ Stamp(text, n) /\ (n = 1 \/ Stamp(text, n - 1)) => ~Stamp(new, n + 1)
      /\ n > 1 /\ Stamp(text, n) /\ ~Stamp(text, n - 1) => id >= EotId /\ (Stamp(new, n + 1) => text[n] <= id)
      /\ n > 0 /\ ~Stamp(text, n) /\ Stamp(new, n + 1) =>
           \A i \in 1 .. n : Stamp(text, i) => text[i] < id
  <2>1. n > 1 => n - 1 \in 1 .. n
    BY <1>1
  <2>2. n > 0 => n \in 1 .. n
    BY <1>1
  <2> HIDE DEF new
  <2>3. Stamp(text, n) => n > 0
    BY <1>1, <1>3
  <2>4. n > 0 => (Stamp(text, n) <=> IsTimestamp(text[n]))
    BY <2>2, <1>3
  <2>5. n > 1 => (Stamp(text, n - 1) <=> IsTimestamp(text[n - 1]))
    BY <2>1, <1>3
  <2>6. Stamp(text, n - 1) => IsTimestamp(text[n - 1])
    BY <1>3
  <2> HIDE DEF Stamp
  <2>7. Stamp(text, n) /\ (n = 1 \/ Stamp(text, n - 1)) => ~Stamp(new, n + 1)
    BY <1>4, <2>3, <2>4, <2>6
  <2>8. n > 1 /\ Stamp(text, n) /\ ~Stamp(text, n - 1) => id >= EotId /\ (Stamp(new, n + 1) => text[n] <= id)
    <3>1. n > 1 => n > 0
      BY <1>1
    <3> QED
      BY <1>4, <2>4, <2>5, <3>1
  <2>9. n > 0 /\ ~Stamp(text, n) /\ Stamp(new, n + 1) =>
           \A i \in 1 .. n : Stamp(text, i) => text[i] < id
    BY <1>3, <1>4, <2>4 DEF Stamp
  <2> QED
    BY <2>7, <2>8, <2>9
<1>6. \A i, j : Stamp(text, i) /\ Stamp(text, j) /\ i < j =>
        text[i] <= text[j] /\ (j > i + 1 => text[i] < text[j])
  BY DEF Increases
<1>7. \A i : Stamp(text, i) =>
        /\ ~(Stamp(text, i + 1) /\ (i = 1 \/ Stamp(text, i + 2)))
        /\ i < n /\ text[i + 1] < EotId => i = 1 \/ Stamp(text, i - 1)
  BY DEF InPairs
<1>8. \A i : Stamp(text, i) => i \in 1 .. n
  BY <1>3
<1>9. \A i : Stamp(new, i) => i \in 1 .. n + 1
  BY <1>3
<1> HIDE DEF Stamp, n, new
<1>10. ASSUME NEW i, NEW j, Stamp(new, i), Stamp(new, j), i < j
       PROVE  new[i] <= new[j] /\ (j > i + 1 => new[i] < new[j])
  <2>1. i \in 1 .. n /\ j \in 1 .. n + 1 /\ Stamp(text, i)
    BY <1>1, <1>4, <1>9, <1>10
  <2>2. CASE j \in 1 .. n
    BY <1>2, <1>4, <1>6, <1>10, <2>1, <2>2
  <2>3. CASE j = n + 1
    <3>1. new[i] = text[i] /\ new[j] = id /\ text[i] \in Nat /\ n > 0
      BY <1>1, <1>2, <2>1, <2>3
    <3>2. CASE ~Stamp(text, n)
      BY <1>1, <1>5, <1>10, <2>1, <2>3, <3>1, <3>2
    <3>3. CASE Stamp(text, n)
      <4>1. n > 1 /\ ~Stamp(text, n - 1) /\ text[n] <= id
        BY <1>1, <1>5, <1>10, <2>3, <3>1, <3>3
      <4>2. CASE i = n
        BY <1>1, <2>1, <2>3, <3>1, <4>1, <4>2
      <4>3. CASE i # n
        <5>1. i < n /\ i # n - 1 /\ n > i + 1
          BY <1>1, <2>1, <4>1, <4>3
        <5>2. text[i] < text[n]
          BY <1>6, <2>1, <3>3, <5>1
        <5>3. n \in 1 .. n
          BY <1>1, <3>1
        <5>4. text[n] \in Nat
          BY <1>1, <5>3
        <5> QED
          BY <1>1, <3>1, <4>1, <5>2, <5>4
      <4> QED
        BY <4>2, <4>3
    <3> QED
      BY <3>2, <3>3
  <2> QED
    BY <1>1, <2>1, <2>2, <2>3
<1>11. ASSUME NEW i, Stamp(new, i)
       PROVE  /\ ~(Stamp(new, i + 1) /\ (i = 1 \/ Stamp(new, i + 2)))
              /\ i < n + 1 /\ new[i + 1] < EotId => i = 1 \/ Stamp(new, i - 1)
  <2>1. i \in 1 .. n + 1
    BY <1>9, <1>11
  <2>2. ASSUME Stamp(new, i + 1), i = 1 PROVE FALSE
    <3>1. i \in 1 .. n /\ Stamp(text, i)
      BY <1>1, <1>4, <1>9, <1>11, <2>1, <2>2
    <3>2. CASE i = n
      BY <1>1, <1>5, <2>2, <3>1, <3>2
    <3>3. CASE i # n
      <4>1. i + 1 \in 1 .. n
        BY <1>1, <3>1, <3>3
      <4> QED
        BY <1>4, <1>7, <2>2, <3>1, <4>1
    <3> QED
      BY <3>2, <3>3
  <2>3. ASSUME Stamp(new, i + 1), Stamp(new, i + 2) PROVE FALSE
    <3>1. i + 2 \in 1 .. n + 1 /\ i + 1 \in 1 .. n /\ i \in 1 .. n
      BY <1>1, <1>9, <2>1, <2>3
    <3>2. Stamp(text, i) /\ Stamp(text, i + 1)
      BY <1>4, <1>11, <2>3, <3>1
    <3>3. CASE i + 2 = n + 1
      <4>1. i = n - 1 /\ i + 1 = n
        BY <1>1, <2>1, <3>3
      <4> QED
        BY <1>5, <2>3, <3>2, <3>3, <4>1
    <3>4. CASE i + 2 # n + 1
      <4>1. i + 2 \in 1 .. n
        BY <1>1, <3>1, <3>4
      <4> QED
        BY <1>4, <1>7, <2>3, <3>2, <4>1
    <3> QED
      BY <3>3, <3>4
  <2>4. ASSUME i < n + 1, new[i + 1] < EotId, i # 1 PROVE Stamp(new, i - 1)
    <3>1. i \in 1 .. n /\ i - 1 \in 1 .. n /\ Stamp(text, i)
      BY <1>1, <1>4, <1>11, <2>1, <2>4
    <3>2. CASE i = n
      <4>1. new[i + 1] = id /\ ~(id >= EotId)
        BY <1>1, <1>2, <2>4, <3>2
      <4>2. n > 1
        BY <1>1, <2>4, <3>1, <3>2
      <4>3. Stamp(text, i - 1)
        BY <1>5, <3>1, <3>2, <4>1, <4>2
      <4> QED
        BY <1>4, <3>1, <4>3
    <3>3. CASE i # n
      <4>1. i < n /\ i + 1 \in 1 .. n
        BY <1>1, <3>1, <3>3
      <4>2. text[i + 1] < EotId
        BY <1>2, <2>4, <4>1
      <4> QED
        BY <1>4, <1>7, <2>4, <3>1, <4>1, <4>2
    <3> QED
      BY <3>2, <3>3
  <2> QED
    BY <2>2, <2>3, <2>4
<1>12. Increases(new)
  BY <1>10 DEF Increases, Stamp
<1>13. InPairs(new)
  BY <1>2, <1>11 DEF InPairs, Stamp
<1> QED
  BY <1>12, <1>13 DEF new

-----------------------------------------------------------------------------
(* The rows of the search.                                                 *)

(* While the search runs, each row has a token of each step, and its       *)
(* position a hypothesis of the call.                                      *)
RowsInv ==
  /\ options \in WhisperRequests
  /\ step \in Nat
  /\ stage = "called" => step = 0
  /\ stage = "decoding" =>
       /\ CheckPrompts
       /\ batchOffset \in Seq(1 .. options.samples * Len(options.prompts))
       /\ step > 0 => \A r \in 1 .. options.beams * Len(batchOffset) :
                        sequences[r] \in Seq(Ids) /\ Len(sequences[r]) = step

(* The tokens after the prefix. *)
LEMMA SampledIs ==
  ASSUME NEW t \in Seq(Ids), NEW b \in Nat
  PROVE  LET text == SubSeq(t, b + 1, Len(t))
         IN  /\ text \in Seq(Ids)
             /\ Len(text) = IF b < Len(t) THEN Len(t) - b ELSE 0
             /\ \A i \in 1 .. Len(text) : text[i] = t[b + i]
<1> DEFINE text == SubSeq(t, b + 1, Len(t))
<1>1. Len(t) \in Nat /\ b + 1 \in Int /\ Len(t) \in Int /\ \A i \in b + 1 .. Len(t) : t[i] \in Ids
  OBVIOUS
<1>2. /\ text \in Seq(Ids)
      /\ Len(text) = IF b + 1 <= Len(t) THEN Len(t) - (b + 1) + 1 ELSE 0
      /\ \A i \in 1 .. Len(t) - (b + 1) + 1 : text[i] = t[(b + 1) + i - 1]
  BY ONLY <1>1, SubSeqProperties
<1> HIDE DEF text
<1>3. Len(text) = IF b < Len(t) THEN Len(t) - b ELSE 0
  BY <1>1, <1>2
<1>4. ASSUME NEW i \in 1 .. Len(text) PROVE text[i] = t[b + i]
  <2>1. i \in 1 .. Len(t) - (b + 1) + 1 /\ (b + 1) + i - 1 = b + i
    BY <1>1, <1>3
  <2> QED
    BY <1>2, <2>1
<1> QED
  BY <1>2, <1>3, <1>4 DEF text

LEMMA SampledGrows ==
  ASSUME NEW t \in Seq(Ids), NEW id \in Ids, NEW b \in Nat
  PROVE  SubSeq(Append(t, id), b + 1, Len(t) + 1)
           = IF b <= Len(t) THEN Append(SubSeq(t, b + 1, Len(t)), id) ELSE <<>>
<1> DEFINE text == SubSeq(t, b + 1, Len(t))
           u == Append(t, id)
           new == SubSeq(u, b + 1, Len(u))
<1>1. /\ Len(t) \in Nat /\ u \in Seq(Ids) /\ Len(u) = Len(t) + 1
      /\ u[Len(t) + 1] = id /\ \A i \in 1 .. Len(t) : u[i] = t[i]
  OBVIOUS
<1>2. /\ text \in Seq(Ids) /\ Len(text) = IF b < Len(t) THEN Len(t) - b ELSE 0
      /\ \A i \in 1 .. Len(text) : text[i] = t[b + i]
  BY SampledIs
<1>3. /\ new \in Seq(Ids) /\ Len(new) = IF b < Len(u) THEN Len(u) - b ELSE 0
      /\ \A i \in 1 .. Len(new) : new[i] = u[b + i]
  BY <1>1, SampledIs
<1> HIDE DEF text, u, new
<1>4. CASE b <= Len(t)
  <2>1. Len(new) = Len(text) + 1 /\ Len(text) \in Nat /\ b + Len(text) = Len(t)
    BY <1>1, <1>2, <1>3, <1>4
  <2>2. ASSUME NEW i \in 1 .. Len(text) + 1 PROVE new[i] = Append(text, id)[i]
    <3>1. new[i] = u[b + i]
      BY <1>3, <2>1
    <3>2. CASE i = Len(text) + 1
      <4>1. b + i = Len(t) + 1
        BY <2>1, <3>2
      <4>2. Append(text, id)[i] = id
        BY <1>2, <3>2
      <4> QED
        BY <1>1, <3>1, <4>1, <4>2
    <3>3. CASE i # Len(text) + 1
      <4>1. i \in 1 .. Len(text) /\ b + i \in 1 .. Len(t)
        BY <2>1, <3>3
      <4>2. Append(text, id)[i] = text[i]
        BY <1>2, <4>1
      <4> QED
        BY <1>1, <1>2, <3>1, <4>1, <4>2
    <3> QED
      BY <3>2, <3>3
  <2>3. Append(text, id) \in Seq(Ids) /\ Len(Append(text, id)) = Len(text) + 1
    BY <1>2
  <2>4. new = Append(text, id)
    BY <1>3, <2>1, <2>2, <2>3, SeqEqual
  <2> QED
    BY <1>1, <1>4, <2>4 DEF new, u, text
<1>5. CASE ~(b <= Len(t))
  <2>1. Len(new) = 0
    BY <1>1, <1>3, <1>5
  <2>2. new = <<>>
    BY <1>3, <2>1
  <2> QED
    BY <1>1, <1>5, <2>2 DEF new, u
<1> QED
  BY <1>4, <1>5

LEMMA RowIs ==
  ASSUME RowsInv, stage = "decoding", NEW row \in Rows
  PROVE  /\ SentenceOf(row, BeamSize) \in 1 .. Len(batchOffset)
         /\ BatchIndex(row) \in 1 .. options.samples * Len(options.prompts)
         /\ Sentence(row) \in Sentences
         /\ SampleBegin(row) \in Nat
         /\ Prefix(Sentence(row)) \in Seq(Ids)
         /\ Tokens(row) \in Seq(Ids) /\ Len(Tokens(row)) = step
<1>1. /\ options \in WhisperRequests /\ CheckPrompts /\ step \in Nat
      /\ batchOffset \in Seq(1 .. options.samples * Len(options.prompts))
  BY DEF RowsInv
<1>2. /\ options.beams \in Nat \ {0} /\ options.samples \in Nat \ {0}
      /\ Len(options.prompts) \in Nat \ {0} /\ Sentences = 1 .. Len(options.prompts)
  BY <1>1, OptionsAre, PromptsAre
<1>3. BeamSize \in Nat \ {0} /\ Len(batchOffset) \in Nat
  BY <1>1, <1>2 DEF BeamSize
<1>4. SentenceOf(row, BeamSize) \in 1 .. Len(batchOffset)
  BY <1>3, SentenceIs DEF Rows
<1>5. BatchIndex(row) \in 1 .. options.samples * Len(options.prompts)
  <2> DEFINE h == SentenceOf(row, BeamSize)
             S == 1 .. options.samples * Len(options.prompts)
  <2>1. batchOffset \in Seq(S) /\ h \in 1 .. Len(batchOffset)
    BY <1>1, <1>4
  <2> HIDE DEF h, S
  <2>2. batchOffset[h] \in S
    BY <2>1
  <2> QED
    BY <2>2 DEF BatchIndex, h, S
<1>6. Sentence(row) \in Sentences
  BY <1>2, <1>5, SentenceIs DEF Sentence
<1>7. SampleBegin(row) \in Nat /\ Prefix(Sentence(row)) \in Seq(Ids)
  BY <1>1, <1>6, PromptsAre DEF SampleBegin
<1>8. Tokens(row) \in Seq(Ids) /\ Len(Tokens(row)) = step
  <2>1. CASE step = 0
    <3>1. Tokens(row) = <<>>
      BY <2>1 DEF Tokens
    <3> QED
      BY <2>1, <3>1
  <2>2. CASE step # 0
    <3>1. BeamSize = options.beams /\ step > 0
      BY <1>1, <2>2 DEF BeamSize
    <3>2. row \in 1 .. options.beams * Len(batchOffset)
      BY <3>1 DEF Rows
    <3> QED
      BY <2>2, <3>1, <3>2 DEF RowsInv, Tokens
  <2> QED
    BY <2>1, <2>2
<1> QED
  BY <1>4, <1>5, <1>6, <1>7, <1>8

(* A token that continues a row is one of the vocabulary. *)
LEMMA ContinuationsAre ==
  ASSUME RowsInv, stage = "decoding", NEW row \in Rows
  PROVE  Continuations(row) \subseteq Ids
<1>1. CASE step < SampleBegin(row)
  <2>1. /\ step \in Nat /\ Prefix(Sentence(row)) \in Seq(Ids)
        /\ step + 1 \in 1 .. Len(Prefix(Sentence(row)))
    BY <1>1, RowIs DEF RowsInv, SampleBegin
  <2>2. Prefix(Sentence(row))[step + 1] \in Ids
    BY <2>1
  <2> QED
    BY <1>1, <2>2 DEF Continuations
<1>2. CASE ~(step < SampleBegin(row))
  <2>1. \A left \in Allowed(row) : left \subseteq Ids
    BY DEF Allowed
  <2> QED
    BY <1>2, <2>1 DEF Continuations
<1> QED
  BY <1>1, <1>2

(* A row after a step is one before it with a token more, of the same      *)
(* hypothesis of the batch.                                                *)
LEMMA StepOfRows ==
  ASSUME RowsInv, SearchStep
  PROVE  /\ batchOffset' \in Seq(1 .. options.samples * Len(options.prompts))
         /\ \A r \in 1 .. options.beams * Len(batchOffset') :
              \E row \in Rows : \E id \in Continuations(row) :
                /\ sequences'[r] = Append(Tokens(row), id)
                /\ batchOffset'[SentenceOf(r, options.beams)] = BatchIndex(row)
<1>1. /\ stage = "decoding" /\ options \in WhisperRequests
      /\ batchOffset \in Seq(1 .. options.samples * Len(options.prompts))
  BY DEF SearchStep, RowsInv
<1>2. PICK staying \in SUBSET DOMAIN batchOffset :
        LET kept == Ascending(staying)
        IN  /\ batchOffset' = [n \in DOMAIN kept |-> batchOffset[kept[n]]]
            /\ \E rows \in [1 .. Len(kept) * options.beams -> UNION {GoingOn(i) : i \in staying}] :
                 /\ \A r \in DOMAIN rows : rows[r] \in GoingOn(kept[SentenceOf(r, options.beams)])
                 /\ sequences' = rows
  BY DEF SearchStep
<1> DEFINE kept == Ascending(staying)
           k == Cardinality(staying)
           S == 1 .. options.samples * Len(options.prompts)
<1>3. k \in Nat /\ kept \in [1 .. k -> staying]
  <2>1. DOMAIN batchOffset = 1 .. Len(batchOffset) /\ Len(batchOffset) \in Nat
    BY <1>1
  <2>2. IsFiniteSet(1 .. Len(batchOffset))
    BY <2>1, FS_Interval
  <2>3. staying \in SUBSET Int /\ IsFiniteSet(staying)
    BY <2>1, <2>2, FS_Subset
  <2> QED
    BY <2>3, AscendingIs
<1>4. DOMAIN kept = 1 .. k /\ Len(kept) = k
  <2> HIDE DEF kept, k
  <2>1. kept \in Seq(staying)
    BY <1>3
  <2> QED
    BY <1>3, <2>1
<1>5. /\ batchOffset' = [n \in 1 .. k |-> batchOffset[kept[n]]]
      /\ \A r \in 1 .. k * options.beams : sequences'[r] \in GoingOn(kept[SentenceOf(r, options.beams)])
  BY <1>2, <1>4
<1>6. \A n \in 1 .. k : kept[n] \in staying /\ kept[n] \in DOMAIN batchOffset
  BY <1>3
<1> HIDE DEF kept, k
<1>7. batchOffset' \in Seq(S) /\ Len(batchOffset') = k
  <2> HIDE DEF S
  <2>1. batchOffset \in Seq(S)
    BY <1>1 DEF S
  <2>2. \A n \in 1 .. k : batchOffset[kept[n]] \in S
    BY <1>6, <2>1
  <2>3. batchOffset' \in [1 .. k -> S]
    BY <1>5, <2>2
  <2> QED
    BY <1>3, <2>3
<1>8. ASSUME NEW r \in 1 .. options.beams * Len(batchOffset')
      PROVE  \E row \in Rows : \E id \in Continuations(row) :
                /\ sequences'[r] = Append(Tokens(row), id)
                /\ batchOffset'[SentenceOf(r, options.beams)] = BatchIndex(row)
  <2> DEFINE n == SentenceOf(r, options.beams)
  <2>0. options.beams \in Nat \ {0}
    BY <1>1, OptionsAre
  <2>1. n \in 1 .. k
    BY <1>3, <1>7, <2>0, SentenceIs
  <2>2. r \in 1 .. k * options.beams
    BY <1>3, <1>7, <2>0
  <2> HIDE DEF n
  <2>3. sequences'[r] \in GoingOn(kept[n])
    BY <1>5, <2>2 DEF n
  <2>4. PICK row \in RowsAt(kept[n]) : sequences'[r] \in {Append(Tokens(row), id) : id \in Continuations(row)}
    BY <2>3 DEF GoingOn
  <2>5. row \in Rows /\ SentenceOf(row, BeamSize) = kept[n]
    BY <2>4 DEF RowsAt
  <2>6. batchOffset'[n] = BatchIndex(row)
    BY <1>5, <2>1, <2>5 DEF BatchIndex
  <2> QED
    BY <2>4, <2>5, <2>6 DEF n
<1> QED
  BY <1>7, <1>8 DEF S

LEMMA NextRows == RowsInv /\ [WhisperNext]_whisperVars => RowsInv'
<1> SUFFICES ASSUME RowsInv, [WhisperNext]_whisperVars PROVE RowsInv'
  OBVIOUS
<1>1. CASE BeginGenerate
  <2>1. /\ options' = options /\ step' = step /\ step = 0 /\ stage = "called"
        /\ stage' \in {"decoding", "refused"}
        /\ stage' = "decoding" =>
             CheckPrompts /\ batchOffset' = [h \in 1 .. options.samples * Len(options.prompts) |-> h]
    BY <1>1 DEF BeginGenerate, RowsInv
  <2>2. ASSUME stage' = "decoding"
        PROVE  CheckPrompts' /\ batchOffset' \in Seq(1 .. options.samples * Len(options.prompts))
    <3> DEFINE n == options.samples * Len(options.prompts)
    <3>1. n \in Nat
      <4>1. options.samples \in Nat /\ Len(options.prompts) \in Nat
        BY <2>1, <2>2, OptionsAre, PromptsAre DEF RowsInv
      <4> QED
        BY <4>1
    <3>2. CheckPrompts'
      BY <2>1, <2>2 DEF CheckPrompts
    <3>3. batchOffset' = [h \in 1 .. n |-> h]
      BY <2>1, <2>2
    <3> HIDE DEF n
    <3>4. batchOffset' \in Seq(1 .. n)
      BY <3>1, <3>3
    <3> QED
      BY <3>2, <3>4 DEF n
  <2> QED
    BY <2>1, <2>2 DEF RowsInv
<1>2. CASE SearchStep
  <2>1. options' = options /\ step' = step + 1 /\ stage = "decoding" /\ stage' # "called"
    BY <1>2 DEF SearchStep
  <2>2. step' \in Nat /\ CheckPrompts' /\ options' \in WhisperRequests
    BY <2>1 DEF RowsInv, CheckPrompts
  <2>3. batchOffset' \in Seq(1 .. options.samples * Len(options.prompts))
    BY <1>2, StepOfRows
  <2>4. ASSUME NEW r \in 1 .. options.beams * Len(batchOffset')
        PROVE  sequences'[r] \in Seq(Ids) /\ Len(sequences'[r]) = step + 1
    <3>1. PICK row \in Rows : \E id \in Continuations(row) : sequences'[r] = Append(Tokens(row), id)
      BY <1>2, StepOfRows
    <3>2. PICK id \in Continuations(row) : sequences'[r] = Append(Tokens(row), id)
      BY <3>1
    <3>3. Tokens(row) \in Seq(Ids) /\ Len(Tokens(row)) = step /\ id \in Ids
      BY <2>1, <3>2, RowIs, ContinuationsAre
    <3> QED
      BY <3>2, <3>3
  <2> QED
    BY <2>1, <2>2, <2>3, <2>4 DEF RowsInv
<1>3. CASE NoStep
  BY <1>3 DEF RowsInv, NoStep
<1>4. CASE UNCHANGED whisperVars
  BY <1>4 DEF RowsInv, whisperVars, CheckPrompts
<1> QED
  BY <1>1, <1>2, <1>3, <1>4 DEF WhisperNext

-----------------------------------------------------------------------------
(* What ApplyTimestampRules leaves to a row keeps the rules in the whole   *)
(* of its text.                                                            *)
LEMMA LastTimestampIs ==
  ASSUME NEW row, Sampled(row) \in Seq(Ids), Increases(Sampled(row))
  PROVE  /\ LastTimestamp(row) \in Nat
         /\ \A i \in 1 .. Len(Sampled(row)) :
              IsTimestamp(Sampled(row)[i]) => Sampled(row)[i] <= LastTimestamp(row)
<1> DEFINE text == Sampled(row)
           stamps == {i \in 1 .. Len(text) : IsTimestamp(text[i])}
           last == SelectLastInSeq(text, IsTimestamp)
<1>1. last = IF stamps # {} THEN Max(stamps) ELSE 0
  BY DEF SelectLastInSeq
<1>2. LastTimestamp(row) = IF last = 0 THEN NoTimestampsId ELSE text[last]
  BY DEF LastTimestamp
<1> HIDE DEF last
<1>3. Len(text) \in Nat /\ \A i \in 1 .. Len(text) : text[i] \in Ids
  OBVIOUS
<1>4. NoTimestampsId \in Nat /\ \A i \in Ids : i \in Nat
  BY IdsAre
<1>5. CASE stamps = {}
  <2>1. LastTimestamp(row) \in Nat
    BY <1>1, <1>2, <1>4, <1>5
  <2> QED
    BY <1>5, <2>1
<1>6. CASE stamps # {}
  <2>1. stamps \in SUBSET Int /\ IsFiniteSet(stamps)
    <3>1. IsFiniteSet(1 .. Len(text))
      BY <1>3, FS_Interval
    <3> QED
      BY <1>3, <3>1, FS_Subset
  <2>2. Max(stamps) \in stamps /\ \A i \in stamps : i <= Max(stamps)
    BY <1>6, <2>1, GreatestNumber
  <2>3. last = Max(stamps)
    BY <1>1, <1>6
  <2> DEFINE k == Max(stamps)
  <2>4. /\ k \in 1 .. Len(text) /\ IsTimestamp(text[k]) /\ text[k] \in Nat
        /\ LastTimestamp(row) = text[k]
    <3>1. k # 0 /\ k \in 1 .. Len(text) /\ IsTimestamp(text[k])
      BY <1>3, <2>2
    <3> HIDE DEF k
    <3>2. last = k
      BY <2>3 DEF k
    <3> QED
      BY <1>2, <1>3, <1>4, <3>1, <3>2
  <2>5. ASSUME NEW i \in 1 .. Len(text), IsTimestamp(text[i]) PROVE text[i] <= text[k]
    <3>1. i \in stamps /\ i <= k
      BY <2>2, <2>5
    <3> HIDE DEF k
    <3>2. CASE i = k
      BY <2>4, <3>2
    <3>3. CASE i # k
      <4>1. i < k
        BY <1>3, <2>4, <3>1, <3>3
      <4>2. i \in TimestampsOf(text) /\ k \in TimestampsOf(text)
        <5>1. DOMAIN text = 1 .. Len(text)
          OBVIOUS
        <5> QED
          BY <2>4, <2>5, <5>1 DEF TimestampsOf
      <4> QED
        BY <4>1, <4>2 DEF Increases
    <3> QED
      BY <3>2, <3>3
  <2> HIDE DEF k
  <2> QED
    BY <2>4, <2>5
<1> QED
  BY <1>5, <1>6

LEMMA RulesAreKept ==
  ASSUME RowsInv, stage = "decoding", HasRules, NEW row \in Rows, NEW id \in Continuations(row),
         SampleBegin(row) <= step,
         Increases(Sampled(row)), InPairs(Sampled(row))
  PROVE  /\ Increases(Append(Sampled(row), id)) /\ InPairs(Append(Sampled(row), id))
         /\ step = 0 /\ SampleBegin(row) = 0 =>
              id \in TimestampBeginId .. TimestampBeginId + options.maxInitial
<1> DEFINE text == Sampled(row)
           b == SampleBegin(row)
           n == Len(text)
           t == Tokens(row)
<1>1. step \in Nat /\ b \in Nat /\ t \in Seq(Ids) /\ Len(t) = step /\ b <= step
  BY RowIs DEF RowsInv
<1>2. text = SubSeq(t, b + 1, Len(t))
  BY <1>1 DEF Sampled
<1>3. text \in Seq(Ids) /\ Len(text) = (IF b < Len(t) THEN Len(t) - b ELSE 0)
      /\ \A i \in 1 .. Len(text) : text[i] = t[b + i]
  <2> HIDE DEF text, t, b
  <2>1. LET u == SubSeq(t, b + 1, Len(t))
        IN  /\ u \in Seq(Ids) /\ Len(u) = IF b < Len(t) THEN Len(t) - b ELSE 0
            /\ \A i \in 1 .. Len(u) : u[i] = t[b + i]
    BY <1>1, SampledIs
  <2> QED
    BY <1>2, <2>1
<1>4. id \in Ids
  BY ContinuationsAre
<1>5. id \notin RuledOut(row)
  <2>1. Continuations(row) = UNION Allowed(row)
    BY <1>1 DEF Continuations
  <2>2. \A left \in Allowed(row) : left \cap RuledOut(row) = {}
    BY DEF Allowed
  <2> QED
    BY <2>1, <2>2
<1>6. id \in Nat /\ EotId \in Nat /\ \A i \in Ids : i \in Nat
  BY <1>4, IdsAre
<1> HIDE DEF text, b, n, t
<1>7. n \in Nat /\ n = step - b /\ (n > 0 <=> step > b) /\ (n > 1 <=> step - 1 > b)
  BY <1>1, <1>3 DEF n
<1>8. n > 0 => Last(t) = text[n]
  <2>1. n > 0 => n \in 1 .. Len(text) /\ b + n = step
    BY <1>1, <1>7 DEF n
  <2> QED
    BY <1>1, <1>3, <2>1 DEF Last
<1>9. n > 1 => Penultimate(row) = text[n - 1]
  <2>1. n > 1 => n - 1 \in 1 .. Len(text) /\ b + (n - 1) = step - 1
    BY <1>1, <1>7 DEF n
  <2>2. n > 1 => Penultimate(row) = t[step - 1]
    BY <1>7 DEF Penultimate, t, b
  <2> QED
    BY <1>3, <2>1, <2>2
<1>10. n = 1 => Penultimate(row) = Last(t)
  BY <1>7 DEF Penultimate, t, b
<1>11. n > 0 => Sampling(row)
  BY <1>7 DEF Sampling, b
<1>12. n > 0 /\ IsTimestamp(text[n]) /\ (n = 1 \/ IsTimestamp(text[n - 1])) => ~IsTimestamp(id)
  <2> SUFFICES ASSUME n > 0, IsTimestamp(text[n]), n = 1 \/ IsTimestamp(text[n - 1])
               PROVE  ~IsTimestamp(id)
    OBVIOUS
  <2>1. IsTimestamp(Penultimate(row))
    <3>1. CASE n = 1
      BY <1>8, <1>10, <3>1
    <3>2. CASE n # 1
      <4>1. n > 1
        BY <1>7, <3>2
      <4> QED
        BY <1>9, <3>2, <4>1
    <3> QED
      BY <3>1, <3>2
  <2>2. PairIsClosed(row)
    BY <1>8, <1>11, <2>1 DEF PairIsClosed, t
  <2>3. id \notin {i \in Ids : IsTimestamp(i)}
    BY <1>5, <2>2 DEF RuledOut
  <2> QED
    BY <1>4, <2>3
<1>13. n > 1 /\ IsTimestamp(text[n]) /\ ~IsTimestamp(text[n - 1]) =>
         id >= EotId /\ (IsTimestamp(id) => text[n] <= id)
  <2> SUFFICES ASSUME n > 1, IsTimestamp(text[n]), ~IsTimestamp(text[n - 1])
               PROVE  id >= EotId /\ (IsTimestamp(id) => text[n] <= id)
    OBVIOUS
  <2>1. n > 0
    BY <1>7
  <2>2. PairIsOpen(row)
    BY <1>8, <1>9, <1>11, <2>1 DEF PairIsOpen, t
  <2>3. id \notin {i \in Ids : i < EotId \/ (IsTimestamp(i) /\ i < Last(Tokens(row)))}
    BY <1>5, <2>2 DEF RuledOut
  <2>4. ~(id < EotId) /\ ~(IsTimestamp(id) /\ id < text[n])
    BY <1>4, <1>8, <2>1, <2>3 DEF t
  <2>5. text[n] \in Nat
    <3>1. n \in 1 .. Len(text)
      BY <1>7, <2>1 DEF n
    <3> QED
      BY <1>3, <1>6, <3>1
  <2> QED
    BY <1>6, <2>4, <2>5
<1>14. n > 0 /\ ~IsTimestamp(text[n]) /\ IsTimestamp(id) =>
         \A i \in 1 .. n : IsTimestamp(text[i]) => text[i] < id
  <2> SUFFICES ASSUME n > 0, ~IsTimestamp(text[n]), IsTimestamp(id),
                      NEW i \in 1 .. n, IsTimestamp(text[i])
               PROVE  text[i] < id
    OBVIOUS
  <2>1. InText(row)
    BY <1>8, <1>11 DEF InText, t
  <2>2. id \notin Past(row)
    BY <1>5, <2>1 DEF RuledOut
  <2>3. ~(id <= LastTimestamp(row))
    BY <1>4, <2>2 DEF Past
  <2>4. LastTimestamp(row) \in Nat /\ text[i] <= LastTimestamp(row)
    BY <1>3, LastTimestampIs DEF text, n
  <2>5. text[i] \in Nat
    BY <1>3, <1>6 DEF n
  <2> QED
    BY <1>6, <2>3, <2>4, <2>5
<1>15. Increases(Append(text, id)) /\ InPairs(Append(text, id))
  BY <1>3, <1>4, <1>12, <1>13, <1>14, TextGrows DEF n, text
<1>16. ASSUME step = 0, b = 0
       PROVE  id \in TimestampBeginId .. TimestampBeginId + options.maxInitial
  <2>1. id \notin {i \in Ids : ~IsTimestamp(i) \/ i > TimestampBeginId + options.maxInitial}
    BY <1>5, <1>16 DEF RuledOut, b
  <2>2. IsTimestamp(id) /\ ~(id > TimestampBeginId + options.maxInitial)
    BY <1>4, <2>1
  <2>3. options.maxInitial \in Nat /\ TimestampBeginId \in Nat
    BY OptionsAre, IdsAre DEF RowsInv
  <2> QED
    BY <1>6, <2>2, <2>3 DEF IsTimestamp
<1> QED
  BY <1>15, <1>16 DEF text, b

(* Before the first step there is nothing to keep.                         *)
LEMMA NothingIsSampled ==
  ASSUME RowsInv, stage = "decoding", step = 0, NEW row \in Rows
  PROVE  Increases(Sampled(row)) /\ InPairs(Sampled(row))
<1>1. SampleBegin(row) \in Nat
  BY RowIs
<1>2. SampleBegin(row) + 1 \in Int /\ 0 \in Int /\ 0 < SampleBegin(row) + 1
  BY <1>1
<1>3. SubSeq(Tokens(row), SampleBegin(row) + 1, 0) = <<>>
  BY ONLY <1>2, SubSeqEmpty
<1>4. Sampled(row) = <<>>
  BY <1>3 DEF Sampled
<1>5. TimestampsOf(<<>>) = {}
  BY DEF TimestampsOf
<1> QED
  BY <1>4, <1>5 DEF Increases, InPairs

(* The texts of the empty sequence. *)
LEMMA EmptyIsKept == Increases(<<>>) /\ InPairs(<<>>)
<1>1. TimestampsOf(<<>>) = {}
  BY DEF TimestampsOf
<1> QED
  BY <1>1 DEF Increases, InPairs

RulesInv == RowsInv /\ (step > 0 => TimestampsKeepTheRules)

LEMMA StepKeepsRules ==
  ASSUME RulesInv, SearchStep, HasRules, NEW r \in 1 .. options.beams * Len(batchOffset')
  PROVE  /\ Increases(Sampled(r)') /\ InPairs(Sampled(r)')
         /\ SampleBegin(r)' = 0 =>
              Tokens(r)'[1] \in TimestampBeginId .. TimestampBeginId + options.maxInitial
<1>1. RowsInv /\ stage = "decoding" /\ options' = options /\ step' = step + 1 /\ step \in Nat
  BY DEF SearchStep, RulesInv, RowsInv
<1>2. PICK row \in Rows : \E id \in Continuations(row) :
        /\ sequences'[r] = Append(Tokens(row), id)
        /\ batchOffset'[SentenceOf(r, options.beams)] = BatchIndex(row)
  BY <1>1, StepOfRows
<1>3. PICK id \in Continuations(row) :
        /\ sequences'[r] = Append(Tokens(row), id)
        /\ batchOffset'[SentenceOf(r, options.beams)] = BatchIndex(row)
  BY <1>2
<1> DEFINE t == Tokens(row)
           b == SampleBegin(row)
<1>4. /\ t \in Seq(Ids) /\ Len(t) = step /\ b \in Nat
      /\ Prefix(Sentence(row)) \in Seq(Ids) /\ id \in Ids
  BY <1>1, RowIs, ContinuationsAre
<1>5. step' # 0 /\ step' > 0 /\ BeamSize' = options.beams
  BY <1>1 DEF BeamSize
<1>6. SampleBegin(r)' = b
  <2>1. BatchIndex(r)' = BatchIndex(row)
    BY <1>3, <1>5 DEF BatchIndex
  <2>2. Sentence(r)' = Sentence(row)
    BY <1>1, <2>1 DEF Sentence
  <2>3. Prefix(Sentence(r))' = Prefix(Sentence(row))
    BY <1>1, <2>2 DEF Prefix, Task
  <2> QED
    BY <2>3 DEF SampleBegin
<1>7. Tokens(r)' = Append(t, id)
  BY <1>3, <1>5 DEF Tokens
<1>8. Sampled(r)' = SubSeq(Append(t, id), b + 1, Len(t) + 1)
  BY <1>1, <1>4, <1>6, <1>7 DEF Sampled
<1>9. Sampled(row) = SubSeq(t, b + 1, Len(t))
  BY <1>4 DEF Sampled
<1>10. Sampled(r)' = IF b <= step THEN Append(Sampled(row), id) ELSE <<>>
  BY <1>4, <1>8, <1>9, SampledGrows
<1>11. Increases(Sampled(row)) /\ InPairs(Sampled(row))
  <2>1. CASE step = 0
    BY <1>1, <2>1, NothingIsSampled
  <2>2. CASE step # 0
    <3>1. TimestampsKeepTheRules
      BY <1>1, <2>2 DEF RulesInv
    <3> QED
      BY <1>1, <3>1 DEF TimestampsKeepTheRules
  <2> QED
    BY <2>1, <2>2
<1>12. b <= step =>
         /\ Increases(Append(Sampled(row), id)) /\ InPairs(Append(Sampled(row), id))
         /\ step = 0 /\ b = 0 => id \in TimestampBeginId .. TimestampBeginId + options.maxInitial
  BY <1>1, <1>11, RulesAreKept
<1>13. Increases(Sampled(r)') /\ InPairs(Sampled(r)')
  BY <1>10, <1>12, EmptyIsKept
<1>14. ASSUME b = 0
       PROVE  Tokens(r)'[1] \in TimestampBeginId .. TimestampBeginId + options.maxInitial
  <2>1. CASE step = 0
    <3>1. Append(t, id)[1] = id
      BY <1>4, <2>1
    <3> QED
      BY <1>1, <1>7, <1>12, <1>14, <2>1, <3>1
  <2>2. CASE step # 0
    <3>1. TimestampsKeepTheRules /\ step > 0
      BY <1>1, <2>2 DEF RulesInv
    <3>2. t[1] \in TimestampBeginId .. TimestampBeginId + options.maxInitial
      BY <1>1, <1>14, <3>1 DEF TimestampsKeepTheRules
    <3>3. Append(t, id)[1] = t[1]
      BY <1>1, <1>4, <2>2
    <3> QED
      BY <1>7, <3>2, <3>3
  <2> QED
    BY <2>1, <2>2
<1> QED
  BY <1>6, <1>13, <1>14

LEMMA NextRules == RulesInv /\ [WhisperNext]_whisperVars => RulesInv'
<1> SUFFICES ASSUME RulesInv, [WhisperNext]_whisperVars, step' > 0 PROVE TimestampsKeepTheRules'
  BY NextRows DEF RulesInv
<1>1. CASE BeginGenerate
  BY <1>1 DEF BeginGenerate, RulesInv, RowsInv
<1>2. CASE SearchStep
  <2>1. options' = options /\ step' # 0
    BY <1>2 DEF SearchStep, RulesInv, RowsInv
  <2>2. BeamSize' = options.beams
    BY <2>1 DEF BeamSize
  <2>3. Rows' = 1 .. options.beams * Len(batchOffset')
    BY <2>2 DEF Rows
  <2>4. HasRules' = HasRules
    BY <2>1 DEF HasRules, Task
  <2> QED
    BY <1>2, <2>1, <2>3, <2>4, StepKeepsRules DEF TimestampsKeepTheRules
<1>3. CASE NoStep
  BY <1>3 DEF NoStep, TimestampsKeepTheRules
<1>4. CASE UNCHANGED whisperVars
  <2>1. TimestampsKeepTheRules
    BY <1>4 DEF RulesInv, whisperVars
  <2> QED
    BY <1>4, <2>1 DEF TimestampsKeepTheRules, whisperVars, HasRules, Task, Rows, BeamSize, Sampled,
                      SampleBegin, Sentence, BatchIndex, Prefix, Tokens
<1> QED
  BY <1>1, <1>2, <1>3, <1>4 DEF WhisperNext

(* Every row keeps the rules of ApplyTimestampRules in the whole of its    *)
(* text, for any vocabulary, prompts, beams and samples.                   *)
THEOREM TextsKeepTheRules == WhisperSpec => []TimestampsKeepTheRules
<1>1. WhisperInit => RulesInv
  BY DEF WhisperInit, RulesInv, RowsInv
<1>2. WhisperSpec => []RulesInv
  BY <1>1, NextRules, PTL DEF WhisperSpec
<1>3. RulesInv => TimestampsKeepTheRules
  <2> SUFFICES ASSUME RulesInv, ~(step > 0), stage = "decoding", NEW row \in Rows
               PROVE  /\ Increases(Sampled(row)) /\ InPairs(Sampled(row))
                      /\ ~(step > 0)
    BY DEF RulesInv, TimestampsKeepTheRules
  <2>1. RowsInv /\ step = 0
    BY DEF RulesInv, RowsInv
  <2> QED
    BY <2>1, NothingIsSampled
<1> QED
  BY <1>2, <1>3, PTL
=============================================================================
