--------------------------- MODULE ThreadPool_proofs ---------------------------
(***************************************************************************)
(* Proofs about ThreadPool for any set of clients, workers and jobs and    *)
(* any queue size.  Each invariant is proved on top of the previous ones.  *)
(***************************************************************************)
EXTENDS ThreadPool, FiniteSetTheorems, SequenceTheorems, TLAPS

(* The states of the threads, and which of them hold a job: TypeOK except  *)
(* that the counter, an unsigned integer in the code, may be any integer.  *)
Shape ==
  /\ queue \in Seq(Jobs)
  /\ requestEnd \in BOOLEAN
  /\ numActive \in Int
  /\ client \in [Clients -> ClientStates]
  /\ clientJob \in [Clients -> Jobs \cup {NoJob}]
  /\ worker \in [Workers -> WorkerStates]
  /\ workerJob \in [Workers -> Jobs \cup {NoJob}]
  /\ owner \in OwnerStates
  /\ enqueued \in Seq(Jobs)
  /\ started \in Seq(Jobs)
  /\ finished \in SUBSET Jobs
  /\ \A c \in Clients : clientJob[c] # NoJob <=> client[c] \in {"putting", "waiting"}
  /\ \A w \in Workers :
       workerJob[w] # NoJob <=> worker[w] \in {"notifying", "running", "ran"}

LEMMA InitShape == Init => Shape
<1> SUFFICES ASSUME Init PROVE Shape
  OBVIOUS
<1> USE DEF Init
<1>1. /\ queue \in Seq(Jobs) /\ enqueued \in Seq(Jobs) /\ started \in Seq(Jobs)
      /\ numActive \in Int /\ finished \in SUBSET Jobs
  OBVIOUS
<1>5. requestEnd \in BOOLEAN
  OBVIOUS
<1>2. /\ client \in [Clients -> ClientStates]
      /\ clientJob \in [Clients -> Jobs \cup {NoJob}]
      /\ \A c \in Clients : clientJob[c] # NoJob <=> client[c] \in {"putting", "waiting"}
  BY DEF ClientStates
<1>3. /\ worker \in [Workers -> WorkerStates]
      /\ workerJob \in [Workers -> Jobs \cup {NoJob}]
      /\ \A w \in Workers :
           workerJob[w] # NoJob <=> worker[w] \in {"notifying", "running", "ran"}
  BY DEF WorkerStates
<1>4. owner \in OwnerStates
  BY DEF OwnerStates
<1> QED
  BY <1>1, <1>2, <1>3, <1>4, <1>5 DEF Shape

LEMMA NextShape == Shape /\ [Next]_poolVars => Shape'
<1> SUFFICES ASSUME Shape, [Next]_poolVars PROVE Shape'
  OBVIOUS
<1> USE ThreadPoolAssumption DEF Shape, ClientStates, WorkerStates, OwnerStates
<1>1. ASSUME NEW c \in Clients, NEW j \in Jobs, Post(c, j) PROVE Shape'
  BY <1>1 DEF Post
<1>2. ASSUME NEW c \in Clients, PutEnqueue(c) PROVE Shape'
  BY <1>2 DEF PutEnqueue, Pushed
<1>3. ASSUME NEW c \in Clients, PutWait(c) PROVE Shape'
  BY <1>3 DEF PutWait
<1>4. ASSUME NEW c \in Clients, PutNotify(c) PROVE Shape'
  BY <1>4 DEF PutNotify, NotifyOneWorker, WorkersAt
<1>5. ASSUME NEW w \in Workers, Initialize(w) PROVE Shape'
  BY <1>5 DEF Initialize
<1>6. ASSUME NEW w \in Workers, GetWait(w) PROVE Shape'
  BY <1>6 DEF GetWait
<1>7. ASSUME NEW w \in Workers, GetJob(w) PROVE Shape'
  <2>1. Head(queue) \in Jobs /\ Tail(queue) \in Seq(Jobs)
    BY <1>7 DEF GetJob, CanTakeJob
  <2> QED
    BY <1>7, <2>1 DEF GetJob
<1>8. ASSUME NEW w \in Workers, GetNull(w) PROVE Shape'
  BY <1>8 DEF GetNull
<1>9. ASSUME NEW w \in Workers, GetNotify(w) PROVE Shape'
  BY <1>9 DEF GetNotify, NotifyOneClient, ClientsAt
<1>10. ASSUME NEW w \in Workers, Run(w) PROVE Shape'
  BY <1>10 DEF Run
<1>11. ASSUME NEW w \in Workers, DestroyJob(w) PROVE Shape'
  BY <1>11 DEF DestroyJob
<1>12. ASSUME NEW w \in Workers, Finalize(w) PROVE Shape'
  BY <1>12 DEF Finalize
<1>13. CASE Destroy
  BY <1>13 DEF Destroy
<1>14. CASE CloseRequest
  BY <1>14 DEF CloseRequest
<1>15. CASE CloseNotify
  BY <1>15 DEF CloseNotify, NotifyAllWorkers
<1>16. CASE JoinWorkers
  BY <1>16 DEF JoinWorkers
<1>17. ASSUME NEW c \in Clients, WakeClient(c) PROVE Shape'
  BY <1>17 DEF WakeClient
<1>18. ASSUME NEW w \in Workers, WakeWorker(w) PROVE Shape'
  BY <1>18 DEF WakeWorker
<1>19. CASE UNCHANGED poolVars
  BY <1>19 DEF poolVars
<1> QED
  BY <1>1, <1>2, <1>3, <1>4, <1>5, <1>6, <1>7, <1>8, <1>9, <1>10, <1>11, <1>12,
     <1>13, <1>14, <1>15, <1>16, <1>17, <1>18, <1>19
     DEF Next, PutStep, WorkerStep, DestroyStep, Terminated

(* Every variable has its shape, up to the bound of the counter.           *)
THEOREM ShapeInvariant == Spec => []Shape
  BY InitShape, NextShape, PTL DEF Spec

-----------------------------------------------------------------------------
(* The queue. *)

LEMMA NextFirstInFirstOut ==
  Shape /\ FirstInFirstOut /\ [Next]_poolVars => FirstInFirstOut'
<1> SUFFICES ASSUME Shape, FirstInFirstOut, [Next]_poolVars PROVE FirstInFirstOut'
  OBVIOUS
<1> USE DEF FirstInFirstOut
<1>0. /\ queue \in Seq(Jobs) /\ started \in Seq(Jobs) /\ enqueued \in Seq(Jobs)
      /\ enqueued = started \o queue
  BY DEF Shape
<1>1. ASSUME NEW c \in Clients, PutEnqueue(c) PROVE FirstInFirstOut'
  <2>1. clientJob[c] \in Jobs
    BY <1>1 DEF PutEnqueue, Shape
  <2>2. Append(enqueued, clientJob[c]) = (started \o queue) \o <<clientJob[c]>>
    BY <1>0, <2>1, AppendIsConcat
  <2>3. @ = started \o (queue \o <<clientJob[c]>>)
    BY <1>0, <2>1, ConcatAssociative
  <2>4. @ = started \o Append(queue, clientJob[c])
    BY <1>0, <2>1, AppendIsConcat
  <2> QED
    BY <1>1, <2>2, <2>3, <2>4 DEF PutEnqueue, Pushed
<1>2. ASSUME NEW w \in Workers, GetJob(w) PROVE FirstInFirstOut'
  <2>1. /\ Head(queue) \in Jobs /\ Tail(queue) \in Seq(Jobs)
        /\ queue = <<Head(queue)>> \o Tail(queue)
    BY <1>2, <1>0, HeadTailProperties DEF GetJob, CanTakeJob
  <2>2. started \o queue = (started \o <<Head(queue)>>) \o Tail(queue)
    BY <1>0, <2>1, ConcatAssociative
  <2>3. @ = Append(started, Head(queue)) \o Tail(queue)
    BY <1>0, <2>1, AppendIsConcat
  <2> QED
    BY <1>0, <1>2, <2>2, <2>3 DEF GetJob
<1>3. ASSUME UNCHANGED <<queue, started, enqueued>> PROVE FirstInFirstOut'
  BY <1>3
<1> QED
  BY <1>1, <1>2, <1>3
     DEF Next, PutStep, WorkerStep, DestroyStep, Terminated, poolVars, Post, PutWait,
         PutNotify, Initialize, GetWait, GetNull, GetNotify, Run, DestroyJob, Finalize,
         Destroy, CloseRequest, CloseNotify, JoinWorkers, WakeClient, WakeWorker

(* The queue gives the jobs back in the order in which they were put, and  *)
(* none is lost in between.                                                *)
THEOREM FirstInFirstOutInvariant == Spec => []FirstInFirstOut
<1>1. Init => FirstInFirstOut
  BY DEF Init, FirstInFirstOut
<1> QED
  BY <1>1, NextFirstInFirstOut, ShapeInvariant, PTL DEF Spec

LEMMA NextQueueBounded == Shape /\ QueueBounded /\ [Next]_poolVars => QueueBounded'
<1> SUFFICES ASSUME Shape, QueueBounded, [Next]_poolVars PROVE QueueBounded'
  OBVIOUS
<1> USE ThreadPoolAssumption DEF QueueBounded
<1>0. queue \in Seq(Jobs) /\ Len(queue) \in Nat
  BY DEF Shape
<1>1. ASSUME NEW c \in Clients, PutEnqueue(c) PROVE QueueBounded'
  <2>1. clientJob[c] \in Jobs /\ Len(queue) < MaxQueue
    BY <1>1 DEF PutEnqueue, Shape, CanPutJob
  <2>2. Len(Append(queue, clientJob[c])) = Len(queue) + 1
    BY <1>0, <2>1
  <2> QED
    BY <1>0, <1>1, <2>1, <2>2 DEF PutEnqueue, Pushed
<1>2. ASSUME NEW w \in Workers, GetJob(w) PROVE QueueBounded'
  <2>1. Len(Tail(queue)) = Len(queue) - 1
    BY <1>0, <1>2 DEF GetJob, CanTakeJob
  <2> QED
    BY <1>0, <1>2, <2>1 DEF GetJob
<1>3. ASSUME UNCHANGED queue PROVE QueueBounded'
  BY <1>3
<1> QED
  BY <1>1, <1>2, <1>3
     DEF Next, PutStep, WorkerStep, DestroyStep, Terminated, poolVars, Post, PutWait,
         PutNotify, Initialize, GetWait, GetNull, GetNotify, Run, DestroyJob, Finalize,
         Destroy, CloseRequest, CloseNotify, JoinWorkers, WakeClient, WakeWorker

(* The queue never holds more than _maximum_size jobs, whatever the number *)
(* of clients that are blocked in put and the wake-ups they get.           *)
THEOREM QueueBoundedInvariant == Spec => []QueueBounded
<1>1. Init => QueueBounded
  BY ThreadPoolAssumption DEF Init, QueueBounded
<1> QED
  BY <1>1, NextQueueBounded, ShapeInvariant, PTL DEF Spec

-----------------------------------------------------------------------------
(* The destruction. *)

(* Nobody posts once the destructor has begun, the end request comes from  *)
(* the destructor, and a worker that left its loop has seen the queue      *)
(* empty with nobody left to fill it.                                      *)
Closing ==
  /\ owner # "alive" => \A c \in Clients : client[c] = "idle"
  /\ requestEnd => owner # "alive"
  /\ \A w \in Workers : worker[w] \in {"exiting", "exited"} => requestEnd /\ queue = <<>>
  /\ owner = "destroyed" => \A w \in Workers : worker[w] = "exited"

LEMMA NextClosing == Shape /\ Closing /\ [Next]_poolVars => Closing'
<1> SUFFICES ASSUME Shape, Closing, [Next]_poolVars PROVE Closing'
  OBVIOUS
<1> USE ThreadPoolAssumption DEF Closing, Shape, ClientStates, WorkerStates, OwnerStates
<1>1. ASSUME NEW c \in Clients, NEW j \in Jobs, Post(c, j) PROVE Closing'
  BY <1>1 DEF Post
<1>2. ASSUME NEW c \in Clients, PutEnqueue(c) PROVE Closing'
  BY <1>2 DEF PutEnqueue, Pushed
<1>3. ASSUME NEW c \in Clients, PutWait(c) PROVE Closing'
  BY <1>3 DEF PutWait
<1>4. ASSUME NEW c \in Clients, PutNotify(c) PROVE Closing'
  BY <1>4 DEF PutNotify, NotifyOneWorker, WorkersAt
<1>5. ASSUME NEW w \in Workers, Initialize(w) PROVE Closing'
  BY <1>5 DEF Initialize
<1>6. ASSUME NEW w \in Workers, GetWait(w) PROVE Closing'
  BY <1>6 DEF GetWait
<1>7. ASSUME NEW w \in Workers, GetJob(w) PROVE Closing'
  BY <1>7 DEF GetJob, CanTakeJob
<1>8. ASSUME NEW w \in Workers, GetNull(w) PROVE Closing'
  BY <1>8 DEF GetNull, CanGetJob, CanTakeJob
<1>9. ASSUME NEW w \in Workers, GetNotify(w) PROVE Closing'
  BY <1>9 DEF GetNotify, NotifyOneClient, ClientsAt
<1>10. ASSUME NEW w \in Workers, Run(w) PROVE Closing'
  BY <1>10 DEF Run
<1>11. ASSUME NEW w \in Workers, DestroyJob(w) PROVE Closing'
  BY <1>11 DEF DestroyJob
<1>12. ASSUME NEW w \in Workers, Finalize(w) PROVE Closing'
  BY <1>12 DEF Finalize
<1>13. CASE Destroy
  BY <1>13 DEF Destroy, ClientsAt
<1>14. CASE CloseRequest
  BY <1>14 DEF CloseRequest
<1>15. CASE CloseNotify
  BY <1>15 DEF CloseNotify, NotifyAllWorkers
<1>16. CASE JoinWorkers
  BY <1>16 DEF JoinWorkers
<1>17. ASSUME NEW c \in Clients, WakeClient(c) PROVE Closing'
  BY <1>17 DEF WakeClient
<1>18. ASSUME NEW w \in Workers, WakeWorker(w) PROVE Closing'
  BY <1>18 DEF WakeWorker
<1>19. CASE UNCHANGED poolVars
  BY <1>19 DEF poolVars
<1> QED
  BY <1>1, <1>2, <1>3, <1>4, <1>5, <1>6, <1>7, <1>8, <1>9, <1>10, <1>11, <1>12,
     <1>13, <1>14, <1>15, <1>16, <1>17, <1>18, <1>19
     DEF Next, PutStep, WorkerStep, DestroyStep, Terminated

(* A job that was taken from the queue and has not run is in the hands of  *)
(* a worker that is going to run it; only taken jobs run.                  *)
Held ==
  /\ finished \subseteq Range(started)
  /\ \A w \in WorkersAt({"notifying", "running"}) : workerJob[w] \in Range(started)
  /\ \A j \in Range(started) \ finished :
       \E w \in WorkersAt({"notifying", "running"}) : workerJob[w] = j

LEMMA RangeAppend ==
  ASSUME NEW S, NEW s \in Seq(S), NEW e \in S
  PROVE  Range(Append(s, e)) = Range(s) \cup {e}
<1>1. /\ DOMAIN Append(s, e) = 1 .. Len(s) + 1
      /\ \A i \in 1 .. Len(s) : Append(s, e)[i] = s[i]
      /\ Append(s, e)[Len(s) + 1] = e
      /\ DOMAIN s = 1 .. Len(s) /\ Len(s) \in Nat
  OBVIOUS
<1>2. 1 .. Len(s) + 1 = (1 .. Len(s)) \cup {Len(s) + 1}
  BY <1>1
<1> QED
  BY <1>1, <1>2 DEF Range

LEMMA NextHeld == Shape /\ Held /\ [Next]_poolVars => Held'
<1> SUFFICES ASSUME Shape, Held, [Next]_poolVars PROVE Held'
  OBVIOUS
<1> DEFINE H == WorkersAt({"notifying", "running"})
<1>0. /\ worker \in [Workers -> WorkerStates]
      /\ workerJob \in [Workers -> Jobs \cup {NoJob}]
      /\ queue \in Seq(Jobs) /\ started \in Seq(Jobs)
  BY DEF Shape
<1>1. ASSUME NEW w \in Workers, GetJob(w) PROVE Held'
  <2>1. Head(queue) \in Jobs
    BY <1>0, <1>1 DEF GetJob, CanTakeJob
  <2>2. Range(started)' = Range(started) \cup {Head(queue)}
    BY <1>0, <1>1, <2>1, RangeAppend DEF GetJob
  <2>3. w \notin H /\ H' = H \cup {w}
    BY <1>0, <1>1 DEF GetJob, WorkersAt, WorkerStates
  <2>4. /\ workerJob'[w] = Head(queue)
        /\ \A v \in H : workerJob'[v] = workerJob[v]
        /\ finished' = finished
    BY <1>0, <1>1, <2>3 DEF GetJob, WorkersAt
  <2> HIDE DEF H
  <2>5. \A j \in Range(started)' \ finished' : \E v \in H' : workerJob'[v] = j
    BY <2>2, <2>3, <2>4 DEF Held, H
  <2> QED
    BY <2>2, <2>3, <2>4, <2>5 DEF Held, H
<1>2. ASSUME NEW w \in Workers, Run(w) PROVE Held'
  <2>1. w \in H /\ H' = H \ {w}
    BY <1>0, <1>2 DEF Run, WorkersAt, WorkerStates
  <2>2. /\ finished' = finished \cup {workerJob[w]}
        /\ UNCHANGED <<started, workerJob>>
    BY <1>2 DEF Run
  <2> HIDE DEF H
  <2> QED
    BY <2>1, <2>2 DEF Held, H
<1>3. ASSUME H' = H, \A v \in H : workerJob'[v] = workerJob[v], UNCHANGED <<started, finished>>
      PROVE  Held'
  <2> HIDE DEF H
  <2> QED
    BY <1>3 DEF Held, H
<1>4. ASSUME NEW w \in Workers,
             \/ Initialize(w) \/ GetWait(w) \/ GetNull(w) \/ GetNotify(w)
             \/ DestroyJob(w) \/ Finalize(w) \/ WakeWorker(w)
      PROVE  Held'
  BY <1>0, <1>3, <1>4
     DEF Initialize, GetWait, GetNull, GetNotify, DestroyJob, Finalize, WakeWorker,
         WorkersAt, WorkerStates
<1>5. ASSUME NEW c \in Clients, PutNotify(c) PROVE Held'
  BY <1>0, <1>3, <1>5 DEF PutNotify, NotifyOneWorker, WorkersAt, WorkerStates
<1>6. CASE CloseNotify
  BY <1>0, <1>3, <1>6 DEF CloseNotify, NotifyAllWorkers, WorkersAt, WorkerStates
<1>7. ASSUME UNCHANGED <<worker, workerJob, started, finished>> PROVE Held'
  BY <1>3, <1>7 DEF WorkersAt
<1> QED
  BY <1>1, <1>2, <1>4, <1>5, <1>6, <1>7
     DEF Next, PutStep, WorkerStep, DestroyStep, Terminated, poolVars, Post,
         PutEnqueue, PutWait, Destroy, CloseRequest, JoinWorkers, WakeClient

(* The destructor returns only when every job that was ever put has run    *)
(* and no worker holds one.                                                *)
THEOREM Drained == Spec => []DrainedWhenDestroyed
<1>1. Init => Closing /\ Held
  BY DEF Init, Closing, Held, Range, WorkersAt
<1>2. Shape /\ FirstInFirstOut /\ Closing /\ Held => DrainedWhenDestroyed
  <2> SUFFICES ASSUME Shape, FirstInFirstOut, Closing, Held, owner = "destroyed"
               PROVE  /\ queue = <<>>
                      /\ finished = Range(enqueued)
                      /\ \A w \in Workers : workerJob[w] = NoJob
    BY DEF DrainedWhenDestroyed
  <2>1. \A w \in Workers : worker[w] = "exited"
    BY DEF Closing
  <2>2. queue = <<>>
    BY <2>1, ThreadPoolAssumption DEF Closing
  <2>3. enqueued = started
    BY <2>2, ConcatEmptySeq DEF Shape, FirstInFirstOut
  <2>4. finished = Range(started)
    BY <2>1 DEF Held, WorkersAt
  <2> QED
    BY <2>1, <2>2, <2>3, <2>4 DEF Shape
<1> QED
  BY <1>1, <1>2, NextClosing, NextHeld, ShapeInvariant, FirstInFirstOutInvariant, PTL
     DEF Spec

-----------------------------------------------------------------------------
(* The counter of active jobs. *)

LEMMA FiniteGroups ==
  ASSUME NEW pc
  PROVE  /\ IsFiniteSet(ClientsAt(pc)) /\ Cardinality(ClientsAt(pc)) \in Nat
         /\ IsFiniteSet(WorkersAt(pc)) /\ Cardinality(WorkersAt(pc)) \in Nat
  BY ThreadPoolAssumption, FS_Subset, FS_CardinalityType DEF ClientsAt, WorkersAt

LEMMA NextActiveJobsCounted ==
  Shape /\ ActiveJobsCounted /\ [Next]_poolVars => ActiveJobsCounted'
<1> SUFFICES ASSUME Shape, ActiveJobsCounted, [Next]_poolVars PROVE ActiveJobsCounted'
  OBVIOUS
<1> DEFINE P == ClientsAt({"putting", "waiting"})
           A == WorkersAt({"notifying", "running", "ran"})
<1>0. /\ client \in [Clients -> ClientStates]
      /\ worker \in [Workers -> WorkerStates]
      /\ queue \in Seq(Jobs) /\ Len(queue) \in Nat /\ numActive \in Int
      /\ IsFiniteSet(P) /\ Cardinality(P) \in Nat
      /\ IsFiniteSet(A) /\ Cardinality(A) \in Nat
      /\ numActive = Cardinality(P) + Len(queue) + Cardinality(A)
  BY FiniteGroups DEF Shape, ActiveJobsCounted
<1>1. ASSUME P' = P, A' = A, UNCHANGED <<queue, numActive>> PROVE ActiveJobsCounted'
  BY <1>0, <1>1 DEF ActiveJobsCounted
<1>2. ASSUME NEW c \in Clients, NEW j \in Jobs, Post(c, j) PROVE ActiveJobsCounted'
  <2>1. c \notin P /\ P' = P \cup {c} /\ A' = A
    BY <1>0, <1>2 DEF Post, ClientsAt, WorkersAt, ClientStates
  <2>2. Cardinality(P') = Cardinality(P) + 1
    BY <1>0, <2>1, FS_AddElement
  <2>3. queue' = queue /\ numActive' = numActive + 1
    BY <1>2 DEF Post
  <2> QED
    BY <1>0, <2>1, <2>2, <2>3 DEF ActiveJobsCounted
<1>3. ASSUME NEW c \in Clients, PutEnqueue(c) PROVE ActiveJobsCounted'
  <2>1. c \in P /\ P' = P \ {c} /\ A' = A
    BY <1>0, <1>3 DEF PutEnqueue, ClientsAt, WorkersAt, ClientStates
  <2>2. Cardinality(P') = Cardinality(P) - 1
    BY <1>0, <2>1, FS_RemoveElement
  <2>3. Len(queue') = Len(queue) + 1 /\ numActive' = numActive
    BY <1>0, <1>3 DEF PutEnqueue, Pushed, Shape
  <2> QED
    BY <1>0, <2>1, <2>2, <2>3 DEF ActiveJobsCounted
<1>4. ASSUME NEW w \in Workers, GetJob(w) PROVE ActiveJobsCounted'
  <2>1. w \notin A /\ A' = A \cup {w} /\ P' = P
    BY <1>0, <1>4 DEF GetJob, ClientsAt, WorkersAt, WorkerStates
  <2>2. Cardinality(A') = Cardinality(A) + 1
    BY <1>0, <2>1, FS_AddElement
  <2>3. Len(queue') = Len(queue) - 1 /\ numActive' = numActive
    BY <1>0, <1>4 DEF GetJob, CanTakeJob
  <2> QED
    BY <1>0, <2>1, <2>2, <2>3 DEF ActiveJobsCounted
<1>5. ASSUME NEW w \in Workers, DestroyJob(w) PROVE ActiveJobsCounted'
  <2>1. w \in A /\ A' = A \ {w} /\ P' = P
    BY <1>0, <1>5 DEF DestroyJob, ClientsAt, WorkersAt, WorkerStates
  <2>2. Cardinality(A') = Cardinality(A) - 1
    BY <1>0, <2>1, FS_RemoveElement
  <2>3. queue' = queue /\ numActive' = numActive - 1
    BY <1>5 DEF DestroyJob
  <2> QED
    BY <1>0, <2>1, <2>2, <2>3 DEF ActiveJobsCounted
<1>6. ASSUME NEW c \in Clients, PutNotify(c) PROVE ActiveJobsCounted'
  BY <1>0, <1>1, <1>6
     DEF PutNotify, NotifyOneWorker, ClientsAt, WorkersAt, ClientStates, WorkerStates
<1>7. ASSUME NEW w \in Workers, GetNotify(w) PROVE ActiveJobsCounted'
  BY <1>0, <1>1, <1>7
     DEF GetNotify, NotifyOneClient, ClientsAt, WorkersAt, ClientStates, WorkerStates
<1>8. ASSUME NEW c \in Clients, PutWait(c) \/ WakeClient(c) PROVE ActiveJobsCounted'
  BY <1>0, <1>1, <1>8 DEF PutWait, WakeClient, ClientsAt, WorkersAt, ClientStates
<1>9. ASSUME NEW w \in Workers,
             \/ Initialize(w) \/ GetWait(w) \/ GetNull(w) \/ Run(w)
             \/ Finalize(w) \/ WakeWorker(w)
      PROVE  ActiveJobsCounted'
  BY <1>0, <1>1, <1>9
     DEF Initialize, GetWait, GetNull, Run, Finalize, WakeWorker, ClientsAt, WorkersAt,
         WorkerStates
<1>10. CASE CloseNotify
  BY <1>0, <1>1, <1>10 DEF CloseNotify, NotifyAllWorkers, ClientsAt, WorkersAt, WorkerStates
<1>11. ASSUME UNCHANGED <<client, worker, queue, numActive>> PROVE ActiveJobsCounted'
  BY <1>1, <1>11 DEF ClientsAt, WorkersAt
<1> QED
  BY <1>2, <1>3, <1>4, <1>5, <1>6, <1>7, <1>8, <1>9, <1>10, <1>11
     DEF Next, PutStep, WorkerStep, DestroyStep, Terminated, poolVars, Destroy,
         CloseRequest, JoinWorkers

(* The counter is the number of jobs being put, queued or held by a worker. *)
THEOREM ActiveJobsCountedInvariant == Spec => []ActiveJobsCounted
<1>1. Init => ActiveJobsCounted
  <2> SUFFICES ASSUME Init PROVE ActiveJobsCounted
    OBVIOUS
  <2>1. /\ ClientsAt({"putting", "waiting"}) = {}
        /\ WorkersAt({"notifying", "running", "ran"}) = {}
        /\ Len(queue) = 0 /\ numActive = 0
    BY DEF Init, ClientsAt, WorkersAt
  <2>2. /\ Cardinality(ClientsAt({"putting", "waiting"})) = 0
        /\ Cardinality(WorkersAt({"notifying", "running", "ran"})) = 0
    BY <2>1, FS_EmptySet, Zenon
  <2> QED
    BY <2>1, <2>2 DEF ActiveJobsCounted
<1> QED
  BY <1>1, NextActiveJobsCounted, ShapeInvariant, PTL DEF Spec

(* The types of the variables; that the unsigned counter never wraps needs *)
(* the accounting above.                                                   *)
THEOREM TypeCorrect == Spec => []TypeOK
<1>1. Shape /\ ActiveJobsCounted => TypeOK
  <2> SUFFICES ASSUME Shape, ActiveJobsCounted PROVE TypeOK
    OBVIOUS
  <2>1. Len(queue) \in Nat
    BY DEF Shape
  <2>2. numActive \in Nat
    BY <2>1, FiniteGroups DEF ActiveJobsCounted
  <2> QED
    BY <2>2 DEF Shape, TypeOK
<1> QED
  BY <1>1, ShapeInvariant, ActiveJobsCountedInvariant, PTL

-----------------------------------------------------------------------------
(* The condition variables. *)

(* The three parts of NoLostWakeup. *)
QueuedJobsSeen ==
  WorkersAt({"waiting"}) # {} =>
    Len(queue) <= Cardinality(WorkersAt({"getting"})) + Cardinality(ClientsAt({"notifying"}))

EndRequestSeen == WorkersAt({"waiting"}) # {} /\ requestEnd => owner = "notifying"

FreeSlotsSeen ==
  ClientsAt({"waiting"}) # {} =>
    MaxQueue - Len(queue) <= Cardinality(ClientsAt({"putting"}))
                             + Cardinality(WorkersAt({"notifying"}))

LEMMA NextQueuedJobsSeen == Shape /\ QueuedJobsSeen /\ [Next]_poolVars => QueuedJobsSeen'
<1> SUFFICES ASSUME Shape, QueuedJobsSeen, [Next]_poolVars PROVE QueuedJobsSeen'
  OBVIOUS
<1> DEFINE W == WorkersAt({"waiting"})
           G == WorkersAt({"getting"})
           N == ClientsAt({"notifying"})
<1>0. /\ client \in [Clients -> ClientStates]
      /\ worker \in [Workers -> WorkerStates]
      /\ queue \in Seq(Jobs) /\ Len(queue) \in Nat
      /\ IsFiniteSet(G) /\ Cardinality(G) \in Nat
      /\ IsFiniteSet(N) /\ Cardinality(N) \in Nat
      /\ W # {} => Len(queue) <= Cardinality(G) + Cardinality(N)
  BY FiniteGroups DEF Shape, QueuedJobsSeen
<1>1. /\ IsFiniteSet(G') /\ Cardinality(G') \in Nat
      /\ IsFiniteSet(N') /\ Cardinality(N') \in Nat
  BY ThreadPoolAssumption, FS_Subset, FS_CardinalityType DEF ClientsAt, WorkersAt
<1>2. ASSUME W' \subseteq W, G \subseteq G', N \subseteq N', queue' = queue
      PROVE  QueuedJobsSeen'
  <2>1. Cardinality(G) <= Cardinality(G') /\ Cardinality(N) <= Cardinality(N')
    BY <1>1, <1>2, FS_Subset
  <2>2. W' # {} => W # {}
    BY <1>2
  <2> QED
    BY <1>0, <1>1, <1>2, <2>1, <2>2 DEF QueuedJobsSeen
<1>3. ASSUME queue' = <<>> PROVE QueuedJobsSeen'
  <2>1. Len(queue') = 0
    BY <1>3
  <2> QED
    BY <1>1, <2>1 DEF QueuedJobsSeen
<1>4. ASSUME W' = {} PROVE QueuedJobsSeen'
  BY <1>4 DEF QueuedJobsSeen
<1>5. ASSUME NEW c \in Clients, PutEnqueue(c) PROVE QueuedJobsSeen'
  <2>1. c \notin N /\ N' = N \cup {c} /\ W' = W /\ G' = G
    BY <1>0, <1>5 DEF PutEnqueue, ClientsAt, WorkersAt, ClientStates
  <2>2. Cardinality(N') = Cardinality(N) + 1
    BY <1>0, <2>1, FS_AddElement
  <2>3. Len(queue') = Len(queue) + 1
    BY <1>0, <1>5 DEF PutEnqueue, Pushed, Shape
  <2> QED
    BY <1>0, <2>1, <2>2, <2>3 DEF QueuedJobsSeen
<1>6. ASSUME NEW c \in Clients, PutNotify(c) PROVE QueuedJobsSeen'
  <2>1. c \in N /\ N' = N \ {c}
    BY <1>0, <1>6 DEF PutNotify, ClientsAt, ClientStates
  <2>2. Cardinality(N') = Cardinality(N) - 1 /\ queue' = queue
    BY <1>0, <1>6, <2>1, FS_RemoveElement DEF PutNotify
  <2>3. ASSUME NEW w \in W, worker' = [worker EXCEPT ![w] = "getting"]
        PROVE  QueuedJobsSeen'
    <3>1. w \notin G /\ G' = G \cup {w}
      BY <1>0, <2>3 DEF WorkersAt, WorkerStates
    <3>2. Cardinality(G') = Cardinality(G) + 1
      BY <1>0, <3>1, FS_AddElement
    <3> QED
      BY <1>0, <2>2, <2>3, <3>2 DEF QueuedJobsSeen
  <2>4. ASSUME W = {}, worker' = worker PROVE QueuedJobsSeen'
    BY <1>4, <2>4 DEF WorkersAt
  <2> QED
    BY <1>6, <2>3, <2>4 DEF PutNotify, NotifyOneWorker
<1>7. ASSUME NEW w \in Workers, GetJob(w) PROVE QueuedJobsSeen'
  <2>1. w \in G /\ G' = G \ {w} /\ W' = W /\ N' = N
    BY <1>0, <1>7 DEF GetJob, ClientsAt, WorkersAt, WorkerStates
  <2>2. Cardinality(G') = Cardinality(G) - 1
    BY <1>0, <2>1, FS_RemoveElement
  <2>3. Len(queue') = Len(queue) - 1
    BY <1>0, <1>7 DEF GetJob, CanTakeJob
  <2> QED
    BY <1>0, <2>1, <2>2, <2>3 DEF QueuedJobsSeen
<1>8. ASSUME NEW w \in Workers, GetWait(w) \/ GetNull(w) PROVE QueuedJobsSeen'
  BY <1>3, <1>8 DEF GetWait, GetNull, CanGetJob, CanTakeJob
<1>9. ASSUME NEW w \in Workers,
             Initialize(w) \/ Run(w) \/ DestroyJob(w) \/ Finalize(w) \/ WakeWorker(w)
      PROVE  QueuedJobsSeen'
  BY <1>0, <1>2, <1>9
     DEF Initialize, Run, DestroyJob, Finalize, WakeWorker, ClientsAt, WorkersAt, WorkerStates
<1>10. ASSUME NEW w \in Workers, GetNotify(w) PROVE QueuedJobsSeen'
  BY <1>0, <1>2, <1>10
     DEF GetNotify, NotifyOneClient, ClientsAt, WorkersAt, ClientStates, WorkerStates
<1>11. ASSUME NEW c \in Clients, NEW j \in Jobs, Post(c, j) PROVE QueuedJobsSeen'
  BY <1>0, <1>2, <1>11 DEF Post, ClientsAt, WorkersAt, ClientStates
<1>12. ASSUME NEW c \in Clients, PutWait(c) \/ WakeClient(c) PROVE QueuedJobsSeen'
  BY <1>0, <1>2, <1>12 DEF PutWait, WakeClient, ClientsAt, WorkersAt, ClientStates
<1>13. CASE CloseNotify
  BY <1>0, <1>4, <1>13 DEF CloseNotify, NotifyAllWorkers, WorkersAt
<1>14. ASSUME UNCHANGED <<client, worker, queue>> PROVE QueuedJobsSeen'
  BY <1>2, <1>14 DEF ClientsAt, WorkersAt
<1> QED
  BY <1>5, <1>6, <1>7, <1>8, <1>9, <1>10, <1>11, <1>12, <1>13, <1>14
     DEF Next, PutStep, WorkerStep, DestroyStep, Terminated, poolVars, Destroy,
         CloseRequest, JoinWorkers

LEMMA NextEndRequestSeen ==
  Shape /\ Closing /\ EndRequestSeen /\ [Next]_poolVars => EndRequestSeen'
<1> SUFFICES ASSUME Shape, Closing, EndRequestSeen, [Next]_poolVars PROVE EndRequestSeen'
  OBVIOUS
<1> DEFINE W == WorkersAt({"waiting"})
<1>0. worker \in [Workers -> WorkerStates] /\ (requestEnd => owner # "alive")
  BY DEF Shape, Closing
<1>1. ASSUME W' \subseteq W, UNCHANGED <<requestEnd, owner>> PROVE EndRequestSeen'
  BY <1>1 DEF EndRequestSeen
<1>2. ASSUME NEW c \in Clients, PutNotify(c) PROVE EndRequestSeen'
  BY <1>0, <1>1, <1>2 DEF PutNotify, NotifyOneWorker, WorkersAt, WorkerStates
<1>3. ASSUME NEW w \in Workers, GetWait(w) PROVE EndRequestSeen'
  BY <1>3 DEF GetWait, CanGetJob, EndRequestSeen
<1>4. ASSUME NEW w \in Workers,
             \/ Initialize(w) \/ GetJob(w) \/ GetNull(w) \/ GetNotify(w) \/ Run(w)
             \/ DestroyJob(w) \/ Finalize(w) \/ WakeWorker(w)
      PROVE  EndRequestSeen'
  BY <1>0, <1>1, <1>4
     DEF Initialize, GetJob, GetNull, GetNotify, Run, DestroyJob, Finalize, WakeWorker,
         WorkersAt, WorkerStates
<1>5. CASE CloseNotify
  BY <1>0, <1>5 DEF CloseNotify, NotifyAllWorkers, WorkersAt, EndRequestSeen
<1>6. CASE CloseRequest
  BY <1>6 DEF CloseRequest, EndRequestSeen
<1>7. CASE Destroy
  BY <1>0, <1>7 DEF Destroy, EndRequestSeen
<1>8. CASE JoinWorkers
  BY <1>8 DEF JoinWorkers, WorkersAt, EndRequestSeen
<1>9. ASSUME UNCHANGED <<worker, requestEnd, owner>> PROVE EndRequestSeen'
  BY <1>1, <1>9 DEF WorkersAt
<1> QED
  BY <1>2, <1>3, <1>4, <1>5, <1>6, <1>7, <1>8, <1>9
     DEF Next, PutStep, WorkerStep, DestroyStep, Terminated, poolVars, Post, PutEnqueue,
         PutWait, WakeClient

LEMMA NextFreeSlotsSeen == Shape /\ FreeSlotsSeen /\ [Next]_poolVars => FreeSlotsSeen'
<1> SUFFICES ASSUME Shape, FreeSlotsSeen, [Next]_poolVars PROVE FreeSlotsSeen'
  OBVIOUS
<1> DEFINE W == ClientsAt({"waiting"})
           P == ClientsAt({"putting"})
           N == WorkersAt({"notifying"})
<1>0. /\ client \in [Clients -> ClientStates]
      /\ worker \in [Workers -> WorkerStates]
      /\ queue \in Seq(Jobs) /\ Len(queue) \in Nat /\ MaxQueue \in Nat
      /\ IsFiniteSet(P) /\ Cardinality(P) \in Nat
      /\ IsFiniteSet(N) /\ Cardinality(N) \in Nat
      /\ W # {} => MaxQueue - Len(queue) <= Cardinality(P) + Cardinality(N)
  BY FiniteGroups, ThreadPoolAssumption DEF Shape, FreeSlotsSeen
<1>1. /\ IsFiniteSet(P') /\ Cardinality(P') \in Nat
      /\ IsFiniteSet(N') /\ Cardinality(N') \in Nat
  BY ThreadPoolAssumption, FS_Subset, FS_CardinalityType DEF ClientsAt, WorkersAt
<1>2. ASSUME W' \subseteq W, P \subseteq P', N \subseteq N', queue' = queue
      PROVE  FreeSlotsSeen'
  <2>1. Cardinality(P) <= Cardinality(P') /\ Cardinality(N) <= Cardinality(N')
    BY <1>1, <1>2, FS_Subset
  <2>2. W' # {} => W # {}
    BY <1>2
  <2> QED
    BY <1>0, <1>1, <1>2, <2>1, <2>2 DEF FreeSlotsSeen
<1>3. ASSUME NEW c \in Clients, PutEnqueue(c) PROVE FreeSlotsSeen'
  <2>1. c \in P /\ P' = P \ {c} /\ W' = W /\ N' = N
    BY <1>0, <1>3 DEF PutEnqueue, ClientsAt, WorkersAt, ClientStates
  <2>2. Cardinality(P') = Cardinality(P) - 1
    BY <1>0, <2>1, FS_RemoveElement
  <2>3. Len(queue') = Len(queue) + 1
    BY <1>0, <1>3 DEF PutEnqueue, Pushed, Shape
  <2> QED
    BY <1>0, <2>1, <2>2, <2>3 DEF FreeSlotsSeen
<1>4. ASSUME NEW c \in Clients, PutWait(c) PROVE FreeSlotsSeen'
  <2>1. Len(queue') \in Nat /\ MaxQueue - Len(queue') <= 0
    BY <1>0, <1>4 DEF PutWait, CanPutJob
  <2> QED
    BY <1>0, <1>1, <2>1 DEF FreeSlotsSeen
<1>5. ASSUME NEW w \in Workers, GetJob(w) PROVE FreeSlotsSeen'
  <2>1. w \notin N /\ N' = N \cup {w} /\ W' = W /\ P' = P
    BY <1>0, <1>5 DEF GetJob, ClientsAt, WorkersAt, WorkerStates
  <2>2. Cardinality(N') = Cardinality(N) + 1
    BY <1>0, <2>1, FS_AddElement
  <2>3. Len(queue') = Len(queue) - 1
    BY <1>0, <1>5 DEF GetJob, CanTakeJob
  <2> QED
    BY <1>0, <2>1, <2>2, <2>3 DEF FreeSlotsSeen
<1>6. ASSUME NEW w \in Workers, GetNotify(w) PROVE FreeSlotsSeen'
  <2>1. w \in N /\ N' = N \ {w}
    BY <1>0, <1>6 DEF GetNotify, WorkersAt, WorkerStates
  <2>2. Cardinality(N') = Cardinality(N) - 1 /\ queue' = queue
    BY <1>0, <1>6, <2>1, FS_RemoveElement DEF GetNotify
  <2>3. ASSUME NEW c \in W, client' = [client EXCEPT ![c] = "putting"]
        PROVE  FreeSlotsSeen'
    <3>1. c \notin P /\ P' = P \cup {c}
      BY <1>0, <2>3 DEF ClientsAt, ClientStates
    <3>2. Cardinality(P') = Cardinality(P) + 1
      BY <1>0, <3>1, FS_AddElement
    <3> QED
      BY <1>0, <2>2, <2>3, <3>2 DEF FreeSlotsSeen
  <2>4. ASSUME W = {}, client' = client PROVE FreeSlotsSeen'
    BY <2>4 DEF ClientsAt, FreeSlotsSeen
  <2> QED
    BY <1>6, <2>3, <2>4 DEF GetNotify, NotifyOneClient
<1>7. ASSUME NEW c \in Clients, PutNotify(c) PROVE FreeSlotsSeen'
  BY <1>0, <1>2, <1>7
     DEF PutNotify, NotifyOneWorker, ClientsAt, WorkersAt, ClientStates, WorkerStates
<1>8. ASSUME NEW c \in Clients, NEW j \in Jobs, Post(c, j) PROVE FreeSlotsSeen'
  BY <1>0, <1>2, <1>8 DEF Post, ClientsAt, WorkersAt, ClientStates
<1>9. ASSUME NEW c \in Clients, WakeClient(c) PROVE FreeSlotsSeen'
  BY <1>0, <1>2, <1>9 DEF WakeClient, ClientsAt, WorkersAt, ClientStates
<1>10. ASSUME NEW w \in Workers,
              \/ Initialize(w) \/ GetWait(w) \/ GetNull(w) \/ Run(w)
              \/ DestroyJob(w) \/ Finalize(w) \/ WakeWorker(w)
       PROVE  FreeSlotsSeen'
  BY <1>0, <1>2, <1>10
     DEF Initialize, GetWait, GetNull, Run, DestroyJob, Finalize, WakeWorker, ClientsAt,
         WorkersAt, WorkerStates
<1>11. CASE CloseNotify
  BY <1>0, <1>2, <1>11 DEF CloseNotify, NotifyAllWorkers, ClientsAt, WorkersAt, WorkerStates
<1>12. ASSUME UNCHANGED <<client, worker, queue>> PROVE FreeSlotsSeen'
  BY <1>2, <1>12 DEF ClientsAt, WorkersAt
<1> QED
  BY <1>3, <1>4, <1>5, <1>6, <1>7, <1>8, <1>9, <1>10, <1>11, <1>12
     DEF Next, PutStep, WorkerStep, DestroyStep, Terminated, poolVars, Destroy,
         CloseRequest, JoinWorkers

(* No wake-up is lost, for any number of threads and with spurious         *)
(* wake-ups: nobody sleeps on a condition that holds unless another thread *)
(* is about to look at it or to notify.                                    *)
THEOREM NoWakeupIsLost == Spec => []NoLostWakeup
<1>1. Init => Closing /\ QueuedJobsSeen /\ EndRequestSeen /\ FreeSlotsSeen
  BY DEF Init, Closing, QueuedJobsSeen, EndRequestSeen, FreeSlotsSeen, ClientsAt, WorkersAt
<1>2. QueuedJobsSeen /\ EndRequestSeen /\ FreeSlotsSeen => NoLostWakeup
  BY DEF QueuedJobsSeen, EndRequestSeen, FreeSlotsSeen, NoLostWakeup
<1> QED
  BY <1>1, <1>2, NextClosing, NextQueuedJobsSeen, NextEndRequestSeen, NextFreeSlotsSeen,
     ShapeInvariant, PTL DEF Spec
-----------------------------------------------------------------------------
(* The abstract service. *)

(* A job that is being put was not put before, and by one client only. *)
PostedOnce ==
  /\ \A c \in Clients : clientJob[c] # NoJob => clientJob[c] \notin Range(enqueued)
  /\ \A c, d \in Clients : clientJob[c] = clientJob[d] /\ clientJob[c] # NoJob => c = d

LEMMA NextPostedOnce == Shape /\ PostedOnce /\ [Next]_poolVars => PostedOnce'
<1> SUFFICES ASSUME Shape, PostedOnce, [Next]_poolVars PROVE PostedOnce'
  OBVIOUS
<1>0. clientJob \in [Clients -> Jobs \cup {NoJob}] /\ enqueued \in Seq(Jobs)
  BY DEF Shape
<1>1. ASSUME NEW c \in Clients, NEW j \in Jobs, Post(c, j) PROVE PostedOnce'
  BY <1>0, <1>1, ThreadPoolAssumption DEF Post, Posted, PostedOnce
<1>2. ASSUME NEW c \in Clients, PutEnqueue(c) PROVE PostedOnce'
  <2>1. clientJob[c] \in Jobs /\ clientJob[c] # NoJob
    BY <1>2, ThreadPoolAssumption DEF PutEnqueue, Shape
  <2>2. Range(enqueued') = Range(enqueued) \cup {clientJob[c]}
    BY <1>0, <1>2, <2>1, RangeAppend DEF PutEnqueue
  <2>3. clientJob' = [clientJob EXCEPT ![c] = NoJob]
    BY <1>2 DEF PutEnqueue
  <2> QED
    BY <1>0, <2>1, <2>2, <2>3 DEF PostedOnce
<1>3. ASSUME UNCHANGED <<clientJob, enqueued>> PROVE PostedOnce'
  BY <1>3 DEF PostedOnce
<1> QED
  BY <1>1, <1>2, <1>3
     DEF Next, PutStep, WorkerStep, DestroyStep, Terminated, poolVars, PutWait,
         PutNotify, Initialize, GetWait, GetJob, GetNull, GetNotify, Run, DestroyJob,
         Finalize, Destroy, CloseRequest, CloseNotify, JoinWorkers, WakeClient, WakeWorker

(* A worker that is about to take a job leaves a server free. *)
LEMMA ServerIsFree ==
  ASSUME Shape, Held, NEW w \in Workers, worker[w] = "getting"
  PROVE  Cardinality(Range(started) \ finished) < Cardinality(Workers)
<1> DEFINE H == WorkersAt({"notifying", "running"})
           T == {workerJob[v] : v \in H}
           jobOf == [v \in H |-> workerJob[v]]
<1>1. /\ IsFiniteSet(Workers) /\ IsFiniteSet(H) /\ Cardinality(H) \in Nat
      /\ Cardinality(Workers) \in Nat
  BY ThreadPoolAssumption, FiniteGroups, FS_CardinalityType
<1>2. H \subseteq Workers \ {w}
  BY DEF WorkersAt
<1>3. /\ IsFiniteSet(Workers \ {w})
      /\ Cardinality(Workers \ {w}) = Cardinality(Workers) - 1
  BY <1>1, FS_RemoveElement
<1>4. Cardinality(H) <= Cardinality(Workers) - 1
  BY <1>2, <1>3, FS_Subset
<1>5. jobOf \in Surjection(H, T)
  BY DEF Surjection
<1>6. IsFiniteSet(T) /\ Cardinality(T) <= Cardinality(H)
  BY <1>1, <1>5, FS_Surjection
<1>7. Range(started) \ finished \subseteq T
  BY DEF Held
<1>8. Cardinality(Range(started) \ finished) <= Cardinality(T)
  BY <1>6, <1>7, FS_Subset
<1>9. Cardinality(T) \in Nat /\ Cardinality(Range(started) \ finished) \in Nat
  BY <1>6, <1>7, FS_Subset, FS_CardinalityType
<1> QED
  BY <1>1, <1>4, <1>6, <1>8, <1>9

(* What is put, taken and run follows the abstract service: a job is       *)
(* accepted once and into a backlog that has room, jobs start in the order *)
(* of acceptance with a server for each, and nothing is accepted after the *)
(* destructor has begun. The fairness of JobService is left to the runs.   *)
THEOREM StepsOfService == Spec => Service!Init /\ [][Service!Next]_(Service!serviceVars)
<1>1. Init => Service!Init /\ Closing /\ Held /\ PostedOnce
  BY DEF Init, Service!Init, Closing, Held, PostedOnce, Range, WorkersAt
<1>2. ASSUME Shape, FirstInFirstOut, QueueBounded, Held, Closing, PostedOnce, [Next]_poolVars
      PROVE  [Service!Next]_(Service!serviceVars)
  <2>0. /\ enqueued \in Seq(Jobs) /\ started \in Seq(Jobs) /\ queue \in Seq(Jobs)
        /\ enqueued = started \o queue
        /\ Len(enqueued) = Len(started) + Len(queue)
        /\ Len(started) \in Nat /\ Len(queue) \in Nat /\ MaxQueue \in Nat
    BY <1>2, ConcatProperties, ThreadPoolAssumption DEF Shape, FirstInFirstOut
  <2>1. ASSUME NEW c \in Clients, PutEnqueue(c) PROVE \E j \in Jobs : Service!Accept(j)
    <3>1. clientJob[c] \in Jobs /\ clientJob[c] \notin Range(enqueued)
      BY <1>2, <2>1, ThreadPoolAssumption DEF PutEnqueue, Shape, PostedOnce
    <3>2. owner = "alive"
      BY <1>2, <2>1 DEF PutEnqueue, Closing
    <3>3. Len(enqueued) - Len(started) < MaxQueue
      BY <2>0, <2>1 DEF PutEnqueue, CanPutJob
    <3> QED
      BY <2>1, <3>1, <3>2, <3>3 DEF PutEnqueue, Service!Accept, Service!Range, Range
  <2>2. ASSUME NEW w \in Workers, GetJob(w) PROVE Service!Start
    <3>1. Len(queue) > 0 /\ Head(queue) = queue[1]
      BY <2>0, <2>2 DEF GetJob, CanTakeJob
    <3>2. enqueued[Len(started) + 1] = Head(queue)
      BY <2>0, <3>1, ConcatProperties
    <3>3. Cardinality(Range(started) \ finished) < Cardinality(Workers)
      BY <1>2, <2>2, ServerIsFree DEF GetJob
    <3> QED
      BY <2>0, <2>2, <3>1, <3>2, <3>3 DEF GetJob, Service!Start, Service!InProgress,
            Service!Range, Range, Service!Cardinality, Cardinality
  <2>3. ASSUME NEW w \in Workers, Run(w)
        PROVE  (\E j \in Jobs : Service!Finish(j)) \/ UNCHANGED Service!serviceVars
    <3>1. workerJob[w] \in Range(started) /\ workerJob[w] \in Jobs
      BY <1>2, <2>3, ThreadPoolAssumption DEF Run, Held, WorkersAt, Shape
    <3>2. CASE workerJob[w] \in finished
      BY <2>3, <3>2 DEF Run, Service!serviceVars
    <3>3. CASE workerJob[w] \notin finished
      BY <2>3, <3>1, <3>3 DEF Run, Service!Finish, Service!InProgress, Service!Range, Range
    <3> QED
      BY <3>2, <3>3
  <2>4. CASE Destroy
    BY <2>4 DEF Destroy, Service!Close, Service!Next
  <2>5. ASSUME UNCHANGED <<enqueued, started, finished>>,
               (owner' = "alive") = (owner = "alive")
        PROVE  UNCHANGED Service!serviceVars
    BY <2>5 DEF Service!serviceVars
  <2> QED
    BY <1>2, <2>1, <2>2, <2>3, <2>4, <2>5
       DEF Next, PutStep, WorkerStep, DestroyStep, Terminated, poolVars, Post, PutWait,
           PutNotify, Initialize, GetWait, GetNull, GetNotify, DestroyJob, Finalize,
           CloseRequest, CloseNotify, JoinWorkers, WakeClient, WakeWorker, Service!Next
<1> QED
  BY <1>1, <1>2, NextClosing, NextHeld, NextPostedOnce, ShapeInvariant,
     FirstInFirstOutInvariant, QueueBoundedInvariant, PTL DEF Spec
=============================================================================
