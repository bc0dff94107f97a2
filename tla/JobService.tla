------------------------------ MODULE JobService ------------------------------
(***************************************************************************)
(* What a pool of workers promises to the code that posts jobs, without    *)
(* locks, condition variables or threads: jobs are accepted into a bounded *)
(* first-in first-out backlog, at most Servers of them are in progress,    *)
(* and every accepted job is eventually finished, even after the service   *)
(* is closed.  ThreadPool implements this module.                          *)
(***************************************************************************)
EXTENDS Integers, Sequences, Functions, FiniteSets

CONSTANTS
  Jobs,      \* the jobs that may be posted
  Servers,   \* number of jobs that can be in progress together
  Backlog    \* number of accepted jobs that may wait to be started

VARIABLES
  accepted,  \* the jobs accepted so far, in order
  started,   \* the jobs handed to a server so far, in order
  finished,  \* the jobs whose execution is complete
  open       \* whether the service still accepts jobs

serviceVars == <<accepted, started, finished, open>>

InProgress == Range(started) \ finished

Init ==
  /\ accepted = <<>>
  /\ started = <<>>
  /\ finished = {}
  /\ open = TRUE

Accept(j) ==
  /\ open
  /\ j \notin Range(accepted)
  /\ Len(accepted) - Len(started) < Backlog
  /\ accepted' = Append(accepted, j)
  /\ UNCHANGED <<started, finished, open>>

Start ==
  /\ Len(started) < Len(accepted)
  /\ Cardinality(InProgress) < Servers
  /\ started' = Append(started, accepted[Len(started) + 1])
  /\ UNCHANGED <<accepted, finished, open>>

Finish(j) ==
  /\ j \in InProgress
  /\ finished' = finished \cup {j}
  /\ UNCHANGED <<accepted, started, open>>

Close ==
  /\ open
  /\ open' = FALSE
  /\ UNCHANGED <<accepted, started, finished>>

Next ==
  \/ \E j \in Jobs : Accept(j) \/ Finish(j)
  \/ Start
  \/ Close

Spec ==
  /\ Init
  /\ [][Next]_serviceVars
  /\ WF_serviceVars(Start)
  /\ \A j \in Jobs : WF_serviceVars(Finish(j))
=============================================================================
