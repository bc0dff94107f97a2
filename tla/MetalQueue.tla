------------------------------ MODULE MetalQueue ------------------------------
(***************************************************************************)
(* The command queue of the Metal backend, src/metal/device.mm: operators  *)
(* of any thread encode a command buffer and commit it without waiting;    *)
(* flush, which comes before every access of the CPU to Metal memory,      *)
(* waits for the command buffer that was committed last, by any thread.    *)
(*                                                                         *)
(* A command buffer is known by its place among the pending ones, 0 once   *)
(* it has completed: Execute moves all the places.                         *)
(***************************************************************************)
EXTENDS Integers, Sequences

CONSTANTS
  Threads,     \* threads that issue operators
  Commands,    \* what a command buffer may hold
  MaxPending   \* bound on the number of pending command buffers

ASSUME MetalQueueAssumption == MaxPending \in Nat \ {0}

VARIABLES
  pending,    \* committed command buffers that have not completed, in order
  last,       \* g_last_committed
  toWait,     \* to_wait of the flush of each thread
  flushing,   \* whether each thread is in flush
  before      \* history: the pending commands when the flush began

queueVars == <<pending, last, toWait, flushing, before>>

QueueTypeOK ==
  /\ pending \in Seq(Commands)
  /\ last \in 0 .. Len(pending)
  /\ toWait \in [Threads -> 0 .. Len(pending)]
  /\ flushing \in [Threads -> BOOLEAN]
  /\ before \in [Threads -> 0 .. Len(pending)]

QueueInit ==
  /\ pending = <<>>
  /\ last = 0
  /\ toWait = [t \in Threads |-> 0]
  /\ flushing = [t \in Threads |-> FALSE]
  /\ before = [t \in Threads |-> 0]

(* commit_command_buffer, for the commands of an operator: the commit and  *)
(* the record of the last buffer are one critical section.                 *)
Commit(t, commands) ==
  /\ ~flushing[t]
  /\ Len(pending) + Len(commands) <= MaxPending
  /\ pending' = pending \o commands
  /\ last' = IF commands = <<>> THEN last ELSE Len(pending) + Len(commands)
  /\ UNCHANGED <<toWait, flushing, before>>

(* A plausible mistake: the CPU goes on at once.                           *)
FlushWithoutWait(t) ==
  /\ ~flushing[t]
  /\ flushing' = [flushing EXCEPT ![t] = TRUE]
  /\ before' = [before EXCEPT ![t] = 0]
  /\ UNCHANGED <<pending, last, toWait>>

(* flush takes the last buffer under the lock ...                          *)
FlushBegin(t) ==
  /\ ~flushing[t]
  /\ toWait' = [toWait EXCEPT ![t] = last]
  /\ before' = [before EXCEPT ![t] = Len(pending)]
  /\ flushing' = [flushing EXCEPT ![t] = TRUE]
  /\ UNCHANGED <<pending, last>>

(* ... and waits for it without the lock.                                  *)
CanReturn(t) == flushing[t] /\ toWait[t] = 0

FlushEnd(t) ==
  /\ CanReturn(t)
  /\ flushing' = [flushing EXCEPT ![t] = FALSE]
  /\ UNCHANGED <<pending, last, toWait, before>>

(* The place of a command buffer after the first one has completed. *)
Sooner(place) == IF place = 0 THEN 0 ELSE place - 1

(* The device: buffers of one queue run in the order of their commits.     *)
Execute ==
  /\ pending # <<>>
  /\ pending' = Tail(pending)
  /\ last' = Sooner(last)
  /\ toWait' = [t \in Threads |-> Sooner(toWait[t])]
  /\ before' = [t \in Threads |-> Sooner(before[t])]
  /\ UNCHANGED flushing

QueueNext ==
  \/ \E t \in Threads :
       \/ \E commands \in Seq(Commands) : Commit(t, commands)
       \/ FlushBegin(t)
       \/ FlushEnd(t)
  \/ Execute

QueueSpec == QueueInit /\ [][QueueNext]_queueVars

-----------------------------------------------------------------------------
(* Properties.                                                             *)

(* "The most-recently-committed buffer completing implies all prior work   *)
(* is done": a flush that may return leaves nothing pending that any       *)
(* thread had committed before the flush began.                            *)
FlushLeavesNothing == \A t \in Threads : CanReturn(t) => before[t] = 0
=============================================================================
