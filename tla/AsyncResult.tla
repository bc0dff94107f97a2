------------------------------ MODULE AsyncResult ------------------------------
(***************************************************************************)
(* AsyncResult of python/cpp/utils.h: Python threads call result and done  *)
(* on one object, whose future is fulfilled by a worker of the pool.  The  *)
(* object has no lock of its own: its fields are protected by the GIL,     *)
(* which result releases while it waits.  std::future is modelled as       *)
(* libstdc++ implements it.                                                *)
(***************************************************************************)
EXTENDS Integers

CONSTANTS
  Threads,   \* the Python threads
  MaxCalls,  \* bound on the number of calls of each thread
  Outcomes   \* what the computation may give: "value" or "error"

VARIABLES
  future,     \* the state of _future: "pending", "ready", or "none" after get
  computed,   \* what the worker stored
  result,     \* _result: "default", "value" or "moved" (from)
  exception,  \* _exception: "none", "error" or "no_state" (std::future_error)
  done,       \* _done
  pc,         \* where each thread is in result
  calls,      \* number of calls of each thread
  answer,     \* what the last call of each thread returned or raised
  overlapped  \* history: whether a call of result began during another one

fieldVars == <<result, exception, done>>
vars == <<future, computed, fieldVars, pc, calls, answer, overlapped>>

Init ==
  /\ future = "pending"
  /\ computed = "none"
  /\ result = "default" /\ exception = "none" /\ done = FALSE
  /\ pc = [t \in Threads |-> "idle"]
  /\ calls = [t \in Threads |-> 0]
  /\ answer = [t \in Threads |-> "none"]
  /\ overlapped = FALSE

-----------------------------------------------------------------------------
(* Plausible mistakes in the definitions below; Next uses none of them.    *)

ReturnNotDone(t) ==
  /\ pc[t] = "returning"
  /\ answer' = [answer EXCEPT ![t] = IF exception # "none" THEN exception ELSE result]
  /\ pc' = [pc EXCEPT ![t] = "idle"]
  /\ UNCHANGED <<future, computed, fieldVars, calls, overlapped>>

-----------------------------------------------------------------------------

Answer == IF exception # "none" THEN exception ELSE result

(* The thread holds the GIL: it reads _done and, unless it is set, releases *)
(* the GIL and calls _future.get.                                           *)
Result(t) ==
  /\ pc[t] = "idle"
  /\ calls[t] < MaxCalls
  /\ calls' = [calls EXCEPT ![t] = @ + 1]
  /\ IF done
       THEN answer' = [answer EXCEPT ![t] = Answer] /\ UNCHANGED pc
       ELSE pc' = [pc EXCEPT ![t] = "getting"] /\ UNCHANGED answer
  /\ overlapped' = (overlapped \/ \E u \in Threads : pc[u] # "idle")
  /\ UNCHANGED <<future, computed, fieldVars>>

(* get checks that the future has a state, and throws if it has none. *)
GetState(t) ==
  /\ pc[t] = "getting"
  /\ IF future = "none"
       THEN exception' = "no_state" /\ pc' = [pc EXCEPT ![t] = "returning"]
       ELSE UNCHANGED exception /\ pc' = [pc EXCEPT ![t] = "waiting"]
  /\ UNCHANGED <<future, computed, result, done, calls, answer, overlapped>>

(* Whether the wait of get is over. *)
GetReady(t) == pc[t] = "waiting" /\ future # "pending"

(* get moves the value out of the state, or rethrows its exception, and    *)
(* drops the state.  A second thread that waited on the same state moves   *)
(* the same value, in a data race with the first.                          *)
GetValue(t) ==
  /\ GetReady(t)
  /\ IF computed = "error"
       THEN exception' = "error" /\ UNCHANGED result
       ELSE /\ result' \in IF future = "none" THEN {"value", "moved"} ELSE {"value"}
            /\ UNCHANGED exception
  /\ future' = "none"
  /\ pc' = [pc EXCEPT ![t] = "returning"]
  /\ UNCHANGED <<computed, done, calls, answer, overlapped>>

(* The thread holds the GIL again. *)
Return(t) ==
  /\ pc[t] = "returning"
  /\ done' = TRUE
  /\ answer' = [answer EXCEPT ![t] = Answer]
  /\ pc' = [pc EXCEPT ![t] = "idle"]
  /\ UNCHANGED <<future, computed, result, exception, calls, overlapped>>

(* What done returns; wait_for throws if the future has no state. *)
DoneAnswer == done \/ future = "ready"

Done(t) ==
  /\ pc[t] = "idle"
  /\ calls[t] < MaxCalls
  /\ calls' = [calls EXCEPT ![t] = @ + 1]
  /\ answer' = [answer EXCEPT ![t] =
                  IF DoneAnswer THEN "true"
                  ELSE IF future = "none" THEN "no_state"
                  ELSE "false"]
  /\ UNCHANGED <<future, computed, fieldVars, pc, overlapped>>

(* The worker sets the value or the exception of the promise. *)
SetPromise ==
  /\ future = "pending"
  /\ computed' \in Outcomes
  /\ future' = "ready"
  /\ UNCHANGED <<fieldVars, pc, calls, answer, overlapped>>

ResultStep(t) == GetState(t) \/ GetValue(t) \/ Return(t)

Terminated ==
  /\ future # "pending"
  /\ \A t \in Threads : pc[t] = "idle" /\ calls[t] = MaxCalls
  /\ UNCHANGED vars

Next ==
  \/ \E t \in Threads : Result(t) \/ Done(t) \/ ResultStep(t)
  \/ SetPromise
  \/ Terminated

(* The pool fulfils the promise of every job and the threads are scheduled; *)
(* a call need not be made.                                                 *)
Spec ==
  /\ Init
  /\ [][Next]_vars
  /\ WF_vars(SetPromise)
  /\ \A t \in Threads : WF_vars(ResultStep(t))

-----------------------------------------------------------------------------
(* Properties.                                                             *)

(* What a call of result returns or raises. *)
Answers(t) == Return(t) \/ (Result(t) /\ done)

(* Every call of result returns, also when several threads wait; and as    *)
(* long as no two calls overlap, each of them gives what was computed, the *)
(* calls after the first one too, whatever calls of done come between.     *)
ResultReturns ==
  /\ \A t \in Threads : []<>(pc[t] = "idle")
  /\ [][\A t \in Threads : Answers(t) /\ ~overlapped' => answer'[t] = computed]_vars
=============================================================================
