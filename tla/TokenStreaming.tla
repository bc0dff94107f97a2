---------------------------- MODULE TokenStreaming ----------------------------
(***************************************************************************)
(* Token streaming of python/ctranslate2/extensions.py: _generate_tokens,  *)
(* a generator fed by the callbacks of the jobs and by a thread that waits *)
(* for their results, and AsyncGenerator, two tasks of one event loop      *)
(* around such a generator.                                                *)
(***************************************************************************)
EXTENDS SequencesExt

CONSTANTS
  PromptBatches,  \* the batches that process_func posts, one job each, in the
                  \* order in which it awaits their results: for every prompt
                  \* of a batch, the steps that only force a token
  MaxSteps        \* max_length: bound on the tokens of a prompt

ASSUME TokenStreamingAssumption ==
  PromptBatches \in Seq(Seq(Nat) \ {<<>>}) /\ MaxSteps \in Nat \ {0}

VARIABLES
  mode,       \* "sync": _generate_tokens alone, or "async": with AsyncGenerator
  job,        \* state of each job
  row,        \* of each job, the prompt whose step it makes
  alive,      \* of each job, the prompts that are not finished
  steps,      \* the steps made for each prompt of each job
  next,       \* the result that the catching thread waits for
  caught,     \* whether that thread has ended
  channel,    \* step_results
  closed,     \* generator_closed
  generator,  \* state of the generator
  outcome,    \* how it ended
  inbox,      \* AsyncGenerator.queue
  shutdown,   \* AsyncGenerator.shutdown_event
  producer,   \* state of the producer task
  consumer,   \* state of the consumer task
  put,        \* history: the step results in the order of the callbacks
  yielded,    \* history: those that the generator yielded
  received,   \* history: those that the asynchronous consumer received
  late        \* history: tokens of each prompt after the generator was closed

rowVars == <<row, alive>>
jobVars == <<job, rowVars, steps, put, late>>
catchVars == <<next, caught>>
generatorVars == <<closed, generator, outcome, yielded>>
asyncVars == <<inbox, shutdown, producer, consumer, received>>
vars == <<mode, jobVars, catchVars, channel, generatorVars, asyncVars>>

Jobs == Len(PromptBatches)
JobIds == 1 .. Jobs

(* batch_id, in the batch. *)
BatchIds(j) == DOMAIN PromptBatches[j]

(* Step results are a job, a prompt of its batch and a step; an exception  *)
(* and None are of no job.                                                 *)
None == <<0, 0, 0>>
Error == <<0, 0, 1>>

Done(j) == job[j] \in {"value", "error"}

Init ==
  /\ mode \in {"sync", "async"}
  /\ job = [j \in JobIds |-> "none"]
  /\ row = [j \in JobIds |-> 1] /\ alive = [j \in JobIds |-> BatchIds(j)]
  /\ steps = [j \in JobIds |-> [b \in BatchIds(j) |-> 0]]
  /\ late = steps
  /\ next = 1 /\ caught = FALSE
  /\ channel = <<>> /\ put = <<>> /\ yielded = <<>> /\ received = <<>>
  /\ closed = FALSE
  /\ generator = "created" /\ outcome = "none"
  /\ inbox = <<>> /\ shutdown = FALSE
  /\ producer = IF mode = "async" THEN "iterating" ELSE "none"
  /\ consumer = IF mode = "async" THEN "ready" ELSE "none"

-----------------------------------------------------------------------------
(* Plausible mistakes in the definitions below; Next uses none of them.    *)

StopsIfAnswered(answer) == answer = "stop"

(* The exception goes to the front of the queue, to be seen at once. *)
CatchPutsFirst(items) == channel' = items \o channel

ForgetsNone == FALSE

-----------------------------------------------------------------------------
(* The jobs: the greedy search of a batch, step by step and in each step   *)
(* prompt by prompt.                                                       *)

Forces(j) == steps[j][row[j]] < PromptBatches[j][row[j]]

IsLastStep(j) == steps[j][row[j]] = PromptBatches[j][row[j]] + MaxSteps

(* The prompt after b: the next one that is alive, in this step or, when b *)
(* is the last one of them, in the next step.                              *)
ComesAfter(c, b, prompts) ==
  /\ c \in prompts
  /\ \A d \in prompts : IF c > b THEN d <= b \/ c <= d ELSE c <= d /\ d <= b

(* The job goes on with the prompts that are alive, or it ends. *)
GoesOn(j) ==
  \/ /\ alive'[j] = {}
     /\ job' = [job EXCEPT ![j] = "value"]
     /\ UNCHANGED row
  \/ /\ job' = [job EXCEPT ![j] = "running"]
     /\ \E b \in alive'[j] : ComesAfter(b, row[j], alive'[j]) /\ row' = [row EXCEPT ![j] = b]

(* A step that forces a token of the prompt, which calls nobody. *)
ForceToken(j) ==
  /\ job[j] = "running" /\ Forces(j)
  /\ steps' = [steps EXCEPT ![j][row[j]] = @ + 1]
  /\ UNCHANGED alive
  /\ GoesOn(j)
  /\ UNCHANGED <<mode, put, late, catchVars, channel, generatorVars, asyncVars>>

(* The callback of a token: the user's callback, which may raise, then the *)
(* put. The answer of the user's callback is kept in the state of the job. *)
Token(j) ==
  LET token == <<j, row[j], steps[j][row[j]] + 1>>
  IN  /\ job[j] = "running" /\ ~Forces(j)
      /\ \E answer \in {"stop", "continue"} : job' = [job EXCEPT ![j] = answer]
      /\ steps' = [steps EXCEPT ![j][row[j]] = @ + 1]
      /\ late' = IF closed THEN [late EXCEPT ![j][row[j]] = @ + 1] ELSE late
      /\ put' = Append(put, token)
      /\ channel' = Append(channel, token)
      /\ UNCHANGED <<mode, rowVars, catchVars, generatorVars, asyncVars>>

(* What the callback returns. *)
Stops(answer) == closed \/ answer = "stop"

(* The prompt goes on, or it is finished: it is told to, it is at its last *)
(* step, or the token ends it.  The other prompts of the batch go on.      *)
Answered(j) ==
  /\ job[j] \in {"stop", "continue"}
  /\ \/ ~Stops(job[j]) /\ ~IsLastStep(j) /\ UNCHANGED alive
     \/ alive' = [alive EXCEPT ![j] = @ \ {row[j]}]
  /\ GoesOn(j)
  /\ UNCHANGED <<mode, steps, put, late, catchVars, channel, generatorVars, asyncVars>>

(* An exception, of the user's callback or of the job. *)
Fail(j) ==
  /\ job[j] = "running"
  /\ job' = [job EXCEPT ![j] = "error"]
  /\ UNCHANGED <<mode, rowVars, steps, put, late, catchVars, channel, generatorVars, asyncVars>>

RunJob(j) == ForceToken(j) \/ Token(j) \/ Answered(j) \/ Fail(j)

-----------------------------------------------------------------------------
(* _catch_exception.                                                       *)

CatchPuts(items) == channel' = channel \o items

CatchResult ==
  /\ next <= Jobs /\ Done(next)
  /\ IF job[next] = "error"
       THEN CatchPuts(<<Error>>) /\ next' = Jobs + 1
       ELSE UNCHANGED channel /\ next' = next + 1
  /\ UNCHANGED <<mode, jobVars, caught, generatorVars, asyncVars>>

CatchEnd ==
  /\ next > Jobs /\ ~caught
  /\ CatchPuts(<<None>>)
  /\ caught' = TRUE
  /\ UNCHANGED <<mode, jobVars, next, generatorVars, asyncVars>>

-----------------------------------------------------------------------------
(* The generator.                                                          *)

(* next(): the first one posts the jobs and starts the thread. *)
Resume ==
  /\ generator \in {"created", "suspended"}
  /\ generator' = "running"
  /\ job' = IF generator = "created" THEN [j \in JobIds |-> "running"] ELSE job
  /\ UNCHANGED <<mode, rowVars, steps, put, late, catchVars, channel, closed, outcome, yielded>>

Ends(how) == generator' = "ended" /\ outcome' = how

(* step_results.get(), while next() runs. *)
Take ==
  /\ generator = "running" /\ channel # <<>>
  /\ channel' = Tail(channel)
  /\ CASE Head(channel) = None  -> generator' = "joining" /\ UNCHANGED <<outcome, yielded>>
       [] Head(channel) = Error -> Ends("raised") /\ UNCHANGED yielded
       [] OTHER -> /\ generator' = "suspended"
                   /\ yielded' = Append(yielded, Head(channel))
                   /\ UNCHANGED outcome
  /\ UNCHANGED <<mode, jobVars, catchVars, closed, asyncVars>>

(* close(): GeneratorExit at the yield. A generator that was not started   *)
(* just ends.                                                              *)
Close ==
  /\ \/ generator = "created" /\ Ends("closed") /\ UNCHANGED closed
     \/ generator = "suspended" /\ generator' = "joining" /\ closed' = TRUE /\ UNCHANGED outcome
  /\ UNCHANGED <<mode, jobVars, catchVars, channel, yielded>>

Joined == caught

Join ==
  /\ generator = "joining" /\ Joined
  /\ Ends(IF closed THEN "closed" ELSE "exhausted")
  /\ UNCHANGED <<mode, jobVars, catchVars, channel, closed, yielded, asyncVars>>

(* The user of the generator: it goes on or leaves. *)
User == mode = "sync" /\ (Resume \/ Close) /\ UNCHANGED asyncVars

-----------------------------------------------------------------------------
(* AsyncGenerator.  The generator blocks the event loop while it waits.    *)

LoopIsFree == generator \notin {"running", "joining"}

(* The producer task: the step result goes to the queue, the task sleeps.  *)
ProduceItem ==
  /\ producer = "iterating" /\ generator = "suspended"
  /\ inbox' = Append(inbox, Last(yielded))
  /\ producer' = "asleep"
  /\ UNCHANGED <<mode, jobVars, catchVars, channel, generatorVars, shutdown, consumer, received>>

(* It starts, or wakes up: the next item, or the end of the loop.          *)
ProduceNext ==
  /\ \/ producer = "iterating" /\ generator = "created" /\ Resume
     \/ producer = "asleep" /\ ~shutdown /\ Resume
     \/ producer = "asleep" /\ shutdown /\ Close
  /\ producer' = "iterating"
  /\ UNCHANGED <<inbox, shutdown, consumer, received>>

PutsNone == outcome # "raised"

ProduceEnd ==
  /\ producer = "iterating" /\ generator = "ended"
  /\ producer' = IF outcome = "raised" THEN "failed" ELSE "ended"
  /\ inbox' = IF PutsNone THEN Append(inbox, None) ELSE inbox
  /\ UNCHANGED <<mode, jobVars, catchVars, channel, generatorVars, shutdown, consumer, received>>

Produce == mode = "async" /\ (ProduceItem \/ ProduceNext \/ ProduceEnd)

(* __anext__, when the queue has an item. *)
Receive ==
  /\ inbox # <<>>
  /\ inbox' = Tail(inbox)
  /\ IF Head(inbox) = None
       THEN shutdown' = TRUE /\ consumer' = "ended" /\ UNCHANGED received
       ELSE received' = Append(received, Head(inbox)) /\ consumer' = "ready" /\ UNCHANGED shutdown

Consume ==
  /\ mode = "async" /\ LoopIsFree
  /\ \/ consumer = "ready" /\ shutdown /\ consumer' = "ended" /\ UNCHANGED <<inbox, shutdown, received>>
     \/ consumer = "ready" /\ ~shutdown /\ Receive
     \/ consumer = "ready" /\ ~shutdown /\ inbox = <<>> /\ consumer' = "waiting"
        /\ UNCHANGED <<inbox, shutdown, received>>
     \/ consumer = "waiting" /\ Receive
  /\ UNCHANGED <<mode, jobVars, catchVars, channel, generatorVars, producer>>

(* The task of the consumer is cancelled, or the async for is left. *)
Cancel ==
  /\ consumer = "waiting" /\ LoopIsFree
  /\ shutdown' = TRUE
  /\ consumer' = "ended"
  /\ UNCHANGED <<mode, jobVars, catchVars, channel, generatorVars, inbox, producer, received>>

Leave ==
  /\ consumer = "ready" /\ LoopIsFree
  /\ consumer' = "left"
  /\ UNCHANGED <<mode, jobVars, catchVars, channel, generatorVars, inbox, shutdown, producer, received>>

-----------------------------------------------------------------------------

(* Nothing is left to do; the consumer of a failed producer waits for ever. *)
Terminated ==
  /\ generator = "ended"
  /\ \/ caught /\ \A j \in JobIds : Done(j)
     \/ job = [j \in JobIds |-> "none"]
  /\ mode = "async" => producer # "iterating" /\ consumer # "ready"
                       /\ (consumer = "waiting" => inbox = <<>>)
  /\ UNCHANGED vars

Next ==
  \/ \E j \in JobIds : RunJob(j)
  \/ CatchResult \/ CatchEnd
  \/ Take \/ Join \/ User
  \/ Produce \/ Consume \/ Cancel \/ Leave
  \/ Terminated

(* Every thread that can run does, and so does the event loop; the user of *)
(* a generator need not call it again.                                     *)
Spec ==
  /\ Init /\ [][Next]_vars
  /\ \A j \in JobIds : WF_vars(RunJob(j))
  /\ WF_vars(CatchResult \/ CatchEnd)
  /\ WF_vars(Take \/ Join)
  /\ WF_vars(Produce)
  /\ WF_vars(Consume)

-----------------------------------------------------------------------------
(* Properties.                                                             *)

(* The steps of a prompt that called back. *)
Called(j, b) == PromptBatches[j][b] + 1 .. steps[j][b]

(* The tokens come in the order of the callbacks, none lost and none       *)
(* twice; all of them if the generator is exhausted; and before it raises  *)
(* the exception of a job, all the tokens of that job.                     *)
StreamIsComplete ==
  /\ IsPrefix(yielded, put) /\ IsPrefix(received, yielded)
  /\ outcome = "exhausted" => yielded = put
  /\ outcome = "raised" =>
       \E j \in JobIds :
         job[j] = "error" /\ \A b \in BatchIds(j) : \A i \in Called(j, b) :
                              <<j, b, i>> \in ToSet(yielded)
  /\ consumer = "ended" /\ producer = "ended" /\ outcome = "exhausted" /\ inbox = <<>>
       => received = put

(* "Wait for the job to terminate before exiting": when the generator ends *)
(* no callback is called any more, unless the generation failed; and when  *)
(* it is closed, the next token of each prompt is its last one, whatever   *)
(* the other prompts of its batch do ("the decoding will stop for this     *)
(* batch index").                                                          *)
JobsEndFirst ==
  /\ generator = "ended" =>
       (\A j \in JobIds : job[j] \in {"none", "value"}) \/ (\E j \in JobIds : job[j] = "error")
  /\ \A j \in JobIds : \A b \in BatchIds(j) : late[j][b] <= 1

(* Every next() and every close() of the generator returns: the event loop *)
(* is free again and again.  And so does every __anext__ that waits in it, *)
(* also when the other task has just ended, but for a generation that      *)
(* failed.                                                                 *)
ConsumerReturns ==
  /\ []<>LoopIsFree
  /\ []<>(consumer # "waiting" \/ producer = "failed")
=============================================================================
