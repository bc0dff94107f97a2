# A TLA+ model of CTranslate2

CTranslate2 runs Transformer models in C++. This directory holds TLA+ modules
that model the parts of it whose correctness depends on the order of events,
TLC configurations that check them on small instances, and TLAPS proofs for
every size of those that most others rest on: the thread pool, the replica pool
and its batches, the buffered wrapper, the lifecycle of a model, the streaming
of tokens, the seeds, the state of the beam search, and the cache of keys on
the Metal command queue. Paths below are those of the repository; `PROJECT.json` maps every
definition to the lines it translates (there the repository is under `src/`).

## 1. The system

| component | code | state | operations |
|---|---|---|---|
| job queue, workers, thread pool | `src/thread_pool.cc` | queue, end request, counter of active jobs, two condition variables, threads | `post`, `put`, `get`, `close`, `Worker::run`, destruction |
| batch readers | `src/batch_reader.cc` | the next example, the position in each stream | `get_next`, `get_next_example`, `rebatch_input`, `load_examples` |
| replica pool | `include/ctranslate2/replica_pool.h` | promises and futures, the replica of each worker | `post`, `post_batch`, `post_examples`, `consume_batches`, `detach_models`, `set_models` |
| buffered wrapper | `src/buffered_translation_wrapper.cc` | two queues (examples, promises), stop flag | `translate_async`, `buffer_loop`, destruction |
| Python model lifecycle | `python/cpp/replica_pool.h` | shared mutex, loaded flag, models cached on the CPU | `unload_model`, `load_model`, batches under a shared lock |
| Python results | `python/cpp/utils.h` | future, result, exception, done flag | `result`, `done` |
| beam search | `src/decoding.cc` | the step, the sentences that remain, live sequences, scores, decoder state, finished hypotheses | one iteration of `BeamSearch::search` |
| greedy search | `src/decoding.cc` | the step, the hypotheses that remain, the next inputs, the tokens so far, decoder state, results | one iteration of `GreedySearch::search`, the callback, the merge of several samples |
| entry points, alternatives | `src/decoding.cc` | the options, the results with the words that expand the prefix | `decode`, `decode_alternatives` |
| logits processors | `src/decoding_utils.cc` | disabled tokens | one `apply` each |
| output layer | `src/layers/decoder.cc`, `src/layers/common.cc` | selected weights and bias, two tables between words and outputs | `update_output_layer`, `select_weights` |
| replicas of the models | `src/models/language_model.cc`, `sequence_to_sequence.cc`, `whisper.cc` | the output layer, the states of static prompts | `run_generation`, `translate`, `generate` |
| attention and its cache | `src/layers/attention.cc` | cached keys and values, their capacity, the offset | `MultiHeadAttention::operator()`, `update_state`, `repeat_batch`, `copy_state` |
| Metal backend | `src/metal/` | the last command buffer, allocated buffers | `commit_command_buffer`, `flush`, the kernels of the cache |
| token streaming | `python/ctranslate2/extensions.py` | two queues, two events, a thread, a task | `_generate_tokens`, `AsyncGenerator` |
| Whisper | `src/models/whisper.cc` | the tokens of each row, the probabilities of silence | `generate` with `ApplyTimestampRules`, `detect_language` |
| alignment, time warping | `src/models/whisper.cc`, `src/dtw.cc`, `src/ops/median_filter_cpu.cc` | the attention of each text, its padding | `align` |
| model files and loading | `src/models/model.cc`, `src/types.cc` | variables by name, aliases, the saved and the effective compute type | `load`, `set_compute_type`, `register_variable`, `process_linear_weights`, `copy_to`, `resolve_compute_type` |
| tensor parallelism | `src/models/model.cc`, `src/layers/` | the shards of each rank, two static sizes | splitting in `load`, `ReduceAll` |
| random generators | `src/random.cc` | the seed and its epoch, a generator in each thread | `set_random_seed`, `get_random_generator` |
| scoring, padder | `src/scoring.cc`, `src/padder.cc` | two tables of indices | `score_sequences`, `remove_padding`, `add_padding` |
| vocabulary, vmap | `src/vocabulary.cc`, ... | tables | pure functions |
| storage, allocators, devices | `src/storage_view.cc`, `src/devices.cc` | buffers, streams | allocation, moves |
| kernels, layers | `src/ops`, `src/layers` | tensors | arithmetic |

**How they interact.** A caller (a C++ thread, or a Python thread that has
released the GIL) reads examples, sorts and cuts them into batches, and posts
each batch as a job of the thread pool, which blocks while the queue is full.
A worker owns one replica of the model; it takes a job, runs it and fulfils
the promises of the batch. The caller reads the futures in the order of its
input. The buffered wrapper puts a buffer and a background thread in front of
this. The Python wrapper may take the replicas away and give them back between
batches. A batch that is run reaches the search, which drives the decoder step
by step, reorders its state together with the hypotheses and shrinks the batch
as sentences are finished. Before it the replica restricts the output layer,
turns prompts into forwarded and forced tokens, and after it makes answers of
the results. The decoder keeps keys and values of past tokens; on a Metal
device they are written by commands that run later, in the order in which all
the threads of the process commit them, and the CPU waits for the last of them
before it touches their memory. Each token may go through a callback to a
Python generator, whose thread waits for the results of the jobs, and from
there to a consumer in an event loop.

**What is hard.**
* notifications are sent after the mutex is unlocked, and two kinds of thread
  sleep on two condition variables (lost wake-ups, deadlock, shutdown);
* the counter of active jobs is written by clients and workers, and read
  without a lock to decide whether the model may be unloaded;
* promises move through a sort, a cut and a parallel execution, and exceptions
  of readers and batches leave in the middle of it;
* the buffered wrapper has a timeout, a full buffer and a stop request that
  race, and a partial flush;
* the GIL is released around waits, on objects without a lock of their own;
* the beam search keeps ids, scores, sequences, flags and decoder state in
  tensors of their own that must be reordered alike in every step, by beams
  and by sentences, with a batch that is not expanded in the first step and
  prefixes of different lengths;
* the output layer stays as the last request left it, and every id is a word
  outside of the search and an output inside;
* a cache of keys has one of three layouts, told apart by its shape and the
  offset, and legal sequences of calls switch between them;
* tokens, exceptions and end marks of several threads and tasks go through two
  queues, and both ends may leave early;
* the variables of a model are converted, shared under several names, packed,
  cut for the ranks and copied one after the other, in the order of a hash
  table or of the file, by rules that look at what the ones before have left;
* the seed and its epoch are two variables that several threads store and load
  one by one.

The full list, with lines, is under `hazards` in `PROJECT.json`, each with the
properties that would catch it.

## 2. Modules

```
JobService  <--implemented by--  ThreadPool
    ^  ^
    |  +-- INSTANCE -- BufferedTranslation
    +-- INSTANCE -- ReplicaPool -- EXTENDS --> Batching <-- EXTENDS -- BatchReader

Alternatives -- EXTENDS --> BeamSearch -- EXTENDS --> Decoding
                                                        ^  ^
                 OutputLayer -------- EXTENDS ----------+  |
                      ^                 LogitsProcessors --+
                      | EXTENDS                  ^
                  Requests <---- EXTENDS ---- GreedySearch
                      ^                          | implements
                      +-- EXTENDS -- IndependentDecoding

                                              WhisperDecoding -- EXTENDS --> Decoding
MetalQueue  <--EXTENDS--  KVCache
ModelLoading -- EXTENDS --> ComputeTypes
ModelLifecycle    AsyncResult    TokenStreaming    TensorParallel    Scoring    RandomSeeds
WhisperAlignment

X_proofs -- EXTENDS --> X   for X = ThreadPool, KVCache, Decoding
GreedySearch_proofs -- EXTENDS --> GreedySearch, Decoding_proofs
BeamSearch_proofs --- EXTENDS --> Alternatives, Decoding_proofs
ReplicaPool_proofs -- EXTENDS --> ReplicaPool, BatchReader
FrontEnds_proofs ---- EXTENDS --> BufferedTranslation, RandomSeeds, TokenStreaming
Models_proofs ------- EXTENDS --> ModelLifecycle, ModelLoading, WhisperDecoding, Decoding_proofs

MCFrontEnds: TokenStreaming, BatchReader, AsyncResult
MCModels:    ModelLoading, TensorParallel, WhisperDecoding, WhisperAlignment, Scoring, RandomSeeds
```

The last two put components that share nothing into one state graph:
the variable `part` says which of them a behaviour is about,
and the others stand still in an initial state. They check nothing that a run
of each component would not check.


* **JobService**: what a pool promises: a bounded backlog, first in first out,
  at most `Servers` jobs in progress, every accepted job finished. It is the
  abstract specification of the pool and the part of it that the modules on
  top use, so that they do not carry the state of its mutex.
* **ThreadPool**: `JobQueue`, `Worker`, `ThreadPool`. A critical section of
  the mutex is one action (`PutEnqueue`, `PutWait`, `GetJob`, `GetWait`,
  `GetNull`, `CloseRequest`); each notification is another (`PutNotify`,
  `GetNotify`, `CloseNotify`), because the code notifies after unlocking.
  `notify_one` wakes any one sleeping thread, or none if nobody sleeps; a
  condition variable may also wake up spuriously (`WakeClient`, `WakeWorker`).
  `enqueued`, `started` and `finished` are history.
* **Batching**: the loops that fill a batch, the sort and the cut of
  `rebatch_input`, as operators on the lengths of the examples. `std::sort`
  is not stable: `SortedOrders` is the set of every order it may produce.
* **BatchReader**: `get_next` over one or two parallel streams. Its inputs,
  chosen in `Init`, are all the streams up to a bound.
* **ReplicaPool**: callers in `consume_batches`, `BatchJob::run` in the
  workers. An example is a number and the value of a promise is the number of
  the example whose result it got, so that a mix-up is visible. Batches may
  throw; so may readers. Only the exhausted reader and the throwing reader
  differ in how the loop ends.
* **BufferedTranslation**: `translate_async`, `buffer_loop`, the destructor.
  A request is a number; its example and its promise go through separate
  queues as in the code. The timeout is an action that is possible whenever
  the background thread waits.
* **ModelLifecycle**: `unload_model`, `load_model` and the two ways to run a
  batch (under the shared lock, and `forward_batch` without it). Replicas are
  detached and assigned one by one, in between which workers run. Copies may
  throw. Dereferencing the null models that a failed unload leaves behind ends
  the process (`alive`).
* **AsyncResult**: the Python wrapper of a future. A step between two points
  where the GIL is released is atomic. The future is the one of libstdc++:
  `get` on a future without a state throws, and two threads that wait on the
  same state both move its value.

* **Decoding**: the helpers that both searches use: last steps, the batch
  repeated, the order of the results, the digest by which a decoder that is a
  table knows what it has seen.
* **BeamSearch**: `BeamSearch::search` for a batch of two sentences. One
  iteration of the loop is one action, `ContinueSearch` or `StopSearch`, since
  nothing else runs in between; its parts are operators in the order of the
  code (`Cells`, `TopK`, `Constrained`, `Candidates`, `Ending`, `NextBeam`,
  `IsFinished`, `FinalizeResult`, `Active`, `Origins`). The decoder is a table
  of log probabilities and its state is what it has seen, by row for the state
  that is replicated over the beams (`cache`) and by sentence for the other
  (`memory`), so that a wrong reordering is visible. Every decoder and every
  choice of options is an initial state. Scores are integers; a
  sum with one of the two huge negative numbers of the code absorbs the small
  one, as in floating point. Left out: biased prefixes, the coverage penalty,
  attention, returned logits, logits processors, random sampling; disabling a
  token does not normalise the others again; of the orders in which equal
  scores may be sampled two are taken.
* **Alternatives**: `decode_alternatives` on top of BeamSearch. The beam search
  that expands the prefix runs step by step (`Search`); then the expanded words
  that are likely enough join the results and the state is reduced to their
  number (`KeepAlternatives`), and a last greedy search goes on from each
  (`ContinueAlternatives`); a score is kept as a fraction, so that the length
  penalty of the last search divides without rounding. A plain beam search is the other kind of behaviour
  of `SpecAll`, so that one run checks both.
* **OutputLayer**: `update_output_layer` and the tables it keeps, with the
  padding to a multiple, the masks of the bias and the early returns. A layer
  is the result of all the requests so far (`LayerAfter`).
* **Requests**: what the replicas do around a search. A request is a
  generation, a translation or a transcription with its prompts and options;
  the operators say which sentences are run, which tokens are forwarded at
  once, which ids the search gets, and which answers its results become.
* **LogitsProcessors**: the tokens that `NoRepeatNgram` and `SuppressSequences`
  disable in a row, and the repetition penalty.
* **GreedySearch**: `GreedySearch::search` of one request on the layer that
  earlier requests have left. One iteration is one action, `SearchStep`; the
  word of each position and the answers of the callback are its inputs. What
  the sampler may return (`Sampled`) are the `sampling_topk` best tokens that
  are left: with one it is `BestSampler`. The positions, next inputs, tokens so
  far and decoder states are gathered as in the code; tokens are outputs of the
  layer, and the decoder sees words. `MergeResults` merges several samples,
  restores the words, makes the answers and adds those of skipped sentences.
  `called` and `generated` are history. Left out as in BeamSearch, and nucleus
  sampling and temperature.
* **IndependentDecoding**: what greedy search promises: every hypothesis is
  decoded as if it was alone. It knows of no batch, no position, no output, no
  earlier request and no decoder state: the next word is computed from the
  prompt and all the words before it, and the rules of the request are written
  over whole texts (no ngram twice, no suppressed sequence as a suffix).
* **MetalQueue**: `commit_command_buffer` and `flush` of any number of threads.
  A command buffer is its place in the queue, so that the state is finite
  although the process commits for ever; a commit and its record are one step
  because the lock holds both, and a flush is two because it waits without.
* **KVCache**: one layer of self attention on such a queue. The buffers of the
  cache are flat sequences, indexed as the kernels index them (row times
  capacity plus position), and a key is the position and the row of its token,
  so that a wrong stride, offset or row is visible. Each path of the operator
  (`Strided`, fused or not, `Compact`, `Concat`, `Slide`) adds the commands it
  issues; they change the memory when the device executes them
  (`ExecuteCommand`), while reordering (`UpdateState`), repeating and copying
  (`BeginCopy`, `EndCopy`: the CPU, after a flush), static prompts and new
  generations go on. Values are handled as keys are and left out, heads too.
* **TokenStreaming**: `_generate_tokens` with its jobs, its thread and its user,
  or the same generator inside `AsyncGenerator` with a producer task and a
  consumer. A job is a batch of prompts: it makes a step prompt by prompt, a
  step that forces a token calls nobody (`ForceToken`), any other one calls back
  (`Token`) and reads the answer afterwards (`Answered`), which finishes only the
  prompt that asked; the job has its value when all its prompts are finished.
  The generator blocks the event loop while it waits for a token
  (`LoopIsFree`), as in the code. User callbacks stop, continue or raise.

* **ComputeTypes**: `resolve_compute_type` with its tables of fallbacks, and
  which types a platform (device, backends of the build, capabilities) supports.
* **ModelLoading**: what `Model` makes of the variables of a file: the saved
  type that is inferred, the conversion of each weight (`Requantized`, with the
  scale that stays or goes), aliases, packed weights with their compensation,
  `copy_to`. A variable is the type of its numbers and the quantization that
  it comes from, so that a weight with the scale of another one is visible.
  A model has one layer of each kind.
* **TensorParallel**: the cut that `Model::load` makes of each variable in the
  order of the file, with its two static sizes, and what each rank then
  computes. Lines and columns of weights carry labels (head, dimension,
  neuron), and the terms that a rank adds to the sum are sets of labels.
* **WhisperDecoding**: `generate`. The prompt rules (`CheckPrompts`), the
  maximum lengths, the tokens that `ApplyTimestampRules` disables in a row,
  which it finds by its position in the batch (`BatchIndex`), and the two
  places from which the probability of silence is read. The search takes any
  token that is left.
* **WhisperAlignment**: `align`. The weights are small integers, as they are
  after normalizations and filter; what is kept of those is the rows and frames
  that they are computed over. The time warping is computed in full.
* **Scoring**: `skip_scoring`, `run_scoring`, `score_sequences`, the truncation
  of `to_ids`, `make_sequence_inputs`, and the layers of an encoder and a
  decoder between `remove_padding` and `add_padding`. A hidden value is what
  its position has seen, so that a line of another text is visible. One layer
  of each kind, no sliding window.
* **RandomSeeds**: the loads and stores of `set_random_seed` and
  `get_random_generator`, one step each. A generator is its seed and how many
  numbers were drawn from it.

Each module begins with its constants and variables, named as in the code,
then has plausible mistakes used by the mutation runs (never by `Next`), the
actions in the order of the code, the fairness and the properties.

## 3. Runs

| run | what it shows | bounds |
|---|---|---|
| `pool` | FIFO, exact counter, no lost wake-up, drained when destroyed; `post` returns, the destructor ends, the pool implements `JobService` | 2 clients, 2 workers, 4 jobs, queue of 2, every thread may wake up spuriously |
| `replica_pool` | output in order, complete or failed for a reason of its own; every `consume_batches` ends, every future becomes ready | 2 callers, 2 replicas, queue of 1, batches of 2, chunks of 3, streams of 3 and 1 or of 4 and 0 examples |
| `buffered` | requests are kept with their promises, and nothing is left at destruction; a full buffer is flushed and the destructor ends even if the timeout is infinite; if it is finite every request is translated | 2 clients, 6 requests, buffer of 5, batches of 2 |
| `lifecycle` | as long as batches are synchronous, replicas are never taken away under one and checked batches find one; the flag tells the truth until a copy fails; every call returns | 2 threads, 2 replicas, 3 calls, every mode, copies may throw |
| `beam_search` | decoder state, scores and sequences stay together; hypotheses end with their end token and within the lengths; every sentence gets its hypotheses, in order and none twice; leaving early loses nothing; alternatives are the likely translations that start with the prefix | 2 sentences, beams of 2, vocabulary of 4, 1 to 4 steps, 512 decoders, 20 choices of options; 20 requests for alternatives |
| `greedy_search` | batching, prompts, dropped and skipped sentences, several samples, restricted layers and rules change no hypothesis (it implements `IndependentDecoding`); every sentence gets its answers, in order, with the scores of their tokens; the callback gets each hypothesis in order under its sentence, and is told the end once | 2 sentences, 1 or 2 samples each, vocabulary of 4, up to 4 steps, 16 decoders, 69 requests |
| `greedy_mapped` (violation) | see section 4 | two translations with different restrictions |
| `kv_cache` | a flush that returns leaves nothing pending from before it; every attention reads the keys of the past tokens of each row, in order; the CPU copies only what was written, and a saved prompt stays as it was | 1 replica and 1 other thread, 3 pending commands, up to 3 tokens in 1 or 2 rows, capacities from 2, inputs of 2 tokens for the fused attention, windows 0 and 2, prompts of 1 token, 7 buffers |
| `front_ends` | tokens come in order, all of them unless the user leaves or a job fails; the generator ends only after its jobs, and once it is closed each prompt of a batch gives at most one more token; `next`, `close` and `__anext__` return; batches partition the stream, respect the maximum, are as large as it allows, and reading ends, with an error exactly if the second stream is shorter; `result` and `done` return, and calls that do not overlap agree | 2 batches, of 2 prompts (one with a forced step) and of 1 prompt, up to 2 tokens each, synchronous and asynchronous; streams of up to 4 examples of up to 2 tokens, second stream up to 5; 3 threads with 2 calls each |
| `models` | every layer finds its weight in the type its kernel reads, with its own scale; a type that is asked for is the one that runs, and the default is the documented one; the ranks together compute the whole; the texts of Whisper keep the rules of the timestamps, every step can be taken and silence is that of its sentence; alignments are the best paths through their own tokens and frames; scores do not depend on the batch; numbers after a seed are those of the seed | 12 platforms, every type, saved and requested; 2 ranks, up to 4 heads, 2 models of one process; 1 or 2 recordings, 2 beams or samples, up to 7 steps; alignments of 1 or 2 texts of up to 2 tokens in 3 frames; 3 texts of up to 4 tokens (2 with sources); 2 threads that seed, 3 times together, 2 that draw 3 numbers each |
| `models_mixed` (violation) | see section 4 | as `models` |
| `models_split` (violation) | see section 4 | as `models` |

**Why the bounds are enough.** Lost wake-ups need sleeping threads and a
thread between its unlock and its notification while another slips in: two
clients that both wait on a queue of 2, and two workers, have them all, a
queue of 2 shows the order of jobs, and the proofs of section 5 remove the
bounds of the safety properties. The batch loops compare the running
batch with one more example: 4 examples give a full batch, its overflow and a
batch after it. Two callers on a queue of 1 block each other in `post`. A
buffer of 5 with batches of 2 holds two full batches and a remainder. In the search
one sentence leaves the batch before the other, both beams of a sentence end in
one step or one of them does, and the candidates come from one beam or from
two; the rotations of the costs make each happen in the first, a middle and
the last step. Two
replicas are needed to see a partly detached or partly assigned pool. A
capacity of 2 is outgrown by a third token: a cache is created, filled, grown,
given up and built again within the three tokens of a row; two rows
are enough to see a wrong stride, and three pending commands let a copy wait
for commands of both threads. The requests of the greedy search have a
sentence that leaves before the other in each position, prompts whose shortest
is the first or the second, and restrictions that follow each other. Two jobs
show the end of one before the tokens of the other, and two prompts of one
batch show one that is stopped while the other calls back again. The platforms are the rows
of the tables of `docs/quantization.md` and builds with fewer backends. Two
ranks cut every part once; the heads and the heads of the keys are those that
can be divided, and some that cannot. Two recordings with two beams, and
prefixes of different lengths, tell a row, a position and a sentence apart, and
the length limits are reached, passed by the prompt, and never reached. In a
batch of three texts the second and third line offsets of the padder differ
from a length. Three tokens (with the end) and three frames have paths with each
of the three steps at a border and inside, and the two texts leave rows and
frames of padding. A second seed is set while a thread is at each of its loads.

**Fairness.** Weak fairness for each thread that is inside a call or a loop:
the operating system schedules every runnable thread and hands over a free
mutex, and jobs return. Nobody has to make a call or to destroy anything. The
clock is not fair (the timeout given to the wrapper may be infinite) except
as the premise of `RequestsAreTranslated`. Spurious wake-ups are
never fair. `std::shared_mutex` may starve a writer in principle; the number
of calls is bounded in `ModelLifecycle`, so that readers leave in the end. In
`TokenStreaming` the jobs, the thread, the running generator and the producer
task are fair; the user and the consumer owe nothing, not even another `next`.

**Deadlock** is checked in every run but those of `MCModels`, whose components
are single calls, or counts with a bound, that end; elsewhere the states where
a model may stop are the named steps `Terminated` and `Ended`.

## 4. What the code does otherwise than it says

1. `update_output_layer` fills the table from words to outputs with `emplace`
   and clears it only when the layer becomes whole again: a translation with
   `use_vmap` after another one looks its end token up at an output that now
   belongs to another word, and does not stop on it (`greedy_mapped`). With
   one restriction, or a whole layer in between, all is right (`greedy_search`).
2. `infer_compute_type` takes the type of the variable that a hash table gives
   it last: a float16 model converted to int8 whose rotary factors stay in
   float32 is saved as `int8_float32` or `int8_float16` by the order of its
   names (`models_mixed`). With one floating point type the default is the
   documented one (`models`).
3. The fused projection of a generator is cut with sizes taken from the first
   variable read, which is the bias if there is one: each rank then gets a
   slice that mixes queries, keys and values (`models_split`). Without a bias,
   and when the heads divide, the ranks compute the whole (`models`).

Met while reading, and modelled as the code does it, without a run of their own:
* when the copy of `unload_model` to the CPU throws, `model_is_loaded` stays
  true although the replicas are gone (the variable `copyFailed` of
  ModelLifecycle, the premise of `ReadyUntilCopyFails`);
* `AsyncResult::result` in two threads at once calls `get` twice on one future:
  the second call may get an exception that nobody threw
  (`ResultReturns` is about calls that do not overlap);
* with more than one end token all the secondary candidates of a beam search
  may be end tokens: a finished beam is then not replaced, and is extended
  after its end token (`HypothesesEndInTime` is checked with one end token);
* with prefixes that are not returned, `apply_min_length` in a beam search
  disables the end tokens of the first rows of the logits instead of the rows
  of each sentence, and a hypothesis may end too early (the minimum length is
  checked without a prefix, or with one that is returned);
* the `hypothesis_id` that the callback gets is the index of a hypothesis
  before the hypotheses of a sentence are sorted;
* `num_active_jobs` counts the jobs whose client is still blocked on a full
  queue (`ActiveJobsCounted` says exactly what it counts), although the comment
  of `thread_pool.h` lists only queued jobs and jobs that a worker processes;
* `ParallelBatchReader` refuses a stream with fewer examples than the first,
  but drops the extra examples of a longer one;
* `buffer_loop` builds full batches also when the timeout is reached, against
  its comment: the remainder waits for one more timeout;
* with a restricted output layer the callback gets outputs where the results
  have words: `CallbackStreamsHypotheses` is checked, and proved, where an
  output has the number of its word (`ReportsTheResults`);
* without a restriction `update_output_layer` returns early when the padded
  size is the current one: a restriction of that size stays;
* `Dense::select_weights` without a bias of its own keeps the mask of the last
  padded selection when it is called without padding;
* a suppressed sequence loses the words that a restriction leaves out and
  becomes a shorter one, a single word being suppressed always;
* with `include_prompt_in_result` false, the prompt is left out by forwarding
  it, up to the shortest one of the batch: with a shortest prompt of one token
  the longer prompts are returned, and what `no_repeat_ngram_size`,
  `repetition_penalty` and `suppress_sequences` see of a prompt depends on the
  other prompts;
* the `batch_id` of the callback counts the sentences that are run, without
  the skipped ones, and is 0 for all the inputs of `return_alternatives`;
* `decode_alternatives` subtracts the options' `start_step`, the tokens
  forwarded before, from both lengths; returns the prefix also when
  `return_prefix` is false; may return no alternative if none reaches
  `min_alternative_expansion_prob`; and an end token may be an alternative if
  there are fewer other words than hypotheses. The length penalty divides the
  score of what follows the expanded word, by the length of that part alone,
  and then the whole score of the word is added: scores of alternatives of
  different lengths are not comparable as those of hypotheses are, and one
  where only an end token follows that is not returned gets minus infinity
  (`Divisor`; `AlternativesContinueThePrefix` states the scores as they are);
* an exception of the generator ends the producer of `AsyncGenerator` without
  an end mark: the consumer waits for ever (the producer state `failed`);
  leaving `async for` without cancelling its task does not stop the
  generation; and an exception of one batch ends the generator while other
  batches still run, in contrast to its comment "wait for the job";
* closing a generator does not stop a batch at once: the answer of a callback
  stops one prompt of it (`decoding.cc` 936-941), so that every prompt of every
  batch may still call back once, and its token is put and never read. With the
  default `max_batch_size` all prompts are in one batch (`JobsEndFirst` bounds
  the late tokens of each prompt, not of a job);
* `unload_model` reads the counter before it takes the lock: an asynchronous
  batch that is posted in between loses its replica
  (`SynchronousBatchesKeepReplicas` is about the batches under the lock);
* a generator that is built while the seed is set notes the new epoch with the
  old seed and never follows it, against the comment of `random.cc`
  (`raced` in RandomSeeds); and the default seed is taken for no seed;
* `no_speech_prob` of `generate` is that of another recording when a greedy
  search runs several samples of each, and there is none when the prompt is
  longer than `max_length` and the search has no step; the rules of the
  timestamps are chosen from the first prompt only and do not look at the
  timestamps of a prefix;
* tensor parallelism of models whose hidden size is not heads times head size,
  of translation models with fewer heads for the keys (cut in thirds), of
  models with slopes (computed from the local number of heads) or with position
  biases (not cut on rank 0, wrong from two rows on) does not compute the
  whole; two static sizes stay for a second model of the process;
* a source that is empty gives scores of zero for all its target tokens,
  whatever the `offset`, and `to_ids` leaves inputs of no token when
  `max_input_length` of a generator is 1 (Scoring begins at 2);
* with equal numbers of frames `align` normalizes a text over the rows of the
  longest text of the batch, and a tie of the first two predecessors in the
  time warping takes the third even if it is worse (both are premises of
  `AlignmentsFollowTheSpeech`);
* read only, in parts that are not modelled: with a sliding window a decoder
  that gets lengths uses the window as the time of its padder and returns the
  logits of the last chunk; a median filter of an even width would write one
  value more than its window holds;
* `unload_model` right after the last result may do nothing, since the worker
  decrements the counter after it has fulfilled the promises.

## 5. Proofs

A theorem holds for every value of the constants that satisfies the assumption
of its module. Each safety theorem follows from an inductive invariant: a
conjunction of named parts, each of which every action preserves given the
others. The parts say what the property itself does not, and without which it
could not be carried over a step.

`ThreadPool_proofs` proves, for any finite sets of clients and workers (at
least one worker), any set of jobs, any positive queue bound and any set of
threads that wake up spuriously (`ThreadPoolAssumption`):

| theorem | property | argument |
|---|---|---|
| `ShapeInvariant` | `Shape` | where each thread is, and that it holds a job exactly in the states in which the code owns one; the base of all others |
| `QueueBoundedInvariant` | `QueueBounded` (part of `JobService`, no run of its own) | a put tests the size in the same critical section |
| `FirstInFirstOutInvariant` | `FirstInFirstOut` (no run of its own: `ImplementsService` implies it) | put appends to both sides, get moves the head |
| `ActiveJobsCountedInvariant` | `ActiveJobsCounted` | every step that moves a thread in or out of a counted group moves the counter: cardinalities of finite sets of threads |
| `TypeCorrect` | `TypeOK` | `Shape`, and the count gives `numActive >= 0`: the decrement is only safe because the counter equals a cardinality that includes the thread that decrements |
| `NoWakeupIsLost` | `NoLostWakeup` | three inductive parts: queued jobs are covered by workers that are about to look and clients about to notify; free slots by clients about to look and workers about to notify; after the end request no worker sleeps unless the owner is about to notify all. The second part needs the count of sleeping threads before a notification |
| `Drained` | `DrainedWhenDestroyed` | a worker that left the loop saw the queue closed and empty; nothing is put after; a destroyed pool has only exited workers, so the jobs taken are finished |
| `StepsOfService` | the safety part of `JobService`, which `ImplementsService` checks whole | the mapping is that of the run; each step of a thread is one step of the abstract pool or none. A job that is taken finds a free server because each worker holds at most one (`ServerIsFree`, a cardinality), and a job is accepted once (`PostedOnce`) |

`Models_proofs`. For any threads, replicas, calls and modes
(`ModelLifecycleAssumption`: the name that stands for no writer is no thread);
for any platforms, layers and aliases (`ModelLoadingAssumption`: finitely many,
and what is an alias is not saved under its own name); and for any
vocabulary with the special tokens in their order, prompts and options
(`WhisperAssumption`):

| theorem | property | argument |
|---|---|---|
| `LoadedModelIsReady` | `ReadyUntilCopyFails` | `LockHeld`: who is inside a critical section holds the mutex alone, and who runs a batch holds it shared; `ReplicasFollow`: at each point of a detachment or an assignment, which replicas are there |
| `ReplicasStayUnderBatches` | `SynchronousBatchesKeepReplicas` | as long as all batches are synchronous somebody waits, under the shared lock, for each job that is queued or runs (`BatchesAwaited`), so that no writer is there. This needs that two calls never share a number (`CallsNumbered`), and gives that no batch finds a model gone (`NoException`) |
| `RequestsResolve` | `RequestsAreHonoured` | the type of a load is what `resolve_compute_type` makes of the request and the inferred type (`TypeDecided`), and each table of fallbacks begins with the request and ends in a type that runs everywhere (`FirstThatRunsIs`, `FallBackIs`, `ResolveIs`, by cases on the types and on what a platform supports). A load is refused for its type only: the weights that a file has in int8 have scales (`ScalesAreThere`) |
| `LayersAreComplete` | `LayersFindTheirVariables` | one invariant for each stage of a load: after the conversion each saved layer is coherent, a weight next to a scale of the same origin or a float without one (`Typed`: `EnsureTypeIs` for one layer and all ten pairs of types); after the aliases each name of a layer stands for the object of the original (`Aliased`); after the packing a layer finds one form of its weight (`Found`), and a copy finds what the model finds (`CopiesAreFound`). The four loops are folds in an order nobody chooses: a loop is a function of the set that is done (`LoopExists`), and what holds of it is an induction over subsets (`SubsetInduction`) in which a step disturbs only the names of its own layer (`Keeps`) |
| `TextsKeepTheRules` | `TimestampsKeepTheRules` | a row after a step is a row before it, of the same hypothesis of the batch, with one token more (`StepOfRows`); the code looks at the last two tokens and the last timestamp of a row, and that is enough for the whole text (`TextGrows`: a token that the three cases leave keeps `Increases` and `InPairs`). The position of a row, its hypothesis and its sentence are three numbers, told apart by two divisions (`SentenceIs`) |
| `EveryStepHasTokens` | `StepsArePossible` | at the first sampled token the first timestamp is left, later the end token (`TokensAreLeft`), if `SomethingIsLeft`: neither is suppressed by the options, without which a step has no token whatever the rules |
| `SilenceIsOfTheSentence` | `NoSpeechOfSingleSamples` | before the first step the position in the batch is the sentence, so that the rows of the first step and the forwarded prompts are those of the sentences (`FirstStepReads`); `CheckPrompts` makes all start tokens stand at one index (`PromptIs`) |

`FrontEnds_proofs`. For any requests, batch and buffer size of the wrapper
(`BufferedTranslationAssumption`); for any threads and seeds and any
interleaving of the loads and stores of the random generators; and for any
number of batches, prompts, forced steps and tokens, synchronous and asynchronous:

| theorem | property | argument |
|---|---|---|
| `RequestsReachThePool` | `RequestsAreKept` | the two queues hold the same requests in the same order (`BufferMatches`); each request is in the buffer, in the local batch of the background thread or in one batch of the pool, and nowhere twice (`EachInOnePlace`); the flush after the stop request takes all (`LastFlush`) |
| `SeedingIsReproducible` | `SeedIsReproducible` | between two sets, a generator that follows the last epoch has the last seed unless it was built during a set (`SeedFollowed`, with the thread at any point of a reseeding), and the numbers drawn since are those it gave since it was seeded (`NumbersCounted`) |
| `StreamsAreComplete` | `StreamIsComplete` | the channel is what was put and not yet yielded, up to the first mark, and a mark is put only when all jobs have values or one has failed (`ChannelFollows`, `ResultsCaught`); what the consumer got and the inbox are what was yielded (`InboxFollows`) |
| `JobsEndBeforeGenerator` | `JobsEndFirst` | the same, and what each outcome of the generator says of the jobs (`YieldsThePut`); a prompt that called back after the generator was closed is finished, or it is the one whose answer its job still has to read (`LateTokens`) |

`ReplicaPool_proofs` begins with the batches, goes on with the pool, for any
callers, inputs, replicas and sizes for which the loops of the code advance
(`ReplicaPoolAssumption`), and ends with the readers, for any streams, sizes
and kinds of batch (`BatchReaderAssumption`):

| theorem | property | argument |
|---|---|---|
| `BatchesPartitionTheInput` | about the operators of `Batching`, which `CompleteOrFailed` and its run rest on | the two loops that measure a batch stop, within what is left, at one example at least; so the chunks follow each other and cover the input; the sort, any of those that are not stable, is a permutation. The induction over the input is by the least counterexample |
| `ResultsAreComplete` | `CompleteOrFailed` | the jobs in the pool are those that were accepted, in order and once (`PoolFollows`); two jobs of one caller share no promise (`JobsAreApart`, from the theorem above); a job that runs has set its promises up to the next one, each to its own result or all to the exception (`JobsSetTheirPromises`, `PromisesFollow`); what was written, what is queued and what is being posted is the input up to where it was read (`ResultsInOrder`) |
| `BatchesAreFull` | `BatchesAreTight` | every batch is what the loop takes from some place of the stream (`ReaderInv`), and the loop stops where one more example does not fit (`FillStops`). The size that the code keeps as it goes is the cost of the batch, the largest length times the number or the total of the lengths (`SizeIsTheCost`); the total of the property is a fold, whose recursive function exists and is unique by induction on the examples (`SumsExist`, `SumsAreUnique`) |

`Decoding_proofs` holds what both searches need of their helpers: sets of
numbers in ascending order are enumerated without a gap (`AscendingIs`), a
strict total order ranks a finite set (`Ranks`), the comparison of hypotheses is
a strict weak order although it multiplies scores by lengths (`BetterIsAnOrder`),
so that the ranking of the results is a bijection from the best to the worst
(`RankingIs`).

`BeamSearch_proofs`, for any number of sentences and beams, any vocabulary,
prefixes, lengths and decoder with negative scores (`BeamSearchAssumption`,
`AlternativesAssumption`; `IsSearch` says what the entry point lets through):

| theorem | property | argument |
|---|---|---|
| `StateFollows` | `StateFollowsSequences` | below |
| `EarlyExitLosesNothing` | `EarlyExitIsSafe` | from the end of the prefix on no candidate is better than the first (`FirstIsBest`): scores only fall, and a sentence leaves early when its first beam has ended. The results then cover every beam that has ended. The premises: log probabilities are greater than the mark of a disabled token (`ModelsAreFinite`), and not every token is an end token (`WordsAreLeft`), else a disabled token might be the best one |
| `EverySentenceGetsItsHypotheses` | `EverySentenceIsAnswered` | the rows of a sentence that are not penalised have different texts, so the candidates of a step differ, and they are longer than those that were registered before; the ranking repeats none. The premises: no more hypotheses than beams (`EnoughBeams`: `decode` accepts as many as the beams times the patience, decoding.cc:1030, but the last step gives as many as there are beams), and end tokens are kept or there is only one (`EndsAreKnown`: two texts that end differently are the same when their ends are cut) |
| `HypothesesAreInTime` | `HypothesesEndInTime` | a row has one ending candidate at most, so that of twice as many candidates as beams enough are left to replace each beam that ends (a cardinality), and no beam holds an end token. The premises: one end token (`OneEndToken`), and a minimum length only for texts without a prefix (`MinimumApplies`); section 4 says what happens else |
| `StateFollowsInAlternatives`, `EarlyExitLosesNothingInAlternatives`, `EveryExpansionGetsItsWords`, `ExpansionsAreInTime` | the same four, of the searches that `decode_alternatives` starts on a state that has seen the prefix | `ExpansionIsSearch`: what it hands to the search satisfies `IsSearch`; and the search never sees the rest of the module |

The property speaks of the end of an iteration; what is inductive (`GoesOn`) is
that each row has a text with one token for each step, is fed the last of them,
and has a decoder state that has seen those before it (`RowsFollow`), and that
the score of a row is the sum of its text unless it was penalised
(`ScoresFollow`). An iteration is followed through the operators of the model:
the cells are ranked by a strict total order (`BetterIsTotal`, `Ranks`), so that
the choices of the sampler exist and are as many as it asks for; a candidate is
a row and a token, with the sum of their scores (`CandidatesFollow`); a beam
goes on with a candidate (`NextBeamIsCandidate`); and the rows of the sentences
that remain are gathered at the positions that these have in the batch
(`ActiveFollows`, `SeenGrows`). Where the state goes after the last step
matters too: a sentence that is kept is not at its last step, and the number of
steps of the loop is enough for each of them (`StepsAreLeft`,
`MaxStepIsEnough`), so that no search ends with a sentence in the middle.

`GreedySearch_proofs`, for any requests, decoders and layers
(`GreedySearchAssumption`), under one premise: `DecodesAlone`, the conditions
on a request without which the hypotheses do depend on each other (section 4):
the layer has no stale entries of an earlier restriction, and what the rules
see of a prompt does not depend on the other prompts. The last theorem has
another one, `ReportsTheResults`: a request with a callback skips no sentence
and leaves no word out of the output layer, since the callback gets positions
in the batch and outputs (section 4). TLC checks both on the requests of the
run (`MCGreedySearchAssumption`).

| theorem | property | argument |
|---|---|---|
| `SearchIsIndependent` | `ImplementsIndependentDecoding`, step by step | the words, the tokens so far, the inputs and the decoder state of each position are those of one hypothesis (`SearchInv`, in which `AliveInv` says it of the positions that are left); what the sampler may return in a row, with the rules applied to the batch, is what the abstract specification allows to the hypothesis; and an end in the batch is an end alone. Padding, forwarding the common prefix, repetition for samples, removal and the maps of the output layer are each a lemma |
| `EverySentenceGetsItsAnswer` | `EverySentenceIsAnswered` | every hypothesis that is no longer searched has its last word and its score (`HypothesisInv`, `AnswersInv`); steps are left as long as one is searched, so at the end all are finished; merging the samples ranks those of one sentence (`RankingIs`) and puts the skipped sentences back between them |
| `CallbackGetsTheResults` | `CallbackStreamsHypotheses` | what was given under the numbers of a hypothesis is what is to be shown of its tokens so far, and the last call ends it if and only if the hypothesis is finished (`StreamInv`); a step calls once for each hypothesis in the batch, and two hypotheses never share their numbers (`CallbackIdsDiffer`); so, at the end, texts and hypotheses correspond one to one, and ranking them is a permutation, which loses and doubles none (`SentenceIsStreamed`) |

`KVCache_proofs` proves, first of the queue alone and then of the cache of keys
on it, for any threads, rows, lengths, windows, buffers and capacities
(`MetalQueueAssumption`, `KVCacheAssumption`):

| theorem | property | argument |
|---|---|---|
| `QueueTypeCorrect` | `QueueTypeOK` of `QueueSpec` (no run of its own) | every place is inside the queue: a commit lengthens it, an execution moves all the places by one |
| `FlushWaitsForEverything` | `FlushLeavesNothing` of `QueueSpec` | inductive part (`QueueInv`): the last committed buffer is the last pending one; what a flush waits for is not older than what it found. Stated for command buffers of any set, so that the next theorem has it too |
| `CacheFlushWaits` | `FlushLeavesNothing` of `KVCache` | the same |
| `AttentionIsRight` | `AttentionReadsThePast` | below |
| `CopiesAreRight` | `CopiesAreComplete` | below |

What is inductive about the memory speaks of the future: there is a sequence of
memories, one after each pending command (`MemoryFollows`), in which every
attention reads what it should (`ReadsRight`) and of which the last one holds,
in the buffer of the cache, the past of each row (`HoldsKeys`). An operator
lengthens this sequence command by command (`FollowsMore`), the device takes
its first step (`FollowsLess`); a new buffer disturbs nobody, since no pending
command uses it (`FollowsNew`), and a buffer is freed only when none does
(`FollowsFewer`). That each path of the operator leaves the right keys is a
lemma of its own (`StridedYields`, `CompactYields`, `ConcatYields`,
`SlideYields`, and `AttendedAttends` for all of them): it needs how long the
cache is (`PlaceFits`: at least as long as the past, or with a sliding window
as long as the past up to the window), because the stride with which `grow`
reads the keys is right only then. The doubled capacity is long enough
(`LargerIs`, `DoubledIs`). The state of a static prompt is in a buffer that
nobody writes any more (`PromptStays`), and while the replica waits to copy a
state it issues nothing (`CopyWaits`), so that at the end of the flush only
work of other threads is pending and the memory is the last one of the
sequence.

**Checked by TLC only.** All liveness (the fairness of `JobService`, and
every property with `~>` or `<>`), since the prover has no rule for fairness or
`ENABLED`. What the modules compute over data with recursive functions and
folds, for which each proof needs the existence of its function before its
induction: `AlignmentsFollowTheSpeech` (the time warping), `ScoresAreIndependent`,
`RanksComputeTheWhole`. And `AlternativesContinueThePrefix`, whose last search is a
recursive function of the decoder. `DefaultIsDocumented` compares with
the tables of the documentation: it is about twelve platforms and nothing else.

## 6. Not modelled, and the plan

Not modelled for good: kernels and layers (floating point arithmetic), the
command line client, logging and profiling, third-party headers (the JSON and
half precision libraries alone are four tenths of the lines of the
repository), and the sequential parts whose state is a file or a table: the
binary format, the vocabulary files and the vocabulary map, the mapping of
layers by the Python converters. The language detection of Whisper is
arithmetic on one call. The states of the CUDA random
generators are seeded once and belong to the device, as do streams and
allocators. Thread affinity, CUDA streams of idle workers and the tokenization
of text lines are left out of the modules above, and so are the biased prefixes
and the logits processors of a beam search, alternatives that a beam search
continues, sliding windows in scoring, and the attention variants of other
devices.

The plan was then about proofs, and most of it is done: the safety part of the
refinement of `JobService`, the refinement of `IndependentDecoding`, and the
invariants that section 5 lists, component by component. What is left of it:
1. `RanksComputeTheWhole` of `TensorParallel` and `ScoresAreIndependent` of
   `Scoring`;
2. lemmas on `Requests` and `OutputLayer` (what a layer maps back and forth).
