-------------------------------- MODULE KVCache --------------------------------
(***************************************************************************)
(* The cached keys of one decoder layer on the Metal device:               *)
(* MultiHeadAttention::operator() of src/layers/attention.cc writes the    *)
(* keys of the new tokens behind those of the past ones, in a buffer that  *)
(* has room for more (capacity) or in one that is just long enough;        *)
(* Decoder::update_state, repeat_batch and copy_state reorder, repeat and  *)
(* copy it.  Most of this runs later, on the device (MetalQueue).          *)
(*                                                                         *)
(* One head is modelled, and only the keys: the values go the same way.    *)
(* The key of a token is <<position, row>>: rows are told apart.           *)
(***************************************************************************)
EXTENDS MetalQueue, FiniteSetsExt

CONSTANTS
  Replica,      \* the thread that runs the decoder; the others issue work of theirs
  MinCapacity,  \* smallest capacity (64 in the code)
  MaxQueries,   \* longest input of the fused attention (8 in the code)
  Windows,      \* values of _sliding_window
  MaxLength,    \* bound on the tokens of a row
  MaxPrompt,    \* bound on the tokens of a static prompt
  MaxRows,      \* bound on the rows of the batch
  MaxBuffers,   \* bound on the buffers in use
  MaxOthers     \* bound on the pending commands of the other threads

ASSUME KVCacheAssumption ==
  /\ Replica \in Threads
  /\ MinCapacity \in Nat \ {0} /\ MaxPrompt \in Nat /\ MaxQueries \in Nat /\ Windows \subseteq Nat
  /\ MaxLength \in Nat /\ MaxRows \in Nat \ {0} /\ MaxBuffers \in Nat /\ MaxOthers \in Nat

VARIABLES
  window,    \* _sliding_window, 0 if there is none
  memory,    \* contents of the buffers, as flat sequences
  cache,     \* cached_keys: its buffer (0 if empty) and its third dimension
  past,      \* history: the keys of the past tokens of each row
  saved,     \* the state of the static prompt: cache and past
  copy,      \* the copy in progress: its source and its number of repeats
  fed        \* whether tokens were fed since the rows last changed

layerVars == <<window, memory, cache, past, saved, copy, fed>>
vars == <<queueVars, layerVars>>

Empty == [buffer |-> 0, dim |-> 0]
NoState == [cache |-> Empty, past |-> <<>>]
NoCopy == [source |-> NoState, repeats |-> 0]
Garbage == <<0, 0>>

Rows == DOMAIN past
Offset == Len(past[1])

Init ==
  /\ QueueInit
  /\ window \in Windows
  /\ memory = [b \in 1 .. MaxBuffers |-> <<>>]
  /\ cache = Empty
  /\ past \in {[r \in 1 .. n |-> <<>>] : n \in 1 .. MaxRows}
  /\ saved = NoState
  /\ copy = NoCopy
  /\ fed = FALSE

-----------------------------------------------------------------------------
(* Commands.  A "write" puts new keys at a position of each row of a       *)
(* buffer, in place; a "move" fills another buffer with a part of chosen   *)
(* rows, followed by new keys: growth, compaction, Concat, Slide, Gather.  *)

Row(contents, dim, r, n) ==
  [i \in 1 .. n |-> IF (r - 1) * dim + i \in DOMAIN contents
                      THEN contents[(r - 1) * dim + i] ELSE Garbage]

Put(contents, dim, at, keys) ==
  [i \in DOMAIN contents |->
     LET r == (i - 1) \div dim + 1
         k == ((i - 1) % dim) + 1 - at
     IN  IF r \in DOMAIN keys /\ k \in DOMAIN keys[r] THEN keys[r][k] ELSE contents[i]]

Moved(m, c) ==
  [r \in DOMAIN c.new |->
     SubSeq(Row(m[c.from], c.fromDim, c.rows[r], c.skip + c.keep), c.skip + 1, c.skip + c.keep)
       \o c.new[r]]

Effect(m, c) ==
  CASE c.op = "write" -> [m EXCEPT ![c.to] = Put(@, c.dim, c.at, c.new)]
    [] c.op = "move"  -> [m EXCEPT ![c.to] = Put(@, c.dim, 0, Moved(m, c))]
    [] OTHER          -> m

BuffersOf(c) ==
  CASE c.op = "write" -> {c.to}
    [] c.op = "move"  -> {c.from, c.to}
    [] c.op = "sdpa"  -> {c.from}
    [] OTHER          -> {}

(* A command buffer retains its buffers until it has completed; the others *)
(* are freed when the storage that owns them goes.                         *)
InUse(commands, state, other) ==
  {state.buffer, other.cache.buffer} \cup UNION {BuffersOf(commands[i]) : i \in DOMAIN commands}

Retained(m, used) == [b \in DOMAIN m |-> IF b \in used THEN m[b] ELSE <<>>]

-----------------------------------------------------------------------------
(* What an operator has done so far: the cache, the memory, its commands.  *)

Start == [cache |-> cache, memory |-> memory, commands |-> <<>>]

Issue(s, command) == [s EXCEPT !.commands = Append(@, command)]

FreeBuffers(s) == (1 .. MaxBuffers) \ InUse(pending \o s.commands, s.cache, saved)

Allocate(s, n, dim) ==
  LET b == Min(FreeBuffers(s))
  IN  [s EXCEPT !.cache = [buffer |-> b, dim |-> dim],
                !.memory[b] = [i \in 1 .. n * dim |-> Garbage]]

Write(s, at, new) ==
  Issue(s, [op |-> "write", to |-> s.cache.buffer, dim |-> s.cache.dim, at |-> at, new |-> new])

(* Replaces the cache by one of this dimension, with `keep` keys of these  *)
(* rows from `skip` on, read with this stride, and the new keys.           *)
Move(s, dim, stride, rows, skip, keep, new) ==
  LET a == Allocate(s, Len(rows), dim)
  IN  Issue(a, [op |-> "move", from |-> s.cache.buffer, fromDim |-> stride, rows |-> rows,
                skip |-> skip, keep |-> keep, new |-> new, to |-> a.cache.buffer, dim |-> dim])

AllRows == [r \in Rows |-> r]
NoKeys(rows) == [r \in DOMAIN rows |-> <<>>]

(* The projection of the next n tokens. *)
NewKeys(n) == [r \in Rows |-> [i \in 1 .. n |-> <<Offset + i, r>>]]

-----------------------------------------------------------------------------
(* Plausible mistakes in the definitions below; Next uses none of them.    *)

OffsetAsStride(s, fused) == Offset

(* The commit and the record of the last buffer in two critical sections. *)
CommitUnlocked(t) ==
  /\ ~flushing[t]
  /\ \/ /\ toWait[t] = 0 /\ Len(pending) < MaxPending
        /\ pending' = Append(pending, [op |-> "other"])
        /\ toWait' = [toWait EXCEPT ![t] = Len(pending) + 1]
        /\ UNCHANGED last
     \/ /\ toWait[t] > 0
        /\ last' = toWait[t]
        /\ toWait' = [toWait EXCEPT ![t] = 0]
        /\ UNCHANGED pending
  /\ UNCHANGED <<flushing, before, layerVars>>

-----------------------------------------------------------------------------
(* MultiHeadAttention, self attention.                                     *)

(* Which paths are open to an input of n tokens.  Neither is if the caller *)
(* wants the attention weights; a padder, or a layer of another shape,     *)
(* rules out the fused post-processing of the projection (qkv_post).       *)
CanStride(n, weights) == window = 0 /\ n <= MaxQueries /\ ~weights
CanFuse(n, weights, padder) == CanStride(n, weights) /\ n = 1 /\ ~padder

(* The cache has a capacity, of which Offset keys are used. *)
HasCapacity(s) == s.cache.buffer # 0 /\ s.cache.dim > Offset

(* The capacity of a larger cache for `length` keys: doubled while it is   *)
(* too small.                                                              *)
Doubled(first, n) ==
  LET capacity[i \in 0 .. n] == IF i = 0 THEN first ELSE 2 * capacity[i - 1]
  IN  capacity[n]

Larger(s, length) ==
  LET first == IF HasCapacity(s) THEN Max({MinCapacity, 2 * s.cache.dim}) ELSE MinCapacity
  IN  Min({Doubled(first, i) : i \in 0 .. length} \cap {c \in Nat : c >= length})

(* The stride of the keys that grow reads: the fused path takes the third  *)
(* dimension as it is, the other one the offset if there is no capacity.   *)
OldCapacity(s, fused) == IF fused \/ HasCapacity(s) THEN s.cache.dim ELSE Offset

(* Append in place if there is room, or else to a larger cache. *)
Strided(s, n, fused) ==
  IF HasCapacity(s) /\ s.cache.dim >= Offset + n
    THEN Write(s, Offset, NewKeys(n))
  ELSE IF Offset = 0
    THEN Write(Allocate(s, Len(past), Larger(s, n)), 0, NewKeys(n))
  ELSE Move(s, Larger(s, Offset + n), OldCapacity(s, fused), AllRows, 0, Offset, NewKeys(n))

(* Before it returns to the generic path the cache gives up its capacity.  *)
Compact(s) ==
  IF HasCapacity(s)
    THEN Move(s, Offset, s.cache.dim, AllRows, 0, Offset, NoKeys(AllRows))
    ELSE s

Concat(s, n) ==
  IF s.cache.buffer = 0
    THEN Write(Allocate(s, Len(past), n), 0, NewKeys(n))
    ELSE Move(s, s.cache.dim + n, s.cache.dim, AllRows, 0, s.cache.dim, NewKeys(n))

Slide(s, first, keep) == Move(s, keep, s.cache.dim, AllRows, first, keep, NoKeys(AllRows))

SlideToGenerate(s, sequence) ==
  IF window > 0 /\ ~sequence /\ cache.buffer # 0 /\ s.cache.dim > window
    THEN Slide(s, 1, s.cache.dim - 1) ELSE s

SlideAfterPrefill(s, sequence) ==
  IF window > 0 /\ sequence /\ s.cache.dim > window
    THEN Slide(s, s.cache.dim - window, window) ELSE s

(* What the attention of the new tokens should read of a row: all its      *)
(* keys; with a sliding window the new ones and the last before them, as   *)
(* many as the window has, the new one of a generation step included.      *)
ShouldRead(row, n, sequence) ==
  LET most == IF sequence THEN window + n ELSE window
  IN  IF window = 0 \/ Len(row) <= most THEN row
      ELSE SubSeq(row, Len(row) - most + 1, Len(row))

WithNew(n) == [r \in Rows |-> past[r] \o NewKeys(n)[r]]

(* dot_product_attention on the first `length` keys of each row. *)
Sdpa(s, length, n, sequence) ==
  Issue(s, [op |-> "sdpa", from |-> s.cache.buffer, dim |-> s.cache.dim, length |-> length,
            should |-> [r \in Rows |-> ShouldRead(WithNew(n)[r], n, sequence)]])

(* The whole operator. *)
Attended(n, sequence, weights, padder) ==
  IF CanFuse(n, weights, padder)
    THEN Sdpa(Strided(Start, n, TRUE), Offset + n, n, sequence)
  ELSE IF CanStride(n, weights)
    THEN Sdpa(Strided(Start, n, FALSE), Offset + n, n, sequence)
  ELSE LET s == SlideToGenerate(Concat(Compact(Start), n), sequence)
       IN  SlideAfterPrefill(Sdpa(s, s.cache.dim, n, sequence), sequence)

(* The commands of an operator are committed one by one; no other command  *)
(* touches their buffers, so that they are committed here in one step.     *)
Finish(s) ==
  /\ cache' = s.cache
  /\ Commit(Replica, s.commands)
  /\ memory' = Retained(s.memory, InUse(pending', cache', saved))

HasRoom == copy = NoCopy /\ Cardinality(FreeBuffers(Start)) >= 3

(* An input of several tokens is a sequence; with a sliding window it is   *)
(* given in parts that are not longer than the window.                     *)
Attend ==
  \E n \in 1 .. MaxLength - Offset, sequence, weights, padder \in BOOLEAN :
    /\ HasRoom
    /\ n > 1 => sequence
    /\ window > 0 => n <= window
    /\ Finish(Attended(n, sequence, weights, padder))
    /\ past' = WithNew(n)
    /\ fed' = TRUE
    /\ UNCHANGED <<window, saved, copy>>

(* Decoder::update_state: a Gather of the rows, once after a step. *)
UpdateState ==
  \E n \in Rows : \E rows \in [1 .. n -> Rows] :
    /\ HasRoom /\ fed
    /\ Finish(Move(Start, cache.dim, cache.dim, rows, 0, cache.dim, NoKeys(rows)))
    /\ past' = [r \in DOMAIN rows |-> past[rows[r]]]
    /\ fed' = FALSE
    /\ UNCHANGED <<window, saved, copy>>

-----------------------------------------------------------------------------
(* Copies by the CPU.                                                      *)

(* repeat_batch of beam search and copy_state of a static prompt: the CPU  *)
(* waits for the device and then repeats every row.                        *)
BeginCopy(state) ==
  \E k \in 1 .. MaxRows :
    /\ HasRoom /\ state # NoState
    /\ k * Len(state.past) <= MaxRows
    /\ FlushBegin(Replica)
    /\ copy' = [source |-> state, repeats |-> k]
    /\ UNCHANGED <<window, memory, cache, past, saved, fed>>

BeginRepeat == fed /\ BeginCopy([cache |-> cache, past |-> past])
BeginWithPrompt == cache = Empty /\ BeginCopy(saved)

RepeatedRow(r, k) == (r - 1) \div k + 1

(* The state of one input of one row. *)
IsPrompt(state) == state.past = <<[i \in DOMAIN state.past[1] |-> <<i, 1>>]>>

(* The copy of a static prompt leaves the original to DecoderStateCache,   *)
(* whose emplace keeps the first state.                                    *)
EndCopy ==
  \E save \in BOOLEAN :
    LET from == copy.source
        dim == from.cache.dim
        rows == [r \in 1 .. copy.repeats * Len(from.past) |-> RepeatedRow(r, copy.repeats)]
        s == Allocate(Start, Len(rows), dim)
        read == [r \in DOMAIN rows |-> Row(memory[from.cache.buffer], dim, rows[r], dim)]
    IN  /\ copy # NoCopy
        /\ save => IsPrompt(from) /\ Len(from.past[1]) <= MaxPrompt /\ saved = NoState
        /\ FlushEnd(Replica)
        /\ saved' = IF save THEN from ELSE saved
        /\ cache' = s.cache
        /\ memory' = Retained([s.memory EXCEPT ![cache'.buffer] = Put(@, dim, 0, read)],
                              InUse(pending, cache', saved'))
        /\ past' = [r \in DOMAIN rows |-> from.past[rows[r]]]
        /\ copy' = NoCopy
        /\ fed' = FALSE
        /\ UNCHANGED window

(* The next generation starts from an empty state. *)
NextGeneration ==
  /\ copy = NoCopy /\ cache # Empty
  /\ cache' = Empty
  /\ past' \in {[r \in 1 .. n |-> <<>>] : n \in 1 .. MaxRows}
  /\ memory' = Retained(memory, InUse(pending, Empty, saved))
  /\ fed' = FALSE
  /\ UNCHANGED <<queueVars, window, saved, copy>>

-----------------------------------------------------------------------------

ExecuteCommand ==
  /\ Execute
  /\ memory' = Retained(Effect(memory, Head(pending)), InUse(pending', cache, saved))
  /\ UNCHANGED <<window, cache, past, saved, copy, fed>>

(* Another thread issues an operator on buffers of its own: a replica on   *)
(* the same device, or a worker of a parallel loop.                        *)
Others == {i \in DOMAIN pending : pending[i].op = "other"}

OtherCommit(t) ==
  /\ Cardinality(Others) < MaxOthers
  /\ Commit(t, <<[op |-> "other"]>>)
  /\ UNCHANGED layerVars

Next ==
  \/ Attend \/ UpdateState \/ NextGeneration
  \/ BeginRepeat \/ BeginWithPrompt \/ EndCopy
  \/ ExecuteCommand
  \/ \E t \in Threads \ {Replica} : OtherCommit(t)

Spec == Init /\ [][Next]_vars

-----------------------------------------------------------------------------
(* Properties.                                                             *)

(* What the device reads when it runs the attention of some tokens: the    *)
(* keys of all the past tokens of each row and of the new ones, in order,  *)
(* whatever the paths that wrote them, the growth, the compaction and the  *)
(* reordering in between, and however late it runs.                        *)
AttentionReadsThePast ==
  \A c \in {pending[i] : i \in DOMAIN pending \cap {1}} :
    c.op = "sdpa" =>
      \A r \in DOMAIN c.should : Row(memory[c.from], c.dim, r, c.length) = c.should[r]

(* The keys of a state that is not being written hold its past.            *)
Holds(state, m) ==
  \A r \in DOMAIN state.past :
    LET n == Min({state.cache.dim, Len(state.past[r])})
    IN  Row(m[state.cache.buffer], state.cache.dim, r, n)
          = SubSeq(state.past[r], Len(state.past[r]) - n + 1, Len(state.past[r]))

(* When the CPU copies a state, the device has written all of it; and the  *)
(* generations that came in between have left the saved state as it was.   *)
CopiesAreComplete == CanReturn(Replica) => Holds(copy.source, memory)
=============================================================================
