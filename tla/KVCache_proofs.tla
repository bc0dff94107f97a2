---------------------------- MODULE KVCache_proofs ----------------------------
(***************************************************************************)
(* Theorems about the Metal command queue and the cache of keys on it, for *)
(* any threads, commands, rows, lengths and capacities: what a flush waits *)
(* for, what the attention reads when its turn comes, and what the CPU     *)
(* finds when it copies a state.                                           *)
(***************************************************************************)
EXTENDS KVCache, SequenceTheorems, FiniteSetTheorems, WellFoundedInduction, TLAPS

(* The last buffer that was committed is the last pending one: the commit  *)
(* and its record are one step.                                            *)
LastIsLast == last = Len(pending)

(* What a flush waits for is not older than what it found. *)
WaitsForAll == \A t \in Threads : flushing[t] => before[t] <= toWait[t]

(* The types of the queue, for command buffers of a set. *)
QueueOf(S) ==
  /\ pending \in Seq(S)
  /\ last \in 0 .. Len(pending)
  /\ toWait \in [Threads -> 0 .. Len(pending)]
  /\ flushing \in [Threads -> BOOLEAN]
  /\ before \in [Threads -> 0 .. Len(pending)]

QueueInv(S) == QueueOf(S) /\ LastIsLast /\ WaitsForAll

(* The place of a buffer moves forward with the queue. *)
LEMMA SoonerFits ==
  ASSUME NEW n \in Nat \ {0}, NEW place \in 0 .. n
  PROVE  Sooner(place) \in 0 .. n - 1
BY DEF Sooner

LEMMA SoonerMonotone ==
  ASSUME NEW p \in Nat, NEW q \in Nat, p <= q
  PROVE  Sooner(p) <= Sooner(q)
BY DEF Sooner

LEMMA InitQueue == ASSUME NEW S, QueueInit PROVE QueueInv(S)
<1>1. pending \in Seq(S) /\ Len(pending) = 0
  BY DEF QueueInit
<1> QED
  BY <1>1 DEF QueueInit, QueueInv, QueueOf, LastIsLast, WaitsForAll

(* A commit moves the end of the queue and the record of it together. *)
LEMMA CommitQueue ==
  ASSUME NEW S, QueueInv(S), NEW t \in Threads, NEW commands \in Seq(S), Commit(t, commands)
  PROVE  QueueInv(S)'
<1>1. pending' \in Seq(S) /\ Len(pending') = Len(pending) + Len(commands)
  BY DEF Commit, QueueInv, QueueOf
<1>2. Len(pending) \in Nat /\ Len(commands) \in Nat
  BY DEF QueueInv, QueueOf
<1>3. last' = Len(pending')
  <2>1. CASE commands = <<>>
    BY <1>1, <1>2, <2>1 DEF Commit, QueueInv, LastIsLast
  <2>2. CASE commands # <<>>
    BY <1>1, <2>2 DEF Commit
  <2> QED
    BY <2>1, <2>2
<1>4. QueueOf(S)'
  BY <1>1, <1>2, <1>3 DEF Commit, QueueInv, QueueOf
<1>5. WaitsForAll'
  BY DEF Commit, QueueInv, WaitsForAll
<1> QED
  BY <1>3, <1>4, <1>5 DEF QueueInv, LastIsLast

LEMMA FlushBeginQueue ==
  ASSUME NEW S, QueueInv(S), NEW t \in Threads, FlushBegin(t)
  PROVE  QueueInv(S)'
<1>1. Len(pending) \in Nat
  BY DEF QueueInv, QueueOf
<1>2. QueueOf(S)'
  BY <1>1 DEF FlushBegin, QueueInv, QueueOf
<1>3. WaitsForAll'
  BY <1>1 DEF FlushBegin, QueueInv, QueueOf, LastIsLast, WaitsForAll
<1> QED
  BY <1>2, <1>3 DEF FlushBegin, QueueInv, LastIsLast

LEMMA FlushEndQueue ==
  ASSUME NEW S, QueueInv(S), NEW t \in Threads, FlushEnd(t)
  PROVE  QueueInv(S)'
<1>1. QueueOf(S)'
  BY DEF FlushEnd, QueueInv, QueueOf
<1>2. WaitsForAll'
  BY DEF FlushEnd, QueueInv, QueueOf, WaitsForAll
<1> QED
  BY <1>1, <1>2 DEF FlushEnd, QueueInv, LastIsLast

(* The completion of a buffer moves every place, in the same order. *)
LEMMA ExecuteQueue ==
  ASSUME NEW S, QueueInv(S), Execute
  PROVE  QueueInv(S)'
<1>1. /\ Len(pending) \in Nat \ {0}
      /\ pending' \in Seq(S)
      /\ Len(pending') = Len(pending) - 1
  BY DEF Execute, QueueInv, QueueOf
<1>2. last' = Len(pending')
  BY <1>1 DEF Execute, QueueInv, LastIsLast, Sooner
<1>3. \A t \in Threads :
        Sooner(toWait[t]) \in 0 .. Len(pending') /\ Sooner(before[t]) \in 0 .. Len(pending')
  BY <1>1, SoonerFits DEF QueueInv, QueueOf
<1>4. QueueOf(S)'
  BY <1>1, <1>2, <1>3 DEF Execute, QueueInv, QueueOf
<1>5. ASSUME NEW t \in Threads, flushing'[t]
      PROVE  before'[t] <= toWait'[t]
  <2>1. before[t] \in Nat /\ toWait[t] \in Nat /\ before[t] <= toWait[t]
    BY <1>1, <1>5 DEF Execute, QueueInv, QueueOf, WaitsForAll
  <2> QED
    BY <2>1, SoonerMonotone DEF Execute
<1> QED
  BY <1>2, <1>4, <1>5 DEF QueueInv, LastIsLast, WaitsForAll

LEMMA UnchangedQueue == ASSUME NEW S, QueueInv(S), UNCHANGED queueVars PROVE QueueInv(S)'
BY DEF queueVars, QueueInv, QueueOf, LastIsLast, WaitsForAll

LEMMA NextQueue == QueueInv(Commands) /\ [QueueNext]_queueVars => QueueInv(Commands)'
<1> SUFFICES ASSUME QueueInv(Commands), [QueueNext]_queueVars PROVE QueueInv(Commands)'
  OBVIOUS
<1>1. ASSUME NEW t \in Threads, NEW commands \in Seq(Commands), Commit(t, commands)
      PROVE  QueueInv(Commands)'
  BY <1>1, CommitQueue
<1>2. ASSUME NEW t \in Threads, FlushBegin(t)
      PROVE  QueueInv(Commands)'
  BY <1>2, FlushBeginQueue
<1>3. ASSUME NEW t \in Threads, FlushEnd(t)
      PROVE  QueueInv(Commands)'
  BY <1>3, FlushEndQueue
<1>4. CASE Execute
  BY <1>4, ExecuteQueue
<1>5. CASE UNCHANGED queueVars
  BY <1>5, UnchangedQueue
<1> QED
  BY <1>1, <1>2, <1>3, <1>4, <1>5 DEF QueueNext

LEMMA FlushedIsDone ==
  ASSUME NEW S, QueueInv(S), NEW t \in Threads, CanReturn(t)
  PROVE  before[t] = 0
BY DEF QueueInv, QueueOf, WaitsForAll, CanReturn

(* The places that the queue keeps are places of pending command buffers. *)
THEOREM QueueTypeCorrect == QueueSpec => []QueueTypeOK
<1>1. QueueInit => QueueInv(Commands)
  BY InitQueue
<1>2. QueueInv(Commands) => QueueTypeOK
  BY DEF QueueInv, QueueOf, QueueTypeOK
<1> QED
  BY <1>1, <1>2, NextQueue, PTL DEF QueueSpec

(* device.mm, flush: when it may return, nothing is pending that any       *)
(* thread had committed before it began, whatever they commit.             *)
THEOREM FlushWaitsForEverything == QueueSpec => []FlushLeavesNothing
<1>1. QueueInit => QueueInv(Commands)
  BY InitQueue
<1>2. QueueInv(Commands) => FlushLeavesNothing
  BY FlushedIsDone DEF FlushLeavesNothing
<1> QED
  BY <1>1, <1>2, NextQueue, PTL DEF QueueSpec

-----------------------------------------------------------------------------
(* The commands of the attention, and the memory.                          *)

Buffers == 1 .. MaxBuffers
Keys == Nat \X Nat
Memories == [Buffers -> Seq(Keys)]
Texts == Seq(Seq(Keys))
Places == [buffer : 0 .. MaxBuffers, dim : Nat]
States == [cache : Places, past : Texts]

(* The commands of the attention. *)
Writes == [op : {"write"}, to : Buffers, dim : Nat, at : Nat, new : Texts]
Moves == [op : {"move"}, from : Buffers, fromDim : Nat, rows : Seq(Nat), skip : Nat, keep : Nat,
          new : Texts, to : Buffers, dim : Nat]
Sdpas == [op : {"sdpa"}, from : Buffers, dim : Nat, length : Nat, should : Texts]
OtherWork == [op |-> "other"]
LayerCommands == Writes \cup Moves \cup Sdpas \cup {OtherWork}

WritesTo(c) == IF c.op \in {"write", "move"} THEN {c.to} ELSE {}

(* f[k] is the memory after the first k of the commands p, as far as the   *)
(* buffers of a set go.                                                    *)
Follows(f, m, p, used) ==
  /\ f \in [0 .. Len(p) -> Memories]
  /\ f[0] = m
  /\ \A k \in 1 .. Len(p) : \A b \in used \cap Buffers : f[k][b] = Effect(f[k - 1], p[k])[b]

(* Every attention reads, when its turn comes, what it should.             *)
ReadsRight(f, p) ==
  \A k \in 1 .. Len(p) : p[k].op = "sdpa" =>
    \A r \in DOMAIN p[k].should :
      Row(f[k - 1][p[k].from], p[k].dim, r, p[k].length) = p[k].should[r]

(* A buffer with room for dim keys in each row begins its rows with these. *)
Flat(dim, r, j) == (r - 1) * dim + j
HasRows(contents, n, dim) == Len(contents) = n * dim

HoldsKeys(contents, dim, keys) ==
  /\ HasRows(contents, Len(keys), dim)
  /\ \A r \in DOMAIN keys :
       /\ Len(keys[r]) <= dim
       /\ \A j \in 1 .. Len(keys[r]) : contents[Flat(dim, r, j)] = keys[r][j]

(* What is left of the past of each row in this dimension. *)
LastKeys(row, n) == SubSeq(row, Len(row) - n + 1, Len(row))
Least(a, b) == IF a < b THEN a ELSE b
Held(dim, keys) == [r \in DOMAIN keys |-> LastKeys(keys[r], Least(dim, Len(keys[r])))]

(* The cache of rows of one length: as long as the past, or longer;        *)
(* with a sliding window as long as the past up to the window.             *)
PlaceFits(place, keys) ==
  /\ keys # <<>> /\ \A r \in DOMAIN keys : Len(keys[r]) = Len(keys[1])
  /\ place.buffer = 0 <=> Len(keys[1]) = 0
  /\ place.buffer = 0 => place = Empty
  /\ window = 0 => place.dim >= Len(keys[1])
  /\ window > 0 => place.dim = Least(window, Len(keys[1]))

Shape ==
  /\ window \in Nat /\ memory \in Memories
  /\ cache \in Places /\ past \in Texts /\ PlaceFits(cache, past)
  /\ fed \in BOOLEAN /\ (fed => cache.buffer # 0)
  /\ copy # NoCopy <=> flushing[Replica]

(* The state of a static prompt: nobody writes it any more.                *)
PromptStays ==
  saved # NoState =>
    /\ saved \in States /\ saved.cache.buffer # 0 /\ PlaceFits(saved.cache, saved.past)
    /\ saved.cache.buffer # cache.buffer
    /\ \A k \in 1 .. Len(pending) : saved.cache.buffer \notin WritesTo(pending[k])
    /\ HoldsKeys(memory[saved.cache.buffer], saved.cache.dim, Held(saved.cache.dim, saved.past))

(* While the CPU waits to copy a state, the replica issues nothing.        *)
CopyWaits ==
  copy # NoCopy =>
    /\ copy.repeats \in Nat \ {0}
    /\ \/ cache.buffer # 0 /\ copy.source = [cache |-> cache, past |-> past]
       \/ saved # NoState /\ copy.source = saved
    /\ \A k \in before[Replica] + 1 .. Len(pending) : pending[k] = OtherWork
    /\ FreeBuffers(Start) # {}

Used == InUse(pending, cache, saved)

MemoryFollows(f) ==
  /\ Follows(f, memory, pending, Used)
  /\ ReadsRight(f, pending)
  /\ cache.buffer # 0 =>
       HoldsKeys(f[Len(pending)][cache.buffer], cache.dim, Held(cache.dim, past))

IInv ==
  QueueInv(LayerCommands) /\ Shape /\ PromptStays /\ CopyWaits /\ \E f : MemoryFollows(f)

-----------------------------------------------------------------------------
(* The contents of a buffer: row after row, dim places each.               *)

LEMMA RowsFlat ==
  ASSUME NEW n \in Nat \ {0}, NEW i \in Nat \ {0}, NEW k \in 1 .. n
  PROVE  /\ Flat(n, i, k) \in Nat \ {0}
         /\ ((Flat(n, i, k) - 1) \div n) + 1 = i
         /\ ((Flat(n, i, k) - 1) % n) + 1 = k
<1>1. PICK q \in Nat : q = i - 1
  OBVIOUS
<1>2. PICK j \in 0 .. n - 1 : j = k - 1
  OBVIOUS
<1>3. q * n \in Nat
  OBVIOUS
<1>4. (q * n + j) \div n = q /\ (q * n + j) % n = j
  OBVIOUS
<1>5. Flat(n, i, k) \in Nat \ {0} /\ Flat(n, i, k) - 1 = q * n + j
  BY <1>1, <1>2, <1>3 DEF Flat
<1> QED
  BY <1>1, <1>2, <1>4, <1>5

LEMMA RowsFit ==
  ASSUME NEW n \in Nat \ {0}, NEW l \in Nat, NEW i \in 1 .. l, NEW k \in 1 .. n
  PROVE  (i - 1) * n + k \in 1 .. l * n
<1>1. PICK d \in Nat : l = i + d
  <2>1. l - i \in Nat /\ l = i + (l - i)
    OBVIOUS
  <2> QED
    BY <2>1
<1>2. PICK q \in Nat : i = q + 1
  <2>1. i - 1 \in Nat /\ i = (i - 1) + 1
    OBVIOUS
  <2> QED
    BY <2>1
<1>3. l * n = q * n + n + d * n
  BY <1>1, <1>2
<1>4. q * n \in Nat /\ d * n \in Nat
  OBVIOUS
<1> QED
  BY <1>2, <1>3, <1>4

(* Put changes the places of the new keys only.                            *)
LEMMA PutType ==
  ASSUME NEW contents \in Seq(Keys), NEW dim \in Nat, NEW at \in Nat, NEW keys \in Texts
  PROVE  /\ Put(contents, dim, at, keys) \in Seq(Keys)
         /\ Len(Put(contents, dim, at, keys)) = Len(contents)
<1> DEFINE r(i) == (i - 1) \div dim + 1
           k(i) == ((i - 1) % dim) + 1 - at
           item(i) == IF r(i) \in DOMAIN keys /\ k(i) \in DOMAIN keys[r(i)]
                        THEN keys[r(i)][k(i)] ELSE contents[i]
<1>1. Put(contents, dim, at, keys) = [i \in 1 .. Len(contents) |-> item(i)]
  BY DEF Put
<1>2. ASSUME NEW i \in 1 .. Len(contents) PROVE item(i) \in Keys
  <2>1. CASE r(i) \in DOMAIN keys /\ k(i) \in DOMAIN keys[r(i)]
    <3>1. keys[r(i)] \in Seq(Keys)
      BY <2>1 DEF Texts
    <3>2. keys[r(i)][k(i)] \in Keys
      BY <2>1, <3>1
    <3> QED
      BY <2>1, <3>2
  <2>2. CASE ~(r(i) \in DOMAIN keys /\ k(i) \in DOMAIN keys[r(i)])
    BY <2>2
  <2> QED
    BY <2>1, <2>2
<1> HIDE DEF item
<1> QED
  BY <1>1, <1>2

LEMMA PutPlaces ==
  ASSUME NEW contents \in Seq(Keys), NEW dim \in Nat, NEW at \in Nat, NEW keys \in Texts,
         NEW n \in Nat, HasRows(contents, n, dim), NEW r \in 1 .. n, NEW j \in 1 .. dim
  PROVE  Put(contents, dim, at, keys)[Flat(dim, r, j)]
           = IF r \in DOMAIN keys /\ j - at \in DOMAIN keys[r] THEN keys[r][j - at]
             ELSE contents[Flat(dim, r, j)]
<1>0. dim \in Nat \ {0} /\ r \in Nat \ {0}
  OBVIOUS
<1>1. PICK i \in Nat : i = Flat(dim, r, j)
  BY <1>0, RowsFlat
<1>2. i \in DOMAIN contents
  BY <1>0, <1>1, RowsFit DEF Flat, HasRows
<1>3. (i - 1) \div dim + 1 = r /\ ((i - 1) % dim) + 1 = j
  BY <1>0, <1>1, RowsFlat
<1>4. Put(contents, dim, at, keys)[i]
        = IF r \in DOMAIN keys /\ j - at \in DOMAIN keys[r] THEN keys[r][j - at] ELSE contents[i]
  <2>1. PICK q, k : q = (i - 1) \div dim + 1 /\ k = ((i - 1) % dim) + 1 - at
    OBVIOUS
  <2>2. Put(contents, dim, at, keys)[i]
          = IF q \in DOMAIN keys /\ k \in DOMAIN keys[q] THEN keys[q][k] ELSE contents[i]
    BY ONLY <1>2, <2>1 DEF Put
  <2>3. q = r /\ k = j - at
    BY <1>3, <2>1
  <2> QED
    BY ONLY <2>2, <2>3
<1> QED
  BY <1>1, <1>4

LEMMA GarbageIsKey == Garbage \in Keys
BY DEF Garbage, Keys

LEMMA RowType ==
  ASSUME NEW contents \in Seq(Keys), NEW dim, NEW r, NEW n \in Nat
  PROVE  Row(contents, dim, r, n) \in Seq(Keys) /\ Len(Row(contents, dim, r, n)) = n
<1> DEFINE at(i) == (r - 1) * dim + i
           item(i) == IF at(i) \in DOMAIN contents THEN contents[at(i)] ELSE Garbage
<1>1. Row(contents, dim, r, n) = [i \in 1 .. n |-> item(i)]
  BY DEF Row
<1>2. ASSUME NEW i \in 1 .. n PROVE item(i) \in Keys
  <2> HIDE DEF at
  <2> QED
    BY GarbageIsKey
<1> HIDE DEF item
<1> QED
  BY <1>1, <1>2

LEMMA RowPlaces ==
  ASSUME NEW contents \in Seq(Keys), NEW dim \in Nat, NEW n \in Nat, HasRows(contents, n, dim),
         NEW r \in 1 .. n, NEW k \in Nat, NEW j \in 1 .. k, j <= dim
  PROVE  Row(contents, dim, r, k)[j] = contents[Flat(dim, r, j)]
<1>1. (r - 1) * dim + j \in DOMAIN contents
  <2>1. dim \in Nat \ {0} /\ j \in 1 .. dim
    OBVIOUS
  <2>2. (r - 1) * dim + j \in 1 .. n * dim
    BY <2>1, RowsFit
  <2> QED
    BY <2>2 DEF HasRows
<1> QED
  BY <1>1 DEF Row, Flat

-----------------------------------------------------------------------------
(* What a command does.                                                    *)

LEMMA MovedType ==
  ASSUME NEW m \in Memories, NEW c \in Moves
  PROVE  Moved(m, c) \in Texts /\ DOMAIN Moved(m, c) = DOMAIN c.new
<1>1. c.from \in Buffers /\ c.skip \in Nat /\ c.keep \in Nat /\ c.new \in Texts
  BY DEF Moves
<1>2. m[c.from] \in Seq(Keys) /\ c.skip + c.keep \in Nat
  BY <1>1 DEF Memories
<1> DEFINE read(r) == Row(m[c.from], c.fromDim, c.rows[r], c.skip + c.keep)
           item(r) == SubSeq(read(r), c.skip + 1, c.skip + c.keep) \o c.new[r]
<1>3. Moved(m, c) = [r \in 1 .. Len(c.new) |-> item(r)]
  BY <1>1 DEF Moved, Texts
<1>4. ASSUME NEW r \in 1 .. Len(c.new) PROVE item(r) \in Seq(Keys)
  <2>1. read(r) \in Seq(Keys) /\ Len(read(r)) = c.skip + c.keep
    BY <1>2, RowType
  <2>2. c.new[r] \in Seq(Keys)
    BY <1>1 DEF Texts
  <2> HIDE DEF read
  <2>3. SubSeq(read(r), c.skip + 1, c.skip + c.keep) \in Seq(Keys)
    BY <1>1, <2>1
  <2> QED
    BY <2>2, <2>3
<1> HIDE DEF item
<1>5. Moved(m, c) \in Texts
  BY <1>1, <1>3, <1>4 DEF Texts
<1> QED
  BY <1>1, <1>3, <1>5 DEF Texts

LEMMA KindsOfCommands ==
  ASSUME NEW c \in LayerCommands
  PROVE  \/ c \in Writes /\ c.op = "write"
         \/ c \in Moves /\ c.op = "move"
         \/ c \in Sdpas /\ c.op = "sdpa"
         \/ c = OtherWork /\ c.op = "other"
BY DEF LayerCommands, Writes, Moves, Sdpas, OtherWork

LEMMA WriteEffect ==
  ASSUME NEW m \in Memories, NEW c \in Writes
  PROVE  /\ Effect(m, c) = [m EXCEPT ![c.to] = Put(m[c.to], c.dim, c.at, c.new)]
         /\ Effect(m, c) \in Memories /\ WritesTo(c) = {c.to} /\ BuffersOf(c) = {c.to}
         /\ c.to \in Buffers
<1>1. c.op = "write" /\ c.to \in Buffers /\ c.dim \in Nat /\ c.at \in Nat /\ c.new \in Texts
  BY DEF Writes
<1>2. Effect(m, c) = [m EXCEPT ![c.to] = Put(m[c.to], c.dim, c.at, c.new)]
  BY <1>1 DEF Effect
<1>3. m[c.to] \in Seq(Keys)
  BY <1>1 DEF Memories
<1>4. Put(m[c.to], c.dim, c.at, c.new) \in Seq(Keys)
  BY <1>1, <1>3, PutType
<1> QED
  BY <1>1, <1>2, <1>4 DEF Memories, WritesTo, BuffersOf

LEMMA MoveEffect ==
  ASSUME NEW m \in Memories, NEW c \in Moves
  PROVE  /\ Effect(m, c) = [m EXCEPT ![c.to] = Put(m[c.to], c.dim, 0, Moved(m, c))]
         /\ Effect(m, c) \in Memories /\ WritesTo(c) = {c.to} /\ BuffersOf(c) = {c.from, c.to}
         /\ c.to \in Buffers /\ c.from \in Buffers
<1>1. c.op = "move" /\ c.to \in Buffers /\ c.from \in Buffers /\ c.dim \in Nat
  BY DEF Moves
<1>2. Effect(m, c) = [m EXCEPT ![c.to] = Put(m[c.to], c.dim, 0, Moved(m, c))]
  BY <1>1 DEF Effect
<1>3. m[c.to] \in Seq(Keys)
  BY <1>1 DEF Memories
<1>4. Put(m[c.to], c.dim, 0, Moved(m, c)) \in Seq(Keys)
  BY <1>1, <1>3, PutType, MovedType
<1> QED
  BY <1>1, <1>2, <1>4 DEF Memories, WritesTo, BuffersOf

LEMMA NoEffect ==
  ASSUME NEW m, NEW c \in LayerCommands, c.op \notin {"write", "move"}
  PROVE  Effect(m, c) = m /\ WritesTo(c) = {}
<1>1. c.op \in {"sdpa", "other"}
  BY KindsOfCommands
<1> QED
  BY <1>1 DEF Effect, WritesTo

LEMMA EffectType ==
  ASSUME NEW m \in Memories, NEW c \in LayerCommands
  PROVE  Effect(m, c) \in Memories
BY KindsOfCommands, WriteEffect, MoveEffect, NoEffect

(* A command leaves the other buffers alone ... *)
LEMMA EffectElsewhere ==
  ASSUME NEW m \in Memories, NEW c \in LayerCommands, NEW b \in Buffers, b \notin WritesTo(c)
  PROVE  Effect(m, c)[b] = m[b]
<1> DEFINE Only(to, x) == [m EXCEPT ![to] = x]
<1>0. \A to, x : b # to => Only(to, x)[b] = m[b]
  BY DEF Memories
<1>1. CASE c \in Writes
  <2>1. b # c.to /\ Effect(m, c) = Only(c.to, Put(m[c.to], c.dim, c.at, c.new))
    BY <1>1, WriteEffect
  <2> HIDE DEF Only
  <2> QED
    BY <1>0, <2>1
<1>2. CASE c \in Moves
  <2>1. b # c.to /\ Effect(m, c) = Only(c.to, Put(m[c.to], c.dim, 0, Moved(m, c)))
    BY <1>2, MoveEffect
  <2> HIDE DEF Only
  <2> QED
    BY <1>0, <2>1
<1>3. CASE c.op \notin {"write", "move"}
  BY <1>3, NoEffect
<1> QED
  BY <1>1, <1>2, <1>3, KindsOfCommands

LEMMA WritesAreUses ==
  ASSUME NEW c \in LayerCommands
  PROVE  WritesTo(c) \subseteq BuffersOf(c) /\ WritesTo(c) \subseteq Buffers
<1>1. CASE c.op \in {"write", "move"}
  <2>1. c.to \in Buffers
    BY <1>1, KindsOfCommands DEF Writes, Moves
  <2> QED
    BY <1>1, <2>1 DEF WritesTo, BuffersOf
<1>2. CASE c.op \notin {"write", "move"}
  BY <1>2, NoEffect
<1> QED
  BY <1>1, <1>2

(* ... and what it does depends on its own. *)
LEMMA EffectLocal ==
  ASSUME NEW m \in Memories, NEW w \in Memories, NEW c \in LayerCommands,
         \A b \in BuffersOf(c) \cap Buffers : m[b] = w[b],
         NEW b \in Buffers, m[b] = w[b]
  PROVE  Effect(m, c)[b] = Effect(w, c)[b]
<1>1. CASE b \notin WritesTo(c)
  BY <1>1, EffectElsewhere
<1>2. CASE b \in WritesTo(c) /\ c \in Writes
  <2>1. b = c.to
    BY <1>2, WriteEffect
  <2>2. Effect(m, c)[b] = Put(m[b], c.dim, c.at, c.new)
    BY <1>2, <2>1, WriteEffect DEF Memories
  <2>3. Effect(w, c)[b] = Put(w[b], c.dim, c.at, c.new)
    BY <1>2, <2>1, WriteEffect DEF Memories
  <2> QED
    BY <2>2, <2>3
<1>3. CASE b \in WritesTo(c) /\ c \in Moves
  <2>1. b = c.to /\ m[c.from] = w[c.from]
    BY <1>3, MoveEffect
  <2>2. Moved(m, c) = Moved(w, c)
    BY <2>1 DEF Moved
  <2>3. Effect(m, c)[b] = Put(m[b], c.dim, 0, Moved(m, c))
    BY <1>3, <2>1, MoveEffect DEF Memories
  <2>4. Effect(w, c)[b] = Put(w[b], c.dim, 0, Moved(w, c))
    BY <1>3, <2>1, MoveEffect DEF Memories
  <2> QED
    BY <2>2, <2>3, <2>4
<1> QED
  BY <1>1, <1>2, <1>3, KindsOfCommands, NoEffect

-----------------------------------------------------------------------------
(* The memory after each command.                                          *)

LEMMA FollowsTypes ==
  ASSUME NEW p \in Seq(LayerCommands), NEW f, NEW m, NEW used, Follows(f, m, p, used)
  PROVE  /\ Len(p) \in Nat /\ \A k \in 1 .. Len(p) : p[k] \in LayerCommands
         /\ \A k \in 0 .. Len(p) : f[k] \in Memories
         /\ \A k \in 1 .. Len(p) : k - 1 \in 0 .. Len(p)
         /\ m \in Memories
<1>1. Len(p) \in Nat /\ \A k \in 1 .. Len(p) : p[k] \in LayerCommands
  OBVIOUS
<1>2. \A k \in 0 .. Len(p) : f[k] \in Memories
  BY DEF Follows
<1>3. f[0] \in Memories
  BY <1>1, <1>2
<1> QED
  BY <1>1, <1>2, <1>3 DEF Follows

LEMMA ReadsAgree ==
  ASSUME NEW p \in Seq(LayerCommands), NEW f, NEW g, ReadsRight(f, p),
         \A k \in 1 .. Len(p) : \A b \in BuffersOf(p[k]) \cap Buffers : g[k - 1][b] = f[k - 1][b]
  PROVE  ReadsRight(g, p)
<1> SUFFICES ASSUME NEW k \in 1 .. Len(p), p[k].op = "sdpa", NEW r \in DOMAIN p[k].should
             PROVE  Row(g[k - 1][p[k].from], p[k].dim, r, p[k].length) = p[k].should[r]
  BY DEF ReadsRight
<1>1. p[k] \in LayerCommands
  OBVIOUS
<1>2. p[k].from \in BuffersOf(p[k]) \cap Buffers
  BY <1>1, KindsOfCommands DEF Sdpas, BuffersOf
<1>3. g[k - 1][p[k].from] = f[k - 1][p[k].from]
  BY <1>2
<1> QED
  BY <1>3 DEF ReadsRight

(* Buffers that nobody uses any more may be freed.                         *)
Keeps(g, f, w, p, fewer) ==
  /\ Follows(g, w, p, fewer) /\ ReadsRight(g, p)
  /\ \A b \in fewer \cap Buffers : g[Len(p)][b] = f[Len(p)][b]

LEMMA FollowsFewer ==
  ASSUME NEW p \in Seq(LayerCommands), NEW f, NEW m, NEW used, Follows(f, m, p, used),
         ReadsRight(f, p),
         NEW fewer, fewer \cap Buffers \subseteq used,
         \A k \in 1 .. Len(p) : BuffersOf(p[k]) \subseteq fewer,
         NEW w \in Memories, \A b \in fewer \cap Buffers : w[b] = m[b]
  PROVE  \E g : Keeps(g, f, w, p, fewer)
<1> DEFINE g == [k \in 0 .. Len(p) |-> IF k = 0 THEN w ELSE f[k]]
<1>1. /\ Len(p) \in Nat /\ \A k \in 1 .. Len(p) : p[k] \in LayerCommands /\ k - 1 \in 0 .. Len(p)
      /\ \A k \in 0 .. Len(p) : f[k] \in Memories
  BY FollowsTypes
<1>2. g \in [0 .. Len(p) -> Memories] /\ g[0] = w
  BY <1>1
<1>3. \A k \in 0 .. Len(p) : g[k] \in Memories
  BY <1>2
<1>4. f[0] = m
  BY DEF Follows
<1>5. \A k \in 0 .. Len(p) : \A b \in fewer \cap Buffers : g[k][b] = f[k][b]
  BY <1>4
<1>6. \A k \in 1 .. Len(p) : g[k] = f[k]
  OBVIOUS
<1> HIDE DEF g
<1>7. ASSUME NEW k \in 1 .. Len(p), NEW b \in fewer \cap Buffers
      PROVE  g[k][b] = Effect(g[k - 1], p[k])[b]
  <2>1. f[k][b] = Effect(f[k - 1], p[k])[b]
    BY DEF Follows
  <2>2. k - 1 \in 0 .. Len(p) /\ p[k] \in LayerCommands
    BY <1>1
  <2>3. g[k - 1] \in Memories /\ f[k - 1] \in Memories
    BY <1>1, <1>3, <2>2
  <2>4. \A a \in BuffersOf(p[k]) \cap Buffers : g[k - 1][a] = f[k - 1][a]
    BY <1>5, <2>2
  <2>5. g[k - 1][b] = f[k - 1][b]
    BY <1>5, <2>2
  <2>6. Effect(g[k - 1], p[k])[b] = Effect(f[k - 1], p[k])[b]
    BY <2>2, <2>3, <2>4, <2>5, EffectLocal
  <2> QED
    BY <1>6, <2>1, <2>6
<1>8. Follows(g, w, p, fewer)
  BY <1>2, <1>7 DEF Follows
<1>9. ReadsRight(g, p)
  <2>1. \A k \in 1 .. Len(p) : \A b \in BuffersOf(p[k]) \cap Buffers : g[k - 1][b] = f[k - 1][b]
    BY <1>1, <1>5
  <2> QED
    BY <2>1, ReadsAgree
<1>10. Len(p) \in 0 .. Len(p)
  BY <1>1
<1> QED
  BY <1>5, <1>8, <1>9, <1>10 DEF Keeps

(* A buffer that nobody uses may be given any contents.                    *)
Refills(g, f, m, p, more, b, x) ==
  /\ Follows(g, [m EXCEPT ![b] = x], p, more) /\ ReadsRight(g, p)
  /\ g[Len(p)] = [f[Len(p)] EXCEPT ![b] = x]

LEMMA FollowsNew ==
  ASSUME NEW p \in Seq(LayerCommands), NEW f, NEW m, NEW used, Follows(f, m, p, used),
         ReadsRight(f, p),
         \A k \in 1 .. Len(p) : BuffersOf(p[k]) \subseteq used,
         NEW b \in Buffers, b \notin used, NEW x \in Seq(Keys),
         NEW more, more = used \cup {b}
  PROVE  \E g : Refills(g, f, m, p, more, b, x)
<1> DEFINE With(v) == [v EXCEPT ![b] = x]
           g == [k \in 0 .. Len(p) |-> With(f[k])]
<1>1. /\ Len(p) \in Nat /\ \A k \in 1 .. Len(p) : p[k] \in LayerCommands /\ k - 1 \in 0 .. Len(p)
      /\ \A k \in 0 .. Len(p) : f[k] \in Memories
  BY FollowsTypes
<1>2. \A v \in Memories : /\ With(v) \in Memories /\ With(v)[b] = x
                          /\ \A a \in Buffers : a # b => With(v)[a] = v[a]
  BY DEF Memories
<1> HIDE DEF With
<1>3. \A k \in 0 .. Len(p) : g[k] = With(f[k])
  OBVIOUS
<1>4. g \in [0 .. Len(p) -> Memories] /\ g[0] = With(m)
  BY <1>1, <1>2 DEF Follows
<1> HIDE DEF g
<1>5. ASSUME NEW k \in 1 .. Len(p), NEW a \in (used \cup {b}) \cap Buffers
      PROVE  g[k][a] = Effect(g[k - 1], p[k])[a]
  <2>1. k - 1 \in 0 .. Len(p) /\ k \in 0 .. Len(p) /\ p[k] \in LayerCommands
    BY <1>1
  <2>2. g[k - 1] \in Memories /\ f[k - 1] \in Memories /\ f[k] \in Memories
    BY <1>1, <1>2, <1>3, <2>1
  <2>3. CASE a = b
    <3>1. b \notin WritesTo(p[k])
      BY <2>1, WritesAreUses
    <3>2. Effect(g[k - 1], p[k])[b] = g[k - 1][b]
      BY <2>1, <2>2, <3>1, EffectElsewhere
    <3> QED
      BY <1>1, <1>2, <1>3, <2>1, <2>3, <3>2
  <2>4. CASE a # b
    <3>1. a \in used \cap Buffers
      BY <2>4
    <3>2. f[k][a] = Effect(f[k - 1], p[k])[a]
      BY <3>1 DEF Follows
    <3>3. g[k - 1][a] = f[k - 1][a] /\ g[k][a] = f[k][a]
      BY <1>1, <1>2, <1>3, <2>1, <2>4
    <3>4. \A d \in BuffersOf(p[k]) \cap Buffers : g[k - 1][d] = f[k - 1][d]
      BY <1>1, <1>2, <1>3, <2>1
    <3>5. Effect(g[k - 1], p[k])[a] = Effect(f[k - 1], p[k])[a]
      BY <2>1, <2>2, <3>3, <3>4, EffectLocal
    <3> QED
      BY <3>2, <3>3, <3>5
  <2> QED
    BY <2>3, <2>4
<1>6. Follows(g, With(m), p, used \cup {b})
  BY <1>4, <1>5 DEF Follows
<1>7. ReadsRight(g, p)
  <2>1. ASSUME NEW k \in 1 .. Len(p), NEW d \in BuffersOf(p[k]) \cap Buffers
        PROVE  g[k - 1][d] = f[k - 1][d]
    BY <1>1, <1>2, <1>3
  <2> QED
    BY <2>1, ReadsAgree
<1>8. g[Len(p)] = With(f[Len(p)])
  BY <1>1, <1>3
<1> QED
  BY <1>6, <1>7, <1>8 DEF With, Refills

(* One more command.                                                       *)
LEMMA FollowsMore ==
  ASSUME NEW p \in Seq(LayerCommands), NEW f, NEW m, NEW used, Follows(f, m, p, used),
         ReadsRight(f, p),
         NEW c \in LayerCommands,
         c.op = "sdpa" => \A r \in DOMAIN c.should :
                            Row(f[Len(p)][c.from], c.dim, r, c.length) = c.should[r]
  PROVE  \E g : /\ Follows(g, m, Append(p, c), used) /\ ReadsRight(g, Append(p, c))
                /\ g[Len(p) + 1] = Effect(f[Len(p)], c)
<1> DEFINE n == Len(p)
           q == Append(p, c)
           g == [k \in 0 .. n + 1 |-> IF k = n + 1 THEN Effect(f[n], c) ELSE f[k]]
<1>1. /\ n \in Nat /\ \A k \in 1 .. n : p[k] \in LayerCommands /\ k - 1 \in 0 .. n
      /\ \A k \in 0 .. n : f[k] \in Memories
  BY FollowsTypes
<1>2. Len(q) = n + 1 /\ q[n + 1] = c /\ \A k \in 1 .. n : q[k] = p[k]
  OBVIOUS
<1>3. Effect(f[n], c) \in Memories
  BY <1>1, EffectType
<1>4. g \in [0 .. n + 1 -> Memories]
  BY <1>1, <1>3
<1>5. g[n + 1] = Effect(f[n], c) /\ \A k \in 0 .. n : g[k] = f[k]
  BY <1>1
<1> HIDE DEF g, n, q
<1>6. ASSUME NEW k \in 1 .. n + 1, NEW b \in used \cap Buffers
      PROVE  g[k][b] = Effect(g[k - 1], q[k])[b]
  <2>1. CASE k = n + 1
    BY <1>1, <1>2, <1>5, <2>1
  <2>2. CASE k # n + 1
    <3>1. k \in 1 .. n /\ k \in 0 .. n /\ k - 1 \in 0 .. n
      BY <1>1, <2>2
    <3>2. f[k][b] = Effect(f[k - 1], p[k])[b]
      BY <3>1 DEF Follows, n
    <3> QED
      BY <1>2, <1>5, <3>1, <3>2
  <2> QED
    BY <2>1, <2>2
<1>7. Follows(g, m, q, used)
  <2>1. g[0] = m
    BY <1>1, <1>5 DEF Follows
  <2> QED
    BY <1>2, <1>4, <1>6, <2>1 DEF Follows
<1>8. ASSUME NEW k \in 1 .. n + 1, q[k].op = "sdpa", NEW r \in DOMAIN q[k].should
      PROVE  Row(g[k - 1][q[k].from], q[k].dim, r, q[k].length) = q[k].should[r]
  <2>1. CASE k = n + 1
    <3>1. g[k - 1] = f[n] /\ q[k] = c
      BY <1>1, <1>2, <1>5, <2>1
    <3> QED
      BY <1>8, <3>1 DEF n
  <2>2. CASE k # n + 1
    <3>1. k \in 1 .. n /\ k - 1 \in 0 .. n
      BY <1>1, <2>2
    <3>2. g[k - 1] = f[k - 1] /\ q[k] = p[k]
      BY <1>2, <1>5, <3>1
    <3> QED
      BY <1>8, <3>1, <3>2 DEF ReadsRight, n
  <2> QED
    BY <2>1, <2>2
<1>9. ReadsRight(g, q)
  BY <1>2, <1>8 DEF ReadsRight
<1> QED
  BY <1>5, <1>7, <1>9 DEF n, q

(* The first command has run.                                              *)
KeepsRest(g, f, w, p, fewer) ==
  /\ Follows(g, w, Tail(p), fewer) /\ ReadsRight(g, Tail(p))
  /\ \A b \in fewer \cap Buffers : g[Len(Tail(p))][b] = f[Len(p)][b]

LEMMA FollowsLess ==
  ASSUME NEW p \in Seq(LayerCommands), p # <<>>, NEW f, NEW m, NEW used, Follows(f, m, p, used),
         ReadsRight(f, p),
         NEW fewer, fewer \cap Buffers \subseteq used,
         \A k \in 1 .. Len(Tail(p)) : BuffersOf(Tail(p)[k]) \subseteq fewer,
         NEW w \in Memories, \A b \in fewer \cap Buffers : w[b] = Effect(m, Head(p))[b]
  PROVE  \E g : KeepsRest(g, f, w, p, fewer)
<1> DEFINE n == Len(p)
           q == Tail(p)
           h == [k \in 0 .. n - 1 |-> f[k + 1]]
<1>1. /\ n \in Nat /\ \A k \in 1 .. n : p[k] \in LayerCommands /\ k - 1 \in 0 .. n
      /\ \A k \in 0 .. n : f[k] \in Memories
  BY FollowsTypes
<1>2. /\ n > 0 /\ q \in Seq(LayerCommands) /\ Len(q) = n - 1
      /\ \A k \in 1 .. n - 1 : q[k] = p[k + 1]
      /\ Head(p) = p[1]
  OBVIOUS
<1>3. \A k \in 0 .. n - 1 : h[k] = f[k + 1] /\ k + 1 \in 1 .. n
  BY <1>1
<1>4. h \in [0 .. n - 1 -> Memories]
  BY <1>1, <1>3
<1> HIDE DEF h, q, n
<1>5. Follows(h, f[1], q, used)
  <2>1. h[0] = f[1]
    BY <1>1, <1>2, <1>3
  <2>2. ASSUME NEW k \in 1 .. n - 1, NEW b \in used \cap Buffers
        PROVE  h[k][b] = Effect(h[k - 1], q[k])[b]
    <3>1. k + 1 \in 1 .. n /\ k \in 0 .. n - 1 /\ k - 1 \in 0 .. n - 1 /\ (k - 1) + 1 = k
          /\ (k + 1) - 1 = k
      BY <1>1
    <3>2. f[k + 1][b] = Effect(f[(k + 1) - 1], p[k + 1])[b]
      BY <3>1 DEF Follows, n
    <3> QED
      BY <1>2, <1>3, <3>1, <3>2
  <2> QED
    BY <1>2, <1>4, <2>1, <2>2 DEF Follows
<1>6. ReadsRight(h, q)
  <2> SUFFICES ASSUME NEW k \in 1 .. n - 1, q[k].op = "sdpa", NEW r \in DOMAIN q[k].should
               PROVE  Row(h[k - 1][q[k].from], q[k].dim, r, q[k].length) = q[k].should[r]
    BY <1>2 DEF ReadsRight
  <2>1. k + 1 \in 1 .. n /\ k - 1 \in 0 .. n - 1 /\ (k - 1) + 1 = k /\ (k + 1) - 1 = k
    BY <1>1
  <2>2. h[k - 1] = f[(k + 1) - 1] /\ q[k] = p[k + 1]
    BY <1>2, <1>3, <2>1
  <2> QED
    BY <2>1, <2>2 DEF ReadsRight, n
<1>7. \A b \in fewer \cap Buffers : w[b] = f[1][b]
  <2>1. 1 \in 1 .. n /\ 1 - 1 = 0
    BY <1>1, <1>2
  <2>2. \A b \in used \cap Buffers : f[1][b] = Effect(f[0], p[1])[b]
    BY <2>1 DEF Follows, n
  <2>3. f[0] = m
    BY DEF Follows
  <2> QED
    BY <1>2, <2>2, <2>3
<1>8. PICK g : Keeps(g, h, w, q, fewer)
  <2>1. \A k \in 1 .. Len(q) : BuffersOf(q[k]) \subseteq fewer
    BY DEF q
  <2>2. PICK v : v = f[1]
    OBVIOUS
  <2>3. q \in Seq(LayerCommands) /\ Follows(h, v, q, used) /\ \A b \in fewer \cap Buffers : w[b] = v[b]
    BY <1>2, <1>5, <1>7, <2>2
  <2>4. fewer \cap Buffers \subseteq used /\ w \in Memories
    OBVIOUS
  <2> QED
    BY ONLY <1>6, <2>1, <2>3, <2>4, FollowsFewer
<1>9. h[Len(q)] = f[n]
  BY <1>1, <1>2, <1>3
<1> QED
  BY <1>8, <1>9 DEF q, n, Keeps, KeepsRest

(* What nobody writes stays as it is.                                      *)
LEMMA LeastNumber == \A T \in SUBSET Nat : T # {} => \E x \in T : \A y \in T : x <= y
<1> SUFFICES ASSUME NEW T \in SUBSET Nat, T # {} PROVE \E x \in T : \A y \in T : x <= y
  OBVIOUS
<1> DEFINE R == OpToRel(<, Nat)
<1>1. \A x, y \in Nat : x < y => <<x, y>> \in R
  BY DEF OpToRel
<1>2. IsWellFoundedOn(R, Nat)
  BY NatLessThanWellFounded
<1> HIDE DEF R
<1>3. PICK x \in T : \A y \in T : <<y, x>> \notin R
  BY <1>2, WFMin
<1>4. ASSUME NEW y \in T PROVE x <= y
  <2>1. x \in Nat /\ y \in Nat
    OBVIOUS
  <2>2. ~(y < x)
    BY <1>1, <1>3, <2>1
  <2> QED
    BY <2>1, <2>2
<1> QED
  BY <1>4

(* A set that has 0 and is closed under the successor up to n has n.       *)
LEMMA Induction ==
  ASSUME NEW n \in Nat, NEW S, 0 \in S, \A m \in 0 .. n - 1 : m \in S => m + 1 \in S
  PROVE  n \in S
<1> DEFINE T == {m \in 0 .. n : m \notin S}
<1> SUFFICES ASSUME T # {} PROVE FALSE
  OBVIOUS
<1>1. T \in SUBSET Nat
  OBVIOUS
<1>2. PICK x \in T : \A y \in T : x <= y
  BY <1>1, LeastNumber
<1>3. x \in 1 .. n /\ x - 1 \in 0 .. n - 1 /\ x \notin S
  BY <1>2
<1>4. x - 1 \in S
  BY <1>2, <1>3
<1> QED
  BY <1>3, <1>4

LEMMA NotWritten ==
  ASSUME NEW p \in Seq(LayerCommands), NEW f, NEW m, NEW used, Follows(f, m, p, used),
         NEW b \in used \cap Buffers, \A k \in 1 .. Len(p) : b \notin WritesTo(p[k])
  PROVE  f[Len(p)][b] = m[b]
<1> DEFINE S == {k \in 0 .. Len(p) : f[k][b] = m[b]}
<1>1. /\ Len(p) \in Nat /\ \A k \in 1 .. Len(p) : p[k] \in LayerCommands
      /\ \A k \in 0 .. Len(p) : f[k] \in Memories
  BY FollowsTypes
<1>2. 0 \in S
  BY <1>1 DEF Follows
<1>3. ASSUME NEW k \in 0 .. Len(p) - 1, k \in S PROVE k + 1 \in S
  <2>1. k + 1 \in 1 .. Len(p) /\ (k + 1) - 1 = k /\ k \in 0 .. Len(p)
    BY <1>1
  <2>2. f[k + 1][b] = Effect(f[(k + 1) - 1], p[k + 1])[b]
    BY <2>1 DEF Follows
  <2>3. Effect(f[k], p[k + 1])[b] = f[k][b]
    BY <1>1, <2>1, EffectElsewhere
  <2> QED
    BY <1>3, <2>1, <2>2, <2>3
<1> HIDE DEF S
<1>4. Len(p) \in S
  BY <1>1, <1>2, <1>3, Induction
<1> QED
  BY <1>4 DEF S

-----------------------------------------------------------------------------
(* What a buffer holds after the new keys of its rows were put there.      *)

LEMMA TextRows ==
  ASSUME NEW keys \in Texts
  PROVE  /\ Len(keys) \in Nat /\ DOMAIN keys = 1 .. Len(keys)
         /\ \A r \in 1 .. Len(keys) :
              keys[r] \in Seq(Keys) /\ Len(keys[r]) \in Nat /\ DOMAIN keys[r] = 1 .. Len(keys[r])
BY DEF Texts

LEMMA Concatenation ==
  ASSUME NEW S, NEW a \in Seq(S), NEW b \in Seq(S)
  PROVE  /\ a \o b \in Seq(S) /\ Len(a \o b) = Len(a) + Len(b)
         /\ \A j \in 1 .. Len(a) + Len(b) :
              (a \o b)[j] = IF j <= Len(a) THEN a[j] ELSE b[j - Len(a)]
OBVIOUS

LEMMA PutJoins ==
  ASSUME NEW x \in Seq(Keys), NEW dim \in Nat, NEW keys \in Texts, HoldsKeys(x, dim, keys),
         NEW new \in Texts, Len(new) = Len(keys), NEW at \in Nat,
         NEW joined \in Texts, Len(joined) = Len(keys),
         \A r \in DOMAIN keys :
           /\ Len(keys[r]) = at /\ at + Len(new[r]) <= dim
           /\ joined[r] = keys[r] \o new[r]
  PROVE  HoldsKeys(Put(x, dim, at, new), dim, joined)
<1>1. PICK n \in Nat : n = Len(keys)
  BY TextRows
<1>2. PICK y : y = Put(x, dim, at, new)
  OBVIOUS
<1>3. HasRows(x, n, dim) /\ y \in Seq(Keys) /\ HasRows(y, n, dim)
  BY <1>1, <1>2, PutType DEF HoldsKeys, HasRows
<1>4. \A r \in 1 .. n :
        /\ keys[r] \in Seq(Keys) /\ new[r] \in Seq(Keys) /\ r \in DOMAIN new
        /\ Len(keys[r]) = at /\ at + Len(new[r]) <= dim
        /\ joined[r] = keys[r] \o new[r]
  BY <1>1, TextRows
<1>5. ASSUME NEW r \in 1 .. n, NEW j \in 1 .. dim
      PROVE  y[Flat(dim, r, j)]
               = IF r \in DOMAIN new /\ j - at \in DOMAIN new[r] THEN new[r][j - at]
                 ELSE x[Flat(dim, r, j)]
  BY <1>2, <1>3, PutPlaces
<1>6. \A r \in 1 .. n : \A j \in 1 .. Len(keys[r]) : x[Flat(dim, r, j)] = keys[r][j]
  BY <1>1, TextRows DEF HoldsKeys
<1>7. ASSUME NEW r \in 1 .. n, NEW j \in 1 .. Len(joined[r])
      PROVE  j \in 1 .. dim /\ y[Flat(dim, r, j)] = joined[r][j]
  <2>1. PICK a \in Seq(Keys), b \in Seq(Keys) : a = keys[r] /\ b = new[r]
    BY <1>4
  <2>2. Len(a) = at /\ at + Len(b) <= dim /\ joined[r] = a \o b /\ r \in DOMAIN new
    BY <1>4, <2>1
  <2>3. Len(joined[r]) = at + Len(b)
    BY <2>2, Concatenation
  <2>4. j \in 1 .. dim
    BY <2>2, <2>3
  <2>5. y[Flat(dim, r, j)]
          = IF j - at \in DOMAIN b THEN b[j - at] ELSE x[Flat(dim, r, j)]
    BY <1>5, <2>1, <2>2, <2>4
  <2>6. CASE j <= at
    <3>1. j \in 1 .. Len(a) /\ j - at \notin DOMAIN b /\ (a \o b)[j] = a[j]
      BY <2>2, <2>3, <2>6
    <3>2. x[Flat(dim, r, j)] = a[j]
      BY <1>6, <2>1, <3>1
    <3> QED
      BY <2>2, <2>4, <2>5, <3>1, <3>2
  <2>7. CASE j > at
    <3>1. j - at \in DOMAIN b /\ (a \o b)[j] = b[j - at]
      BY <2>2, <2>3, <2>7
    <3> QED
      BY <2>2, <2>4, <2>5, <3>1
  <2> QED
    BY <2>2, <2>6, <2>7
<1>8. ASSUME NEW r \in 1 .. n PROVE Len(joined[r]) <= dim
  <2>1. Len(keys[r] \o new[r]) = Len(keys[r]) + Len(new[r])
    BY <1>4, Concatenation
  <2> QED
    BY <1>4, <2>1
<1>9. HoldsKeys(y, dim, joined)
  BY <1>1, <1>3, <1>7, <1>8, TextRows DEF HoldsKeys
<1> QED
  BY <1>2, <1>9

LEMMA PutHolds ==
  ASSUME NEW y \in Seq(Keys), NEW dim \in Nat, NEW moved \in Texts, NEW out \in Texts,
         Len(moved) = Len(out), HasRows(y, Len(out), dim),
         \A r \in DOMAIN out :
           /\ Len(out[r]) <= dim /\ Len(out[r]) <= Len(moved[r])
           /\ \A j \in 1 .. Len(out[r]) : moved[r][j] = out[r][j]
  PROVE  HoldsKeys(Put(y, dim, 0, moved), dim, out)
<1>1. PICK n \in Nat : n = Len(out)
  BY TextRows
<1>0. PICK zero \in Nat : zero = 0
  OBVIOUS
<1>2. PICK z : zero = 0 /\ z = Put(y, dim, zero, moved)
  BY <1>0
<1>3. z \in Seq(Keys) /\ HasRows(z, n, dim) /\ HasRows(y, n, dim)
  BY <1>1, <1>2, PutType DEF HasRows
<1>4. \A r \in 1 .. n :
        /\ out[r] \in Seq(Keys) /\ moved[r] \in Seq(Keys) /\ r \in DOMAIN moved
        /\ Len(out[r]) <= dim /\ Len(out[r]) <= Len(moved[r])
        /\ \A j \in 1 .. Len(out[r]) : moved[r][j] = out[r][j]
  BY <1>1, TextRows
<1>5. ASSUME NEW r \in 1 .. n, NEW j \in 1 .. dim
      PROVE  z[Flat(dim, r, j)]
               = IF r \in DOMAIN moved /\ j - zero \in DOMAIN moved[r] THEN moved[r][j - zero]
                 ELSE y[Flat(dim, r, j)]
  BY <1>2, <1>3, PutPlaces
<1>6. ASSUME NEW r \in 1 .. n, NEW j \in 1 .. Len(out[r])
      PROVE  z[Flat(dim, r, j)] = out[r][j]
  <2>1. PICK a \in Seq(Keys), b \in Seq(Keys) : a = out[r] /\ b = moved[r]
    BY <1>4
  <2>2. Len(a) <= dim /\ Len(a) <= Len(b) /\ b[j] = a[j] /\ r \in DOMAIN moved
    BY <1>4, <2>1
  <2>3. j \in 1 .. dim /\ j - zero = j /\ j \in DOMAIN b
    BY <1>2, <2>1, <2>2
  <2> QED
    BY <1>5, <2>1, <2>2, <2>3
<1>7. HoldsKeys(z, dim, out)
  BY <1>1, <1>3, <1>4, <1>6, TextRows DEF HoldsKeys
<1> QED
  BY <1>2, <1>7

(* A row of a buffer begins with its keys.                                 *)
LEMMA RowHolds ==
  ASSUME NEW x \in Seq(Keys), NEW dim \in Nat, NEW keys \in Texts, HoldsKeys(x, dim, keys),
         NEW r \in DOMAIN keys, NEW n \in Nat
  PROVE  /\ Row(x, dim, r, n) \in Seq(Keys) /\ Len(Row(x, dim, r, n)) = n
         /\ \A j \in 1 .. n : j <= Len(keys[r]) => Row(x, dim, r, n)[j] = keys[r][j]
<1>1. Len(keys) \in Nat /\ r \in 1 .. Len(keys) /\ keys[r] \in Seq(Keys)
  BY DEF Texts
<1>2. Row(x, dim, r, n) \in Seq(Keys) /\ Len(Row(x, dim, r, n)) = n
  BY RowType
<1>3. ASSUME NEW j \in 1 .. n, j <= Len(keys[r]) PROVE Row(x, dim, r, n)[j] = keys[r][j]
  <2>1. j \in 1 .. Len(keys[r]) /\ Len(keys[r]) <= dim /\ Len(keys[r]) \in Nat
    BY <1>1, <1>3 DEF HoldsKeys
  <2>2. x[Flat(dim, r, j)] = keys[r][j]
    BY <1>1, <2>1 DEF HoldsKeys
  <2>3. HasRows(x, Len(keys), dim)
    BY DEF HoldsKeys
  <2>5. j <= dim
    BY <2>1
  <2>4. Row(x, dim, r, n)[j] = x[Flat(dim, r, j)]
    BY <1>1, <2>3, <2>5, RowPlaces
  <2> QED
    BY <2>2, <2>4
<1> QED
  BY <1>2, <1>3

LEMMA RowIsKeys ==
  ASSUME NEW x \in Seq(Keys), NEW dim \in Nat, NEW keys \in Texts, HoldsKeys(x, dim, keys),
         NEW r \in DOMAIN keys
  PROVE  Row(x, dim, r, Len(keys[r])) = keys[r]
<1>1. keys[r] \in Seq(Keys) /\ Len(keys[r]) \in Nat
  BY DEF Texts
<1>2. PICK row : row = Row(x, dim, r, Len(keys[r]))
  OBVIOUS
<1>3. row \in Seq(Keys) /\ Len(row) = Len(keys[r]) /\ \A j \in 1 .. Len(keys[r]) : row[j] = keys[r][j]
  BY <1>1, <1>2, RowHolds
<1>4. row = keys[r]
  BY <1>1, <1>3
<1> QED
  BY <1>2, <1>4

-----------------------------------------------------------------------------
(* An operator that has done a part of its work.                           *)

Ready == pending \in Seq(LayerCommands) /\ memory \in Memories /\ saved \in States

Steps == [cache : Places, memory : Memories, commands : Seq(LayerCommands)]

Queue(s) == pending \o s.commands
UsedBy(s) == InUse(Queue(s), s.cache, saved)

LeavesPrompt(s) ==
  saved.cache.buffer # 0 =>
    /\ s.cache.buffer # saved.cache.buffer
    /\ \A k \in 1 .. Len(Queue(s)) : saved.cache.buffer \notin WritesTo(Queue(s)[k])
    /\ s.memory[saved.cache.buffer] = memory[saved.cache.buffer]

Plan(s, f) ==
  /\ s \in Steps
  /\ Follows(f, s.memory, Queue(s), UsedBy(s)) /\ ReadsRight(f, Queue(s))
  /\ LeavesPrompt(s)

(* The memory after all of it, and what its cache then holds.              *)
Finally(s, f) == f[Len(Queue(s))]

Content(s, f, keys) ==
  /\ s.cache.buffer \in Buffers
  /\ HoldsKeys(Finally(s, f)[s.cache.buffer], s.cache.dim, keys)

LEMMA QueueType ==
  ASSUME Ready, NEW s \in Steps
  PROVE  Queue(s) \in Seq(LayerCommands)
BY DEF Ready, Steps, Queue

LEMMA UsesOf ==
  ASSUME NEW p \in Seq(LayerCommands), NEW state, NEW other
  PROVE  /\ \A k \in 1 .. Len(p) : BuffersOf(p[k]) \subseteq InUse(p, state, other)
         /\ state.buffer \in InUse(p, state, other)
         /\ other.cache.buffer \in InUse(p, state, other)
BY DEF InUse

LEMMA UsesOfMore ==
  ASSUME NEW p \in Seq(LayerCommands), NEW c \in LayerCommands, NEW state, NEW other
  PROVE  InUse(Append(p, c), state, other) = InUse(p, state, other) \cup BuffersOf(c)
<1> DEFINE q == Append(p, c)
<1>1. DOMAIN q = DOMAIN p \cup {Len(p) + 1} /\ q[Len(p) + 1] = c /\ \A k \in DOMAIN p : q[k] = p[k]
  OBVIOUS
<1> HIDE DEF q
<1>2. UNION {BuffersOf(q[k]) : k \in DOMAIN q} = (UNION {BuffersOf(p[k]) : k \in DOMAIN p}) \cup BuffersOf(c)
  BY <1>1
<1> QED
  BY <1>2 DEF InUse, q

LEMMA FreshBuffer ==
  ASSUME NEW s, FreeBuffers(s) # {}
  PROVE  /\ Min(FreeBuffers(s)) \in FreeBuffers(s) /\ Min(FreeBuffers(s)) \in Buffers
         /\ Min(FreeBuffers(s)) \notin UsedBy(s)
<1>1. FreeBuffers(s) \in SUBSET Nat
  BY DEF FreeBuffers
<1>2. \E x \in FreeBuffers(s) : \A y \in FreeBuffers(s) : x <= y
  BY <1>1, LeastNumber
<1>3. Min(FreeBuffers(s)) \in FreeBuffers(s)
  BY <1>2 DEF Min
<1> QED
  BY <1>3 DEF FreeBuffers, Buffers, UsedBy, Queue

Blank(n) == [i \in 1 .. n |-> Garbage]

LEMMA AllocateIs ==
  ASSUME NEW s \in Steps, FreeBuffers(s) # {}, NEW n \in Nat, NEW dim \in Nat
  PROVE  \E b \in FreeBuffers(s) :
           /\ b \in Buffers /\ b \notin UsedBy(s)
           /\ Allocate(s, n, dim) = [cache |-> [buffer |-> b, dim |-> dim],
                                     memory |-> [s.memory EXCEPT ![b] = Blank(n * dim)],
                                     commands |-> s.commands]
           /\ Allocate(s, n, dim) \in Steps
<1>1. PICK b : b = Min(FreeBuffers(s))
  OBVIOUS
<1>2. b \in FreeBuffers(s) /\ b \in Buffers /\ b \notin UsedBy(s)
  BY <1>1, FreshBuffer
<1>3. Allocate(s, n, dim) = [s EXCEPT !.cache = [buffer |-> b, dim |-> dim],
                                      !.memory[b] = Blank(n * dim)]
  BY <1>1 DEF Allocate, Blank
<1>4. Blank(n * dim) \in Seq(Keys)
  <2>1. n * dim \in Nat
    OBVIOUS
  <2> QED
    BY <2>1, GarbageIsKey DEF Blank
<1>5. s.memory \in Memories /\ s = [cache |-> s.cache, memory |-> s.memory, commands |-> s.commands]
  BY DEF Steps
<1>6. PICK m : m = [s.memory EXCEPT ![b] = Blank(n * dim)]
  OBVIOUS
<1>7. m \in Memories
  BY <1>2, <1>4, <1>5, <1>6 DEF Memories
<1>8. Allocate(s, n, dim) = [cache |-> [buffer |-> b, dim |-> dim], memory |-> m,
                             commands |-> s.commands]
  BY <1>3, <1>5, <1>6
<1>9. [buffer |-> b, dim |-> dim] \in Places /\ s.commands \in Seq(LayerCommands)
  BY <1>2 DEF Places, Buffers, Steps
<1>10. Allocate(s, n, dim) \in Steps
  BY <1>7, <1>8, <1>9 DEF Steps
<1> QED
  BY <1>2, <1>6, <1>8, <1>10

LEMMA BlankHolds ==
  ASSUME NEW n \in Nat, NEW dim \in Nat
  PROVE  HoldsKeys(Blank(n * dim), dim, [r \in 1 .. n |-> <<>>]) /\ Blank(n * dim) \in Seq(Keys)
<1>1. n * dim \in Nat
  OBVIOUS
<1>2. Blank(n * dim) \in Seq(Keys) /\ Len(Blank(n * dim)) = n * dim
  BY <1>1, GarbageIsKey DEF Blank
<1>3. Len([r \in 1 .. n |-> <<>>]) = n
  OBVIOUS
<1> QED
  BY <1>2, <1>3 DEF HoldsKeys, HasRows

LEMMA FollowsPart ==
  ASSUME NEW f, NEW m, NEW p, NEW used, Follows(f, m, p, used),
         NEW fewer, fewer \cap Buffers \subseteq used
  PROVE  Follows(f, m, p, fewer)
BY DEF Follows

(* A new buffer is one that nobody writes, and takes nothing from another. *)
Allocates(s, f, n, dim, b, g) ==
  /\ b \in FreeBuffers(s)
  /\ b \in Buffers /\ b \notin UsedBy(s)
  /\ Allocate(s, n, dim) = [cache |-> [buffer |-> b, dim |-> dim],
                            memory |-> [s.memory EXCEPT ![b] = Blank(n * dim)],
                            commands |-> s.commands]
  /\ Plan(Allocate(s, n, dim), g)
  /\ Follows(g, Allocate(s, n, dim).memory, Queue(s), UsedBy(s) \cup {b})
  /\ Finally(Allocate(s, n, dim), g) = [Finally(s, f) EXCEPT ![b] = Blank(n * dim)]

LEMMA AllocatePlan ==
  ASSUME Ready, NEW s, NEW f, Plan(s, f), FreeBuffers(s) # {}, NEW n \in Nat, NEW dim \in Nat
  PROVE  \E b, g : Allocates(s, f, n, dim, b, g)
<1>1. PICK b \in FreeBuffers(s) :
        /\ b \in Buffers /\ b \notin UsedBy(s)
        /\ Allocate(s, n, dim) = [cache |-> [buffer |-> b, dim |-> dim],
                                  memory |-> [s.memory EXCEPT ![b] = Blank(n * dim)],
                                  commands |-> s.commands]
        /\ Allocate(s, n, dim) \in Steps
  BY AllocateIs DEF Plan
<1>2. PICK a : a = Allocate(s, n, dim)
  OBVIOUS
<1>3. /\ a.cache = [buffer |-> b, dim |-> dim] /\ a.memory = [s.memory EXCEPT ![b] = Blank(n * dim)]
      /\ a.commands = s.commands /\ a \in Steps
  BY <1>1, <1>2
<1>4. Queue(a) = Queue(s) /\ Queue(s) \in Seq(LayerCommands)
  BY <1>3, QueueType DEF Queue, Plan
<1>5. PICK g : /\ Follows(g, a.memory, Queue(s), UsedBy(s) \cup {b}) /\ ReadsRight(g, Queue(s))
               /\ g[Len(Queue(s))] = [f[Len(Queue(s))] EXCEPT ![b] = Blank(n * dim)]
  <2>1. Blank(n * dim) \in Seq(Keys)
    BY BlankHolds
  <2>2. \A k \in 1 .. Len(Queue(s)) : BuffersOf(Queue(s)[k]) \subseteq UsedBy(s)
    BY <1>4, UsesOf DEF UsedBy
  <2>3. Follows(f, s.memory, Queue(s), UsedBy(s)) /\ ReadsRight(f, Queue(s))
    BY DEF Plan
  <2>4. PICK p, m, used, x : p = Queue(s) /\ m = s.memory /\ used = UsedBy(s) /\ x = Blank(n * dim)
    OBVIOUS
  <2>5. /\ p \in Seq(LayerCommands) /\ Follows(f, m, p, used) /\ ReadsRight(f, p)
        /\ \A k \in 1 .. Len(p) : BuffersOf(p[k]) \subseteq used
        /\ b \in Buffers /\ b \notin used /\ x \in Seq(Keys)
    BY <1>1, <1>4, <2>1, <2>2, <2>3, <2>4
  <2>7. PICK more : more = used \cup {b}
    OBVIOUS
  <2>6. \E g : Refills(g, f, m, p, more, b, x)
    BY ONLY <2>5, <2>7, FollowsNew
  <2> QED
    BY <1>3, <2>4, <2>6, <2>7 DEF Refills
<1>6. Follows(g, a.memory, Queue(a), UsedBy(a))
  <2>1. UsedBy(a) \subseteq UsedBy(s) \cup {b}
    BY <1>3, <1>4 DEF UsedBy, InUse
  <2> QED
    BY <1>4, <1>5, <2>1, FollowsPart
<1>7. LeavesPrompt(a)
  <2> SUFFICES ASSUME saved.cache.buffer # 0
               PROVE  /\ a.cache.buffer # saved.cache.buffer
                      /\ \A k \in 1 .. Len(Queue(a)) : saved.cache.buffer \notin WritesTo(Queue(a)[k])
                      /\ a.memory[saved.cache.buffer] = memory[saved.cache.buffer]
    BY DEF LeavesPrompt
  <2>1. saved.cache.buffer \in UsedBy(s)
    BY <1>4, UsesOf DEF UsedBy
  <2>2. b # saved.cache.buffer /\ saved.cache.buffer \in Buffers
    BY <1>1, <2>1 DEF Ready, States, Places, Buffers
  <2>3. a.memory[saved.cache.buffer] = s.memory[saved.cache.buffer]
    BY <1>3, <2>2 DEF Plan, Steps, Memories
  <2> QED
    BY <1>3, <1>4, <2>2, <2>3 DEF Plan, LeavesPrompt
<1>8. Plan(a, g)
  BY <1>3, <1>4, <1>5, <1>6, <1>7 DEF Plan
<1>9. Finally(a, g) = [Finally(s, f) EXCEPT ![b] = Blank(n * dim)]
  BY <1>4, <1>5 DEF Finally
<1> QED
  BY <1>1, <1>2, <1>3, <1>5, <1>8, <1>9 DEF Allocates

Issues(s, f, c, g) ==
  /\ Plan(Issue(s, c), g) /\ Finally(Issue(s, c), g) = Effect(Finally(s, f), c)
  /\ Issue(s, c).cache = s.cache
  /\ FreeBuffers(Issue(s, c)) = FreeBuffers(s) \ BuffersOf(c)

LEMMA IssuePlan ==
  ASSUME Ready, NEW s \in Steps, NEW f, NEW used,
         Follows(f, s.memory, Queue(s), used), ReadsRight(f, Queue(s)), LeavesPrompt(s),
         NEW c \in LayerCommands, UsedBy(s) \cup BuffersOf(c) \subseteq used,
         saved.cache.buffer # 0 => saved.cache.buffer \notin WritesTo(c),
         c.op = "sdpa" => \A r \in DOMAIN c.should :
                            Row(Finally(s, f)[c.from], c.dim, r, c.length) = c.should[r]
  PROVE  \E g : Issues(s, f, c, g)
<1>1. PICK a : a = Issue(s, c)
  OBVIOUS
<1>2. /\ a.cache = s.cache /\ a.memory = s.memory /\ a.commands = Append(s.commands, c)
      /\ a \in Steps
  <2>1. s.commands \in Seq(LayerCommands) /\ DOMAIN s = {"cache", "memory", "commands"}
    BY DEF Steps
  <2>2. Append(s.commands, c) \in Seq(LayerCommands)
    BY <2>1
  <2> QED
    BY <1>1, <2>1, <2>2 DEF Issue, Steps
<1>3. Queue(s) \in Seq(LayerCommands)
  BY QueueType
<1>4. Queue(a) = Append(Queue(s), c) /\ Len(Queue(a)) = Len(Queue(s)) + 1
  <2>1. pending \in Seq(LayerCommands) /\ s.commands \in Seq(LayerCommands)
    BY DEF Ready, Steps
  <2>2. pending \o Append(s.commands, c) = Append(pending \o s.commands, c)
    BY <2>1
  <2> QED
    BY <1>2, <1>3, <2>2 DEF Queue
<1>5. PICK g : /\ Follows(g, s.memory, Append(Queue(s), c), used) /\ ReadsRight(g, Append(Queue(s), c))
               /\ g[Len(Queue(s)) + 1] = Effect(f[Len(Queue(s))], c)
  BY <1>3, FollowsMore DEF Finally
<1>6. UsedBy(a) = UsedBy(s) \cup BuffersOf(c)
  BY <1>2, <1>3, <1>4, UsesOfMore DEF UsedBy
<1>7. Follows(g, a.memory, Queue(a), UsedBy(a))
  BY <1>2, <1>4, <1>5, <1>6, FollowsPart
<1>8. LeavesPrompt(a)
  <2>1. \A k \in 1 .. Len(Queue(a)) :
          IF k = Len(Queue(s)) + 1 THEN Queue(a)[k] = c
          ELSE k \in 1 .. Len(Queue(s)) /\ Queue(a)[k] = Queue(s)[k]
    BY <1>3, <1>4
  <2> QED
    BY <1>2, <2>1 DEF LeavesPrompt
<1>9. FreeBuffers(a) = FreeBuffers(s) \ BuffersOf(c)
  BY <1>2, <1>6 DEF FreeBuffers, UsedBy, Queue
<1>10. Plan(a, g) /\ Finally(a, g) = Effect(Finally(s, f), c)
  BY <1>2, <1>4, <1>5, <1>7, <1>8 DEF Plan, Finally
<1> QED
  BY <1>1, <1>2, <1>9, <1>10 DEF Issues


-----------------------------------------------------------------------------
(* What the parts of the operator do to the cache.                         *)

Does(s, f, keys) == Plan(s, f) /\ Content(s, f, keys)

(* The cache of t has this dimension and holds these keys; at most one of  *)
(* these buffers is gone.                                                  *)
Yields(t, dim, keys, free) ==
  /\ t.cache.dim = dim
  /\ \E f : Does(t, f, keys)
  /\ \E b : free \ {b} \subseteq FreeBuffers(t)

(* Some keys of these rows, and new ones.                                  *)
TakesOver(keys, rows, skip, keep, new, out) ==
  /\ Len(out) = Len(rows) /\ Len(new) = Len(rows)
  /\ \A r \in DOMAIN rows :
       /\ rows[r] \in DOMAIN keys
       /\ Len(out[r]) <= keep + Len(new[r])
       /\ \A j \in 1 .. Len(out[r]) :
            IF j <= keep THEN skip + j <= Len(keys[rows[r]]) /\ out[r][j] = keys[rows[r]][skip + j]
            ELSE out[r][j] = new[r][j - keep]

LEMMA Part ==
  ASSUME NEW S, NEW a \in Seq(S), NEW skip \in Nat, NEW keep \in Nat, Len(a) = skip + keep
  PROVE  /\ SubSeq(a, skip + 1, skip + keep) \in Seq(S)
         /\ Len(SubSeq(a, skip + 1, skip + keep)) = keep
         /\ \A j \in 1 .. keep : SubSeq(a, skip + 1, skip + keep)[j] = a[skip + j]
OBVIOUS

LEMMA MovedHolds ==
  ASSUME NEW m \in Memories, NEW c \in Moves, NEW keys \in Texts, NEW out \in Texts,
         HoldsKeys(m[c.from], c.fromDim, keys), c.fromDim \in Nat,
         TakesOver(keys, c.rows, c.skip, c.keep, c.new, out)
  PROVE  /\ Moved(m, c) \in Texts /\ Len(Moved(m, c)) = Len(out)
         /\ \A r \in DOMAIN out :
              /\ Len(out[r]) <= Len(Moved(m, c)[r])
              /\ \A j \in 1 .. Len(out[r]) : Moved(m, c)[r][j] = out[r][j]
<1>1. /\ c.from \in Buffers /\ c.skip \in Nat /\ c.keep \in Nat /\ c.new \in Texts
      /\ c.rows \in Seq(Nat)
  BY DEF Moves
<1>2. PICK x \in Seq(Keys), dim \in Nat, skip \in Nat, keep \in Nat, new \in Texts, rows \in Seq(Nat) :
        /\ x = m[c.from] /\ dim = c.fromDim /\ skip = c.skip /\ keep = c.keep /\ new = c.new
        /\ rows = c.rows
  BY <1>1 DEF Memories
<1>3. HoldsKeys(x, dim, keys) /\ TakesOver(keys, rows, skip, keep, new, out)
  BY <1>2
<1>4. Moved(m, c) \in Texts /\ DOMAIN Moved(m, c) = DOMAIN new
  BY <1>2, MovedType
<1>5. Len(out) = Len(new) /\ Len(out) = Len(rows) /\ DOMAIN out = DOMAIN rows /\ DOMAIN out = DOMAIN new
  BY <1>3, TextRows DEF TakesOver
<1>6. Len(Moved(m, c)) = Len(out)
  BY <1>4, <1>5, TextRows
<1>7. ASSUME NEW r \in DOMAIN out
      PROVE  /\ Len(out[r]) <= Len(Moved(m, c)[r])
             /\ \A j \in 1 .. Len(out[r]) : Moved(m, c)[r][j] = out[r][j]
  <2>1. /\ r \in DOMAIN rows /\ r \in DOMAIN new /\ rows[r] \in DOMAIN keys
        /\ out[r] \in Seq(Keys) /\ new[r] \in Seq(Keys) /\ keys[rows[r]] \in Seq(Keys)
    BY <1>3, <1>5, TextRows DEF TakesOver
  <2>2. PICK b \in Seq(Keys), o \in Seq(Keys), k \in Seq(Keys), i \in DOMAIN keys :
          b = new[r] /\ o = out[r] /\ k = keys[i] /\ i = rows[r]
    BY <2>1
  <2>3. PICK len \in Nat : len = skip + keep
    OBVIOUS
  <2>11. PICK a : a = Row(x, dim, i, len)
    OBVIOUS
  <2>4. a \in Seq(Keys) /\ Len(a) = skip + keep /\ \A j \in 1 .. skip + keep : j <= Len(k) => a[j] = k[j]
    <3>1. Row(x, dim, i, len) \in Seq(Keys) /\ Len(Row(x, dim, i, len)) = len
          /\ \A j \in 1 .. len : j <= Len(keys[i]) => Row(x, dim, i, len)[j] = keys[i][j]
      BY <1>3, RowHolds
    <3> QED
      BY <2>2, <2>3, <2>11, <3>1
  <2>5. PICK p : p = SubSeq(a, skip + 1, skip + keep)
    OBVIOUS
  <2>6. p \in Seq(Keys) /\ Len(p) = keep /\ \A j \in 1 .. keep : p[j] = a[skip + j]
    BY <2>4, <2>5, Part
  <2>7. Moved(m, c)[r] = p \o b
    BY <1>2, <2>1, <2>2, <2>3, <2>5, <2>11 DEF Moved
  <2>8. /\ Len(p \o b) = keep + Len(b)
        /\ \A j \in 1 .. keep + Len(b) : (p \o b)[j] = IF j <= keep THEN p[j] ELSE b[j - keep]
    <3>1. b \in Seq(Keys) /\ p \in Seq(Keys) /\ Len(p) = keep
      BY <2>6
    <3>2. Len(p \o b) = Len(p) + Len(b)
          /\ \A j \in 1 .. Len(p) + Len(b) : (p \o b)[j] = IF j <= Len(p) THEN p[j] ELSE b[j - Len(p)]
      BY ONLY <3>1, Concatenation
    <3> QED
      BY <3>1, <3>2
  <2>9. /\ Len(o) <= keep + Len(b)
        /\ \A j \in 1 .. Len(o) : IF j <= keep THEN skip + j <= Len(k) /\ o[j] = k[skip + j]
                                  ELSE o[j] = b[j - keep]
    BY <1>3, <2>1, <2>2 DEF TakesOver
  <2>10. ASSUME NEW j \in 1 .. Len(o) PROVE (p \o b)[j] = o[j]
    <3>1. j \in 1 .. keep + Len(b)
      BY <2>2, <2>9
    <3>2. CASE j <= keep
      <4>1. skip + j \in 1 .. skip + keep /\ skip + j <= Len(k)
        BY <2>9, <3>2
      <4>2. (p \o b)[j] = p[j] /\ p[j] = a[skip + j] /\ a[skip + j] = k[skip + j]
        BY <2>4, <2>6, <2>8, <3>1, <3>2, <4>1
      <4> QED
        BY <2>9, <3>2, <4>2
    <3>3. CASE ~(j <= keep)
      BY <2>8, <2>9, <3>1, <3>3
    <3> QED
      BY <3>2, <3>3
  <2> QED
    BY <2>2, <2>7, <2>8, <2>9, <2>10
<1> QED
  BY <1>4, <1>6, <1>7

LEMMA MoveYields ==
  ASSUME Ready, NEW s, NEW f, NEW keys \in Texts, Does(s, f, keys), FreeBuffers(s) # {},
         NEW dim \in Nat, NEW rows \in Seq(Nat), NEW skip \in Nat, NEW keep \in Nat,
         NEW new \in Texts, NEW out \in Texts, TakesOver(keys, rows, skip, keep, new, out),
         \A r \in DOMAIN out : Len(out[r]) <= dim
  PROVE  Yields(Move(s, dim, s.cache.dim, rows, skip, keep, new), dim, out, FreeBuffers(s))
<1>1. /\ s \in Steps /\ Plan(s, f) /\ s.cache.buffer \in Buffers /\ s.cache.dim \in Nat
      /\ HoldsKeys(Finally(s, f)[s.cache.buffer], s.cache.dim, keys)
  BY DEF Does, Plan, Content, Steps, Places
<1>2. PICK n \in Nat : n = Len(rows) /\ n = Len(out)
  BY TextRows DEF TakesOver
<1>17. PICK b, g : Allocates(s, f, n, dim, b, g)
  BY <1>1, AllocatePlan
<1>3. /\ b \in FreeBuffers(s) /\ b \in Buffers /\ b \notin UsedBy(s)
      /\ Allocate(s, n, dim) = [cache |-> [buffer |-> b, dim |-> dim],
                                memory |-> [s.memory EXCEPT ![b] = Blank(n * dim)],
                                commands |-> s.commands]
      /\ Plan(Allocate(s, n, dim), g)
      /\ Follows(g, Allocate(s, n, dim).memory, Queue(s), UsedBy(s) \cup {b})
      /\ Finally(Allocate(s, n, dim), g) = [Finally(s, f) EXCEPT ![b] = Blank(n * dim)]
  BY <1>17 DEF Allocates
<1>4. PICK a : a = Allocate(s, n, dim)
  OBVIOUS
<1>5. /\ a \in Steps /\ a.cache = [buffer |-> b, dim |-> dim] /\ a.commands = s.commands
      /\ a.cache.buffer = b /\ a.cache.dim = dim
      /\ Queue(a) = Queue(s) /\ ReadsRight(g, Queue(a)) /\ LeavesPrompt(a)
      /\ Follows(g, a.memory, Queue(a), UsedBy(s) \cup {b})
  BY <1>3, <1>4 DEF Plan, Queue
<1>6. PICK c : c = [op |-> "move", from |-> s.cache.buffer, fromDim |-> s.cache.dim, rows |-> rows,
                    skip |-> skip, keep |-> keep, new |-> new, to |-> b, dim |-> dim]
  OBVIOUS
<1>7. /\ c \in Moves /\ c \in LayerCommands /\ c.op = "move"
      /\ c.from = s.cache.buffer /\ c.fromDim = s.cache.dim /\ c.rows = rows /\ c.skip = skip
      /\ c.keep = keep /\ c.new = new /\ c.to = b /\ c.dim = dim
  BY <1>1, <1>3, <1>6 DEF Moves, LayerCommands
<1>8. Move(s, dim, s.cache.dim, rows, skip, keep, new) = Issue(a, c)
  BY <1>2, <1>4, <1>5, <1>6 DEF Move
<1>9. BuffersOf(c) = {s.cache.buffer, b} /\ WritesTo(c) = {b}
  BY <1>7, MoveEffect, <1>3, <1>1 DEF BuffersOf, WritesTo
<1>10. s.cache.buffer \in UsedBy(s) /\ (saved.cache.buffer # 0 => saved.cache.buffer \in UsedBy(s))
  BY <1>1, QueueType, UsesOf DEF UsedBy
<1>11. UsedBy(a) \cup BuffersOf(c) \subseteq UsedBy(s) \cup {b}
  BY <1>5, <1>9, <1>10 DEF UsedBy, InUse
<1>12. PICK h : Issues(a, g, c, h)
  <2>1. PICK used : used = UsedBy(s) \cup {b}
    OBVIOUS
  <2>2. Follows(g, a.memory, Queue(a), used) /\ UsedBy(a) \cup BuffersOf(c) \subseteq used
    BY <1>5, <1>11, <2>1
  <2>3. saved.cache.buffer # 0 => saved.cache.buffer \notin WritesTo(c)
    BY <1>3, <1>9, <1>10
  <2>4. c.op # "sdpa"
    BY <1>7
  <2> QED
    BY <1>5, <1>7, <2>2, <2>3, <2>4, IssuePlan
<1>18. /\ Plan(Issue(a, c), h) /\ Finally(Issue(a, c), h) = Effect(Finally(a, g), c)
       /\ Issue(a, c).cache = a.cache
       /\ FreeBuffers(Issue(a, c)) = FreeBuffers(a) \ BuffersOf(c)
  BY <1>12 DEF Issues
<1>13. PICK t : t = Issue(a, c)
  OBVIOUS
<1>14. FreeBuffers(s) \ {b} \subseteq FreeBuffers(t)
  <2>1. FreeBuffers(s) \ {b} \subseteq FreeBuffers(a)
    BY <1>5 DEF FreeBuffers, InUse, Queue
  <2>2. s.cache.buffer \notin FreeBuffers(s)
    BY <1>10 DEF FreeBuffers, UsedBy, Queue
  <2> QED
    BY <1>9, <1>18, <1>13, <2>1, <2>2
<1>15. Content(t, h, out)
  <2>1. PICK m : m = Finally(a, g)
    OBVIOUS
  <2>2. m \in Memories
    <3>1. Queue(a) \in Seq(LayerCommands)
      BY <1>5, QueueType
    <3> QED
      BY <1>5, <2>1, <3>1, FollowsTypes DEF Finally, Follows
  <2>3. m[b] = Blank(n * dim) /\ m[s.cache.buffer] = Finally(s, f)[s.cache.buffer]
    <3>1. PICK v : v = Finally(s, f)
      OBVIOUS
    <3>2. v \in Memories
      BY <1>1, <3>1, QueueType, FollowsTypes DEF Finally, Follows, Plan
    <3>3. m = [v EXCEPT ![b] = Blank(n * dim)] /\ b # s.cache.buffer
      BY <1>3, <1>4, <1>10, <2>1, <3>1
    <3> QED
      BY <1>1, <1>3, <3>1, <3>2, <3>3 DEF Memories
  <2>4. HoldsKeys(m[c.from], c.fromDim, keys) /\ c.fromDim \in Nat
    BY <1>1, <1>7, <2>3
  <2>5. TakesOver(keys, c.rows, c.skip, c.keep, c.new, out)
    BY <1>7
  <2>6. PICK moved : moved = Moved(m, c)
    OBVIOUS
  <2>7. /\ moved \in Texts /\ Len(moved) = Len(out)
        /\ \A r \in DOMAIN out :
             /\ Len(out[r]) <= Len(moved[r])
             /\ \A j \in 1 .. Len(out[r]) : moved[r][j] = out[r][j]
    BY <1>7, <2>2, <2>4, <2>5, <2>6, MovedHolds
  <2>8. PICK y : y = m[b]
    OBVIOUS
  <2>9. y \in Seq(Keys) /\ HasRows(y, Len(out), dim)
    <3>1. n * dim \in Nat
      OBVIOUS
    <3> QED
      BY <1>2, <2>3, <2>8, <3>1, GarbageIsKey DEF Blank, HasRows
  <2>10. HoldsKeys(Put(y, dim, 0, moved), dim, out)
    BY <2>7, <2>9, PutHolds
  <2>11. Finally(t, h)[b] = Put(y, dim, 0, moved)
    <3>1. PICK z : z = Put(m[c.to], c.dim, 0, Moved(m, c))
      OBVIOUS
    <3>2. Effect(m, c) = [m EXCEPT ![c.to] = z]
      BY <1>7, <2>2, <3>1, MoveEffect
    <3>3. Effect(m, c)[b] = z
      BY <1>3, <1>7, <2>2, <3>2 DEF Memories
    <3>4. z = Put(y, dim, 0, moved)
      BY <1>7, <2>6, <2>8, <3>1
    <3> QED
      BY <1>18, <1>13, <2>1, <3>3, <3>4
  <2> QED
    BY <1>3, <1>5, <1>18, <1>13, <2>10, <2>11 DEF Content
<1>16. t.cache.dim = dim /\ Does(t, h, out)
  BY <1>5, <1>18, <1>13, <1>15 DEF Does
<1> QED
  BY <1>8, <1>13, <1>14, <1>16 DEF Yields

Joins(dim, keys, at, new, joined) ==
  /\ Len(new) = Len(keys) /\ Len(joined) = Len(keys)
  /\ \A r \in DOMAIN keys :
       /\ Len(keys[r]) = at /\ at + Len(new[r]) <= dim
       /\ joined[r] = keys[r] \o new[r]

LEMMA WriteYields ==
  ASSUME Ready, NEW s, NEW f, NEW keys \in Texts, Does(s, f, keys),
         NEW at \in Nat, NEW new \in Texts, NEW joined \in Texts,
         Joins(s.cache.dim, keys, at, new, joined)
  PROVE  /\ Yields(Write(s, at, new), s.cache.dim, joined, FreeBuffers(s))
         /\ FreeBuffers(Write(s, at, new)) = FreeBuffers(s)
<1>1. /\ s \in Steps /\ Plan(s, f) /\ s.cache.buffer \in Buffers /\ s.cache.dim \in Nat
      /\ HoldsKeys(Finally(s, f)[s.cache.buffer], s.cache.dim, keys)
      /\ Follows(f, s.memory, Queue(s), UsedBy(s)) /\ ReadsRight(f, Queue(s)) /\ LeavesPrompt(s)
  BY DEF Does, Plan, Content, Steps, Places
<1>2. PICK c : c = [op |-> "write", to |-> s.cache.buffer, dim |-> s.cache.dim, at |-> at, new |-> new]
  OBVIOUS
<1>3. /\ c \in Writes /\ c \in LayerCommands /\ c.op = "write" /\ c.to = s.cache.buffer
      /\ c.dim = s.cache.dim /\ c.at = at /\ c.new = new
  BY <1>1, <1>2 DEF Writes, LayerCommands
<1>4. Write(s, at, new) = Issue(s, c)
  BY <1>2 DEF Write
<1>5. BuffersOf(c) = {s.cache.buffer} /\ WritesTo(c) = {s.cache.buffer}
  BY <1>3 DEF BuffersOf, WritesTo
<1>6. s.cache.buffer \in UsedBy(s)
  BY <1>1, QueueType, UsesOf DEF UsedBy
<1>7. PICK h : Issues(s, f, c, h)
  <2>1. UsedBy(s) \cup BuffersOf(c) \subseteq UsedBy(s)
    BY <1>5, <1>6
  <2>2. saved.cache.buffer # 0 => saved.cache.buffer \notin WritesTo(c)
    BY <1>1, <1>5 DEF LeavesPrompt
  <2>3. c.op # "sdpa"
    BY <1>3
  <2> QED
    BY <1>1, <1>3, <2>1, <2>2, <2>3, IssuePlan
<1>12. /\ Plan(Issue(s, c), h) /\ Finally(Issue(s, c), h) = Effect(Finally(s, f), c)
       /\ Issue(s, c).cache = s.cache
       /\ FreeBuffers(Issue(s, c)) = FreeBuffers(s) \ BuffersOf(c)
  BY <1>7 DEF Issues
<1>8. PICK t : t = Issue(s, c)
  OBVIOUS
<1>9. FreeBuffers(t) = FreeBuffers(s)
  BY <1>5, <1>6, <1>12, <1>8 DEF FreeBuffers, UsedBy, Queue
<1>10. Content(t, h, joined)
  <2>1. PICK m : m = Finally(s, f)
    OBVIOUS
  <2>2. m \in Memories
    BY <1>1, <2>1, QueueType, FollowsTypes DEF Finally, Follows
  <2>3. PICK x, dim : x = m[s.cache.buffer] /\ dim = s.cache.dim /\ dim \in Nat
    BY <1>1
  <2>4. x \in Seq(Keys) /\ HoldsKeys(x, dim, keys)
    BY <1>1, <2>1, <2>2, <2>3 DEF Memories
  <2>5. HoldsKeys(Put(x, dim, at, new), dim, joined)
    BY <2>3, <2>4, PutJoins DEF Joins
  <2>6. Finally(t, h)[s.cache.buffer] = Put(x, dim, at, new)
    BY <1>1, <1>3, <1>12, <1>8, <2>1, <2>2, <2>3, WriteEffect DEF Memories
  <2> QED
    BY <1>1, <1>12, <1>8, <2>3, <2>5, <2>6 DEF Content
<1>11. t.cache.dim = s.cache.dim /\ Does(t, h, joined)
  BY <1>12, <1>8, <1>10 DEF Does
<1> QED
  BY <1>4, <1>8, <1>9, <1>11 DEF Yields

LEMMA FreshYields ==
  ASSUME Ready, NEW s, NEW f, Plan(s, f), FreeBuffers(s) # {}, NEW dim \in Nat,
         NEW new \in Texts, \A r \in DOMAIN new : Len(new[r]) <= dim
  PROVE  Yields(Write(Allocate(s, Len(new), dim), 0, new), dim, new, FreeBuffers(s))
<1>1. PICK n \in Nat : n = Len(new)
  BY TextRows
<1>2. PICK b, g : Allocates(s, f, n, dim, b, g)
  BY AllocatePlan
<1>3. PICK a : a = Allocate(s, n, dim)
  OBVIOUS
<1>4. /\ a.cache = [buffer |-> b, dim |-> dim] /\ a.cache.buffer = b /\ a.cache.dim = dim
      /\ a.commands = s.commands /\ Plan(a, g) /\ b \in Buffers
      /\ Finally(a, g) = [Finally(s, f) EXCEPT ![b] = Blank(n * dim)]
  BY <1>2, <1>3 DEF Allocates
<1>5. FreeBuffers(s) \ {b} \subseteq FreeBuffers(a)
  BY <1>4 DEF FreeBuffers, InUse, Queue
<1>6. PICK none : none = [r \in 1 .. n |-> <<>>]
  OBVIOUS
<1>7. none \in Texts /\ Len(none) = n /\ DOMAIN none = 1 .. n /\ \A r \in 1 .. n : none[r] = <<>>
  <2>1. <<>> \in Seq(Keys)
    OBVIOUS
  <2> QED
    BY <1>6, <2>1 DEF Texts
<1>8. Does(a, g, none)
  <2>1. Finally(a, g)[b] = Blank(n * dim)
    <3>1. PICK v : v = Finally(s, f)
      OBVIOUS
    <3>2. v \in Memories
      BY <3>1, QueueType, FollowsTypes DEF Finally, Follows, Plan
    <3> QED
      BY <1>4, <3>1, <3>2 DEF Memories
  <2>2. HoldsKeys(Blank(n * dim), dim, none)
    BY <1>6, BlankHolds
  <2> QED
    BY <1>4, <2>1, <2>2 DEF Does, Content
<1>9. PICK zero \in Nat : zero = 0
  OBVIOUS
<1>10. Joins(a.cache.dim, none, zero, new, new)
  <2>1. ASSUME NEW r \in 1 .. n PROVE new[r] \in Seq(Keys) /\ Len(new[r]) <= dim
    BY <1>1, TextRows
  <2> QED
    BY <1>1, <1>4, <1>7, <1>9, <2>1 DEF Joins
<1>11. /\ Yields(Write(a, zero, new), a.cache.dim, new, FreeBuffers(a))
       /\ FreeBuffers(Write(a, zero, new)) = FreeBuffers(a)
  BY <1>1, <1>7, <1>8, <1>10, WriteYields
<1> QED
  BY <1>1, <1>3, <1>4, <1>5, <1>9, <1>11 DEF Yields

LEMMA SdpaYields ==
  ASSUME Ready, NEW s, NEW f, NEW keys \in Texts, Does(s, f, keys), NEW length \in Nat,
         \A r \in DOMAIN keys : Len(keys[r]) = length,
         NEW c, c = [op |-> "sdpa", from |-> s.cache.buffer, dim |-> s.cache.dim,
                     length |-> length, should |-> keys]
  PROVE  /\ Yields(Issue(s, c), s.cache.dim, keys, FreeBuffers(s))
         /\ FreeBuffers(Issue(s, c)) = FreeBuffers(s)
<1>1. /\ s \in Steps /\ Plan(s, f) /\ s.cache.buffer \in Buffers /\ s.cache.dim \in Nat
      /\ HoldsKeys(Finally(s, f)[s.cache.buffer], s.cache.dim, keys)
      /\ Follows(f, s.memory, Queue(s), UsedBy(s)) /\ ReadsRight(f, Queue(s)) /\ LeavesPrompt(s)
  BY DEF Does, Plan, Content, Steps, Places
<1>2. /\ c \in Sdpas /\ c \in LayerCommands /\ c.op = "sdpa" /\ c.from = s.cache.buffer
      /\ c.dim = s.cache.dim /\ c.length = length /\ c.should = keys
  BY <1>1 DEF Sdpas, LayerCommands
<1>3. BuffersOf(c) = {s.cache.buffer} /\ WritesTo(c) = {}
  BY <1>2 DEF BuffersOf, WritesTo
<1>4. s.cache.buffer \in UsedBy(s)
  BY <1>1, QueueType, UsesOf DEF UsedBy
<1>5. Finally(s, f) \in Memories
  BY <1>1, QueueType, FollowsTypes DEF Finally, Follows
<1>6. \A r \in DOMAIN keys : Row(Finally(s, f)[s.cache.buffer], s.cache.dim, r, length) = keys[r]
  <2>1. PICK x : x = Finally(s, f)[s.cache.buffer]
    OBVIOUS
  <2>2. x \in Seq(Keys) /\ HoldsKeys(x, s.cache.dim, keys)
    BY <1>1, <1>5, <2>1 DEF Memories
  <2>3. ASSUME NEW r \in DOMAIN keys PROVE Row(x, s.cache.dim, r, length) = keys[r]
    <3>1. Row(x, s.cache.dim, r, Len(keys[r])) = keys[r]
      BY <1>1, <2>2, RowIsKeys
    <3> QED
      BY <3>1
  <2> QED
    BY <2>1, <2>3
<1>7. PICK h : Issues(s, f, c, h)
  <2>1. UsedBy(s) \cup BuffersOf(c) \subseteq UsedBy(s)
    BY <1>3, <1>4
  <2>2. saved.cache.buffer # 0 => saved.cache.buffer \notin WritesTo(c)
    BY <1>3
  <2>3. \A r \in DOMAIN c.should : Row(Finally(s, f)[c.from], c.dim, r, c.length) = c.should[r]
    BY <1>2, <1>6
  <2> QED
    BY <1>1, <1>2, <2>1, <2>2, <2>3, IssuePlan
<1>12. /\ Plan(Issue(s, c), h) /\ Finally(Issue(s, c), h) = Effect(Finally(s, f), c)
       /\ Issue(s, c).cache = s.cache
       /\ FreeBuffers(Issue(s, c)) = FreeBuffers(s) \ BuffersOf(c)
  BY <1>7 DEF Issues
<1>8. PICK t : t = Issue(s, c)
  OBVIOUS
<1>9. FreeBuffers(t) = FreeBuffers(s)
  BY <1>3, <1>4, <1>12, <1>8 DEF FreeBuffers, UsedBy, Queue
<1>10. Finally(t, h) = Finally(s, f)
  <2>1. c.op \notin {"write", "move"}
    BY <1>2
  <2> QED
    BY <1>2, <1>12, <1>8, <2>1, NoEffect
<1>11. t.cache.dim = s.cache.dim /\ Does(t, h, keys)
  BY <1>1, <1>12, <1>8, <1>10 DEF Does, Content
<1> QED
  BY <1>8, <1>9, <1>11 DEF Yields

-----------------------------------------------------------------------------
(* The capacity of a larger cache.                                         *)

LEMMA DoubledIs ==
  ASSUME NEW first \in Nat \ {0}, NEW n \in Nat
  PROVE  Doubled(first, n) \in Nat /\ Doubled(first, n) > n
<1> DEFINE D(f, m) == /\ f \in [0 .. m -> Nat]
                      /\ \A i \in 0 .. m : f[i] = IF i = 0 THEN first ELSE 2 * f[i - 1]
           S == {m \in Nat : \E f : D(f, m)}
<1>1. 0 \in S
  <2>1. D([i \in 0 .. 0 |-> first], 0)
    OBVIOUS
  <2> QED
    BY <2>1
<1>2. ASSUME NEW m \in 0 .. n - 1, m \in S PROVE m + 1 \in S
  <2>1. PICK f : D(f, m)
    BY <1>2
  <2>2. PICK g : g = [i \in 0 .. m + 1 |-> IF i = m + 1 THEN 2 * f[m] ELSE f[i]]
    OBVIOUS
  <2>3. m \in Nat /\ f[m] \in Nat /\ \A i \in 0 .. m : f[i] \in Nat
    BY <2>1
  <2>4. g \in [0 .. m + 1 -> Nat]
    BY <2>2, <2>3
  <2>5. g[m + 1] = 2 * f[m] /\ \A i \in 0 .. m : g[i] = f[i]
    BY <2>2, <2>3
  <2>6. ASSUME NEW i \in 0 .. m + 1 PROVE g[i] = IF i = 0 THEN first ELSE 2 * g[i - 1]
    <3>1. CASE i = m + 1
      <4>1. i # 0 /\ i - 1 = m
        BY <2>3, <3>1
      <4> QED
        BY <2>3, <2>5, <3>1, <4>1
    <3>2. CASE i # m + 1
      <4>1. i \in 0 .. m /\ (i # 0 => i - 1 \in 0 .. m)
        BY <2>3, <3>2
      <4>2. f[i] = IF i = 0 THEN first ELSE 2 * f[i - 1]
        BY <2>1, <4>1
      <4> QED
        BY <2>5, <4>1, <4>2
    <3> QED
      BY <3>1, <3>2
  <2>7. D(g, m + 1)
    BY <2>4, <2>6
  <2> HIDE DEF D
  <2> QED
    BY <2>3, <2>7
<1>3. n \in S
  <2> HIDE DEF S
  <2> QED
    BY <1>1, <1>2, Induction
<1>4. PICK f : D(f, n)
  BY <1>3
<1> DEFINE C == CHOOSE c : c = [i \in 0 .. n |-> IF i = 0 THEN first ELSE 2 * c[i - 1]]
<1>5. f = [i \in 0 .. n |-> IF i = 0 THEN first ELSE 2 * f[i - 1]]
  BY <1>4
<1>6. C = [i \in 0 .. n |-> IF i = 0 THEN first ELSE 2 * C[i - 1]]
  BY <1>5
<1>7. Doubled(first, n) = C[n]
  BY DEF Doubled
<1> HIDE DEF C
<1> DEFINE P == {i \in 0 .. n : C[i] \in Nat /\ C[i] > i}
<1>8. \A i \in 0 .. n : C[i] = IF i = 0 THEN first ELSE 2 * C[i - 1]
  BY <1>6
<1>9. 0 \in P
  BY <1>8
<1>10. ASSUME NEW i \in 0 .. n - 1, i \in P PROVE i + 1 \in P
  <2>1. i + 1 \in 0 .. n /\ i + 1 # 0 /\ (i + 1) - 1 = i
    OBVIOUS
  <2>2. C[i + 1] = 2 * C[i]
    BY <1>8, <2>1
  <2> QED
    BY <1>10, <2>1, <2>2
<1>11. n \in P
  <2> HIDE DEF P
  <2> QED
    BY <1>9, <1>10, Induction
<1> QED
  BY <1>7, <1>11

LEMMA LargerIs ==
  ASSUME NEW s, s.cache.dim \in Nat, NEW length \in Nat
  PROVE  Larger(s, length) \in Nat /\ Larger(s, length) >= length
<1>1. PICK first : first = IF HasCapacity(s) THEN Max({MinCapacity, 2 * s.cache.dim}) ELSE MinCapacity
  OBVIOUS
<1>2. MinCapacity \in Nat \ {0}
  BY KVCacheAssumption
<1>3. Max({MinCapacity, 2 * s.cache.dim}) \in Nat \ {0}
  <2>1. \A a, b \in Nat : \E x \in {a, b} : \A y \in {a, b} : x >= y
    OBVIOUS
  <2>2. 2 * s.cache.dim \in Nat
    OBVIOUS
  <2>3. PICK a \in Nat, b \in Nat : a = MinCapacity /\ b = 2 * s.cache.dim
    BY <1>2, <2>2
  <2>4. \E x \in {a, b} : \A y \in {a, b} : x >= y
    BY <2>1
  <2>5. Max({a, b}) \in {a, b} /\ \A y \in {a, b} : Max({a, b}) >= y
    BY <2>4 DEF Max
  <2>6. Max({a, b}) \in Nat /\ Max({a, b}) >= a
    BY <2>5
  <2> QED
    BY <1>2, <2>3, <2>6
<1>4. first \in Nat \ {0}
  BY <1>1, <1>2, <1>3
<1> DEFINE T == {Doubled(first, i) : i \in 0 .. length} \cap {c \in Nat : c >= length}
<1>5. Larger(s, length) = Min(T)
  BY <1>1 DEF Larger
<1>6. T \in SUBSET Nat /\ T # {}
  <2>1. Doubled(first, length) \in Nat /\ Doubled(first, length) > length
    BY <1>4, DoubledIs
  <2>2. Doubled(first, length) \in T
    BY <2>1
  <2> QED
    BY <2>2
<1>7. \A c \in T : c \in Nat /\ c >= length
  OBVIOUS
<1> HIDE DEF T
<1>8. \E x \in T : \A y \in T : x <= y
  BY <1>6, LeastNumber
<1>9. Min(T) \in T
  BY <1>8 DEF Min
<1> QED
  BY <1>5, <1>7, <1>9

-----------------------------------------------------------------------------
(* The keys that remain.                                                   *)

Same(keys) == [r \in DOMAIN keys |-> r]
Even(keys, n) == \A r \in DOMAIN keys : Len(keys[r]) = n

(* Of these keys, n in each row, the last l.                               *)
Ends(out, keys, n, l) ==
  \A r \in DOMAIN keys : Len(out[r]) = l /\ \A j \in 1 .. l : out[r][j] = keys[r][(n - l) + j]

LEMMA SameSequence ==
  ASSUME NEW S, NEW a \in Seq(S), NEW b \in Seq(S), Len(a) = Len(b),
         \A i \in 1 .. Len(a) : a[i] = b[i]
  PROVE  a = b
OBVIOUS

LEMMA LastKeysIs ==
  ASSUME NEW row \in Seq(Keys), NEW n \in 0 .. Len(row)
  PROVE  /\ LastKeys(row, n) \in Seq(Keys) /\ Len(LastKeys(row, n)) = n
         /\ \A j \in 1 .. n : LastKeys(row, n)[j] = row[(Len(row) - n) + j]
<1>1. PICK skip \in Nat : skip = Len(row) - n
  OBVIOUS
<1>2. n \in Nat /\ Len(row) = skip + n
  BY <1>1
<1>3. /\ SubSeq(row, skip + 1, skip + n) \in Seq(Keys)
      /\ Len(SubSeq(row, skip + 1, skip + n)) = n
      /\ \A j \in 1 .. n : SubSeq(row, skip + 1, skip + n)[j] = row[skip + j]
  BY <1>2, Part
<1>4. LastKeys(row, n) = SubSeq(row, skip + 1, skip + n)
  BY <1>1, <1>2 DEF LastKeys
<1> QED
  BY <1>1, <1>3, <1>4

LEMMA HeldIs ==
  ASSUME NEW keys \in Texts, NEW dim \in Nat
  PROVE  /\ Held(dim, keys) \in Texts /\ Len(Held(dim, keys)) = Len(keys)
         /\ DOMAIN Held(dim, keys) = DOMAIN keys
         /\ \A r \in DOMAIN keys :
              /\ Held(dim, keys)[r] = LastKeys(keys[r], Least(dim, Len(keys[r])))
              /\ Least(dim, Len(keys[r])) \in 0 .. Len(keys[r])
              /\ Len(Held(dim, keys)[r]) = Least(dim, Len(keys[r]))
<1> DEFINE ends(r) == LastKeys(keys[r], Least(dim, Len(keys[r])))
<1>1. Held(dim, keys) = [r \in 1 .. Len(keys) |-> ends(r)] /\ DOMAIN keys = 1 .. Len(keys)
  BY TextRows DEF Held
<1>2. ASSUME NEW r \in 1 .. Len(keys)
      PROVE  ends(r) \in Seq(Keys) /\ Least(dim, Len(keys[r])) \in 0 .. Len(keys[r])
             /\ Len(ends(r)) = Least(dim, Len(keys[r]))
  <2>1. keys[r] \in Seq(Keys)
    BY TextRows
  <2>2. Least(dim, Len(keys[r])) \in 0 .. Len(keys[r])
    BY <2>1 DEF Least
  <2> QED
    BY <2>1, <2>2, LastKeysIs
<1>3. \A r \in 1 .. Len(keys) : Held(dim, keys)[r] = ends(r)
  BY <1>1
<1> HIDE DEF ends
<1>4. Held(dim, keys) \in Texts /\ Len(Held(dim, keys)) = Len(keys)
  <2>1. Len(keys) \in Nat
    BY TextRows
  <2> QED
    BY <1>1, <1>2, <2>1 DEF Texts
<1> QED
  BY <1>1, <1>2, <1>3, <1>4 DEF ends

LEMMA HeldAll ==
  ASSUME NEW keys \in Texts, NEW n \in Nat, Even(keys, n), NEW dim \in Nat, n <= dim
  PROVE  Held(dim, keys) = keys
<1>1. ASSUME NEW r \in DOMAIN keys PROVE Held(dim, keys)[r] = keys[r]
  <2>1. PICK row \in Seq(Keys) : row = keys[r] /\ Len(row) = n
    BY TextRows DEF Even
  <2>2. Least(dim, n) = n /\ n \in 0 .. Len(row)
    BY <2>1 DEF Least
  <2>3. Held(dim, keys)[r] = LastKeys(row, n)
    BY <2>1, <2>2, HeldIs
  <2>4. LastKeys(row, n) \in Seq(Keys) /\ Len(LastKeys(row, n)) = n
        /\ \A j \in 1 .. n : LastKeys(row, n)[j] = row[(Len(row) - n) + j]
    BY <2>2, LastKeysIs
  <2>5. \A j \in 1 .. n : (Len(row) - n) + j = j
    BY <2>1
  <2>6. PICK l : l = LastKeys(row, n)
    OBVIOUS
  <2>7. l \in Seq(Keys) /\ Len(l) = n /\ \A j \in 1 .. n : l[j] = row[j]
    BY <2>4, <2>5, <2>6
  <2>8. l = row
    BY <2>1, <2>7
  <2> QED
    BY <2>1, <2>3, <2>6, <2>8
<1>2. PICK held : held = Held(dim, keys)
  OBVIOUS
<1>3. held \in Seq(Seq(Keys)) /\ keys \in Seq(Seq(Keys)) /\ Len(held) = Len(keys)
      /\ \A r \in 1 .. Len(held) : held[r] = keys[r]
  BY <1>1, <1>2, HeldIs, TextRows DEF Texts
<1>4. held = keys
  BY ONLY <1>3, SameSequence
<1> QED
  BY <1>2, <1>4

LEMMA HeldEven ==
  ASSUME NEW keys \in Texts, NEW n \in Nat, Even(keys, n), NEW dim \in Nat
  PROVE  /\ Even(Held(dim, keys), Least(dim, n)) /\ Least(dim, n) \in 0 .. n
         /\ Least(dim, n) <= dim
         /\ Ends(Held(dim, keys), keys, n, Least(dim, n))
<1>1. Least(dim, n) \in 0 .. n /\ Least(dim, n) <= dim
  BY DEF Least
<1>2. Even(Held(dim, keys), Least(dim, n))
  BY HeldIs DEF Even
<1>3. ASSUME NEW r \in DOMAIN keys, NEW j \in 1 .. Least(dim, n)
      PROVE  Held(dim, keys)[r][j] = keys[r][(n - Least(dim, n)) + j]
  <2>1. PICK row \in Seq(Keys), l \in 0 .. n : row = keys[r] /\ Len(row) = n /\ l = Least(dim, n)
    BY <1>1, TextRows DEF Even
  <2>2. Held(dim, keys)[r] = LastKeys(row, l)
    BY <2>1, HeldIs
  <2>3. LastKeys(row, l)[j] = row[(Len(row) - l) + j]
    BY <2>1, LastKeysIs
  <2> QED
    BY <2>1, <2>2, <2>3
<1>4. \A r \in DOMAIN keys : Len(Held(dim, keys)[r]) = Least(dim, n)
  BY HeldIs DEF Even
<1> QED
  BY <1>1, <1>2, <1>3, <1>4 DEF Ends

LEMMA NoneIs ==
  ASSUME NEW rows \in Seq(Nat)
  PROVE  NoKeys(rows) \in Texts /\ Len(NoKeys(rows)) = Len(rows)
         /\ \A r \in DOMAIN rows : NoKeys(rows)[r] = <<>> /\ Len(NoKeys(rows)[r]) = 0
<1>1. <<>> \in Seq(Keys)
  OBVIOUS
<1>2. NoKeys(rows) = [r \in 1 .. Len(rows) |-> <<>>]
  BY DEF NoKeys
<1> QED
  BY <1>1, <1>2 DEF Texts

LEMMA SameIs ==
  ASSUME NEW keys \in Texts
  PROVE  Same(keys) \in Seq(Nat) /\ Len(Same(keys)) = Len(keys) /\ DOMAIN Same(keys) = DOMAIN keys
         /\ \A r \in DOMAIN keys : Same(keys)[r] = r
<1>1. Same(keys) = [r \in 1 .. Len(keys) |-> r] /\ DOMAIN keys = 1 .. Len(keys) /\ Len(keys) \in Nat
  BY TextRows DEF Same
<1> QED
  BY <1>1

(* A smaller part of the keys ...                                          *)
LEMMA SlideTakes ==
  ASSUME NEW keys \in Texts, NEW n \in Nat, Even(keys, n), NEW first \in Nat, NEW keep \in Nat,
         first + keep <= n
  PROVE  TakesOver(Held(first + keep, keys), Same(keys), first, keep, NoKeys(Same(keys)),
                   Held(keep, keys))
<1>1. PICK dim \in Nat : dim = first + keep
  OBVIOUS
<1>2. PICK old \in Texts, out \in Texts : old = Held(dim, keys) /\ out = Held(keep, keys)
  BY <1>1, HeldIs
<1>3. /\ Len(old) = Len(keys) /\ Len(out) = Len(keys)
      /\ DOMAIN old = DOMAIN keys /\ DOMAIN out = DOMAIN keys
  BY <1>2, HeldIs
<1>4. Least(dim, n) = dim /\ Least(keep, n) = keep
  BY <1>1 DEF Least
<1>5. Ends(old, keys, n, dim)
  BY <1>2, <1>4, HeldEven
<1>6. Ends(out, keys, n, keep)
  BY <1>2, <1>4, HeldEven
<1>7. \A r \in DOMAIN keys : Len(old[r]) = dim /\ Len(out[r]) = keep
  BY <1>5, <1>6 DEF Ends
<1>8. ASSUME NEW r \in DOMAIN keys, NEW j \in 1 .. keep
      PROVE  first + j <= Len(old[r]) /\ out[r][j] = old[r][first + j]
  <2>1. first + j \in 1 .. dim /\ (n - dim) + (first + j) = (n - keep) + j
    BY <1>1
  <2>2. old[r][first + j] = keys[r][(n - dim) + (first + j)]
    BY <1>5, <2>1 DEF Ends
  <2>3. out[r][j] = keys[r][(n - keep) + j]
    BY <1>6 DEF Ends
  <2> QED
    BY <1>7, <2>1, <2>2, <2>3
<1>9. PICK none, rows : none = NoKeys(rows) /\ rows = Same(keys)
  OBVIOUS
<1>10. /\ rows \in Seq(Nat) /\ Len(rows) = Len(keys) /\ DOMAIN rows = DOMAIN keys
       /\ \A r \in DOMAIN keys : rows[r] = r
       /\ Len(none) = Len(rows) /\ \A r \in DOMAIN keys : Len(none[r]) = 0
  BY <1>9, SameIs, NoneIs
<1>11. TakesOver(old, rows, first, keep, none, out)
  BY <1>3, <1>7, <1>8, <1>10 DEF TakesOver
<1> QED
  BY <1>1, <1>2, <1>9, <1>11

(* ... the same ones of other rows ...                                     *)
LEMMA GatherTakes ==
  ASSUME NEW keys \in Texts, NEW n \in Nat, Even(keys, n), NEW dim \in Nat,
         NEW rows \in Seq(Nat), \A r \in DOMAIN rows : rows[r] \in DOMAIN keys,
         NEW out \in Texts, Len(out) = Len(rows), \A r \in DOMAIN rows : out[r] = keys[rows[r]]
  PROVE  TakesOver(Held(dim, keys), rows, 0, dim, NoKeys(rows), Held(dim, out)) /\ Even(out, n)
<1>1. PICK old \in Texts, new \in Texts : old = Held(dim, keys) /\ new = Held(dim, out)
  BY HeldIs
<1>2. /\ DOMAIN old = DOMAIN keys /\ DOMAIN out = DOMAIN rows /\ DOMAIN new = DOMAIN rows
      /\ Len(new) = Len(rows)
  BY <1>1, HeldIs, TextRows
<1>3. Even(out, n)
  BY <1>2 DEF Even
<1>4. PICK l \in 0 .. n : l = Least(dim, n) /\ l <= dim
  BY HeldEven
<1>5. Ends(old, keys, n, l)
  BY <1>1, <1>4, HeldEven
<1>6. Ends(new, out, n, l)
  BY <1>1, <1>3, <1>4, HeldEven
<1>7. ASSUME NEW r \in DOMAIN rows
      PROVE  /\ rows[r] \in DOMAIN old /\ Len(new[r]) = l /\ Len(old[rows[r]]) = l
             /\ \A j \in 1 .. l : new[r][j] = old[rows[r]][j]
  <2>1. rows[r] \in DOMAIN keys /\ r \in DOMAIN out
    BY <1>2
  <2>2. PICK i \in DOMAIN keys : i = rows[r]
    BY <2>1
  <2>3. Len(old[i]) = l /\ \A j \in 1 .. l : old[i][j] = keys[i][(n - l) + j]
    BY <1>5 DEF Ends
  <2>4. Len(new[r]) = l /\ \A j \in 1 .. l : new[r][j] = out[r][(n - l) + j]
    BY <1>6, <2>1 DEF Ends
  <2>5. out[r] = keys[i]
    BY <2>2
  <2> QED
    BY <1>2, <2>2, <2>3, <2>4, <2>5
<1>8. PICK none : none = NoKeys(rows)
  OBVIOUS
<1>9. Len(none) = Len(rows) /\ \A r \in DOMAIN rows : Len(none[r]) = 0
  BY <1>8, NoneIs
<1>10. TakesOver(old, rows, 0, dim, none, new)
  <2>1. ASSUME NEW r \in DOMAIN rows
        PROVE  /\ rows[r] \in DOMAIN old /\ Len(new[r]) <= dim + Len(none[r])
               /\ \A j \in 1 .. Len(new[r]) :
                    j <= dim /\ 0 + j = j /\ j <= Len(old[rows[r]]) /\ new[r][j] = old[rows[r]][j]
    BY <1>4, <1>7, <1>9
  <2> QED
    BY <1>2, <1>9, <2>1 DEF TakesOver
<1> QED
  BY <1>1, <1>3, <1>8, <1>10

(* ... and new ones behind them.                                           *)
Joined(keys, new, joined) ==
  /\ Len(new) = Len(keys) /\ Len(joined) = Len(keys)
  /\ \A r \in DOMAIN keys : joined[r] = keys[r] \o new[r]

LEMMA JoinedIs ==
  ASSUME NEW keys \in Texts, NEW n \in Nat, Even(keys, n),
         NEW new \in Texts, NEW more \in Nat, Even(new, more),
         NEW joined \in Texts, Joined(keys, new, joined)
  PROVE  /\ Even(joined, n + more)
         /\ DOMAIN new = DOMAIN keys /\ DOMAIN joined = DOMAIN keys
         /\ \A r \in DOMAIN keys :
              /\ Len(keys[r]) = n /\ Len(new[r]) = more /\ Len(joined[r]) = n + more
              /\ \A j \in 1 .. n + more : joined[r][j] = IF j <= n THEN keys[r][j] ELSE new[r][j - n]
<1>0. DOMAIN new = DOMAIN keys /\ DOMAIN joined = DOMAIN keys
  BY TextRows DEF Joined
<1>1. ASSUME NEW r \in DOMAIN keys
      PROVE  /\ Len(keys[r]) = n /\ Len(new[r]) = more /\ Len(joined[r]) = n + more
             /\ \A j \in 1 .. n + more : joined[r][j] = IF j <= n THEN keys[r][j] ELSE new[r][j - n]
  <2>1. PICK a \in Seq(Keys), b \in Seq(Keys) : a = keys[r] /\ b = new[r] /\ Len(a) = n /\ Len(b) = more
    BY <1>0, TextRows DEF Even
  <2>2. Len(a \o b) = n + more
        /\ \A j \in 1 .. n + more : (a \o b)[j] = IF j <= n THEN a[j] ELSE b[j - n]
    <3>1. a \in Seq(Keys) /\ b \in Seq(Keys) /\ Len(a) = n /\ Len(b) = more
      BY <2>1
    <3>2. Len(a \o b) = Len(a) + Len(b)
          /\ \A j \in 1 .. Len(a) + Len(b) : (a \o b)[j] = IF j <= Len(a) THEN a[j] ELSE b[j - Len(a)]
      BY ONLY <3>1, Concatenation
    <3> QED
      BY <3>1, <3>2
  <2>3. joined[r] = a \o b
    BY <2>1 DEF Joined
  <2> QED
    BY <2>1, <2>2, <2>3
<1>2. Even(joined, n + more)
  BY <1>0, <1>1 DEF Even
<1> QED
  BY <1>0, <1>1, <1>2

LEMMA GrowTakes ==
  ASSUME NEW keys \in Texts, NEW n \in Nat, Even(keys, n), NEW dim \in Nat, dim <= n,
         NEW new \in Texts, NEW more \in Nat, Even(new, more),
         NEW joined \in Texts, Joined(keys, new, joined)
  PROVE  TakesOver(Held(dim, keys), Same(keys), 0, dim, new, Held(dim + more, joined))
<1>0. DOMAIN new = DOMAIN keys /\ DOMAIN joined = DOMAIN keys /\ Len(new) = Len(keys)
      /\ Len(joined) = Len(keys)
  BY JoinedIs DEF Joined
<1>1. \A r \in DOMAIN keys :
        /\ Len(keys[r]) = n /\ Len(new[r]) = more /\ Len(joined[r]) = n + more
        /\ \A j \in 1 .. n + more : joined[r][j] = IF j <= n THEN keys[r][j] ELSE new[r][j - n]
  BY JoinedIs
<1>2. Even(joined, n + more)
  BY JoinedIs
<1>3. PICK big \in Nat, total \in Nat : big = dim + more /\ total = n + more
  OBVIOUS
<1>4. PICK old \in Texts, out \in Texts : old = Held(dim, keys) /\ out = Held(big, joined)
  BY HeldIs
<1>5. /\ Len(old) = Len(keys) /\ Len(out) = Len(keys)
      /\ DOMAIN old = DOMAIN keys /\ DOMAIN out = DOMAIN keys
  BY <1>0, <1>4, HeldIs
<1>6. Least(dim, n) = dim /\ Least(big, total) = big
  BY <1>3 DEF Least
<1>7. Ends(old, keys, n, dim)
  BY <1>4, <1>6, HeldEven
<1>8. Ends(out, joined, total, big)
  <2>1. Even(joined, total)
    BY <1>2, <1>3
  <2> QED
    BY <1>4, <1>6, <2>1, HeldEven
<1>9. \A r \in DOMAIN keys : Len(old[r]) = dim /\ Len(out[r]) = big
  BY <1>0, <1>7, <1>8 DEF Ends
<1>10. ASSUME NEW r \in DOMAIN keys, NEW j \in 1 .. big
       PROVE  IF j <= dim THEN 0 + j <= Len(old[r]) /\ out[r][j] = old[r][0 + j]
              ELSE out[r][j] = new[r][j - dim]
  <2>1. PICK i \in Int : i = (n - dim) + j
    OBVIOUS
  <2>2. i \in 1 .. n + more /\ out[r][j] = joined[r][i]
    <3>1. out[r][j] = joined[r][(total - big) + j]
      BY <1>0, <1>8 DEF Ends
    <3>2. (total - big) + j = i /\ i \in 1 .. n + more
      BY <1>3, <2>1
    <3>3. joined[r][(total - big) + j] = joined[r][i]
      BY <3>2
    <3> QED
      BY <3>1, <3>2, <3>3
  <2>3. joined[r][i] = IF i <= n THEN keys[r][i] ELSE new[r][i - n]
    BY <1>1, <2>2
  <2>4. CASE j <= dim
    <3>1. i <= n /\ j \in 1 .. dim /\ 0 + j = j
      BY <2>1, <2>4
    <3> QED
      BY <1>7, <1>9, <2>1, <2>2, <2>3, <2>4, <3>1 DEF Ends
  <2>5. CASE ~(j <= dim)
    <3>1. ~(i <= n) /\ i - n = j - dim
      BY <2>1, <2>5
    <3> QED
      BY <2>2, <2>3, <2>5, <3>1
  <2> QED
    BY <2>4, <2>5
<1>11. PICK rows : rows = Same(keys)
  OBVIOUS
<1>12. /\ rows \in Seq(Nat) /\ Len(rows) = Len(keys) /\ DOMAIN rows = DOMAIN keys
       /\ \A r \in DOMAIN keys : rows[r] = r
  BY <1>11, SameIs
<1>13. TakesOver(old, rows, 0, dim, new, out)
  <2>1. \A r \in DOMAIN keys : Len(new[r]) = more
    BY <1>1
  <2>2. Len(out) = Len(rows) /\ Len(new) = Len(rows)
    BY <1>0, <1>5, <1>12
  <2>3. \A r \in DOMAIN rows : rows[r] = r /\ r \in DOMAIN old /\ Len(out[r]) = dim + Len(new[r])
    BY <1>3, <1>5, <1>9, <1>12, <2>1
  <2>4. ASSUME NEW r \in DOMAIN rows, NEW j \in 1 .. Len(out[r])
        PROVE  IF j <= dim THEN 0 + j <= Len(old[rows[r]]) /\ out[r][j] = old[rows[r]][0 + j]
               ELSE out[r][j] = new[r][j - dim]
    BY <1>9, <1>10, <1>12, <2>3
  <2>5. \A r \in DOMAIN rows : Len(out[r]) <= dim + Len(new[r])
    BY <1>3, <1>9, <1>12, <2>3
  <2> QED
    BY <2>2, <2>3, <2>4, <2>5 DEF TakesOver
<1> QED
  BY <1>3, <1>4, <1>11, <1>13

-----------------------------------------------------------------------------
(* The whole operator.                                                     *)

HasTwo(T) == \E x, y \in T : x # y
HasThree(T) == \E x, y, z \in T : x # y /\ y # z /\ x # z

LEMMA LeavesRoom ==
  ASSUME NEW T, NEW U, NEW b, T \ {b} \subseteq U
  PROVE  /\ HasThree(T) => HasTwo(U) /\ T # {}
         /\ HasTwo(T) => U # {} /\ T # {}
BY DEF HasTwo, HasThree

LEMMA RoomForThree == HasRoom => HasThree(FreeBuffers(Start))
<1> SUFFICES ASSUME HasRoom PROVE HasThree(FreeBuffers(Start))
  OBVIOUS
<1>1. PICK T : T = FreeBuffers(Start)
  OBVIOUS
<1>2. MaxBuffers \in Nat /\ T \subseteq 1 .. MaxBuffers
  BY <1>1, KVCacheAssumption DEF FreeBuffers
<1>3. IsFiniteSet(T) /\ Cardinality(T) \in Nat
  <2>1. IsFiniteSet(1 .. MaxBuffers)
    BY <1>2, FS_Interval
  <2> QED
    BY <1>2, <2>1, FS_Subset, FS_CardinalityType
<1>4. Cardinality(T) >= 3
  BY <1>1 DEF HasRoom
<1>5. PICK x \in T : TRUE
  BY <1>3, <1>4, FS_EmptySet
<1>6. IsFiniteSet(T \ {x}) /\ Cardinality(T \ {x}) = Cardinality(T) - 1
  BY <1>3, FS_RemoveElement
<1>7. PICK y \in T \ {x} : TRUE
  BY <1>3, <1>4, <1>6, FS_EmptySet
<1>8. IsFiniteSet((T \ {x}) \ {y}) /\ Cardinality((T \ {x}) \ {y}) = Cardinality(T) - 2
  BY <1>3, <1>6, FS_RemoveElement
<1>9. PICK z \in (T \ {x}) \ {y} : TRUE
  BY <1>3, <1>4, <1>8, FS_EmptySet
<1> QED
  BY <1>1, <1>5, <1>7, <1>9 DEF HasThree

(* The state in which an operator starts.                                  *)
Situation(f) ==
  /\ Ready /\ window \in Nat /\ cache \in Places /\ past \in Texts /\ PlaceFits(cache, past)
  /\ Plan(Start, f)
  /\ cache.buffer # 0 => Does(Start, f, Held(cache.dim, past))

LEMMA PastIs ==
  ASSUME past \in Texts, PlaceFits(cache, past), NEW n \in Nat
  PROVE  /\ Offset \in Nat /\ Even(past, Offset) /\ past # <<>>
         /\ NewKeys(n) \in Texts /\ Len(NewKeys(n)) = Len(past) /\ Even(NewKeys(n), n)
         /\ WithNew(n) \in Texts /\ Len(WithNew(n)) = Len(past)
         /\ DOMAIN WithNew(n) = DOMAIN past
         /\ Joined(past, NewKeys(n), WithNew(n))
         /\ Even(WithNew(n), Offset + n)
         /\ AllRows = Same(past) /\ AllRows = Same(WithNew(n)) /\ AllRows \in Seq(Nat)
<1>1. DOMAIN past = 1 .. Len(past) /\ Len(past) \in Nat /\ past # <<>>
  BY TextRows DEF PlaceFits
<1>2. 1 \in DOMAIN past
  BY <1>1
<1>3. Offset \in Nat /\ Even(past, Offset)
  BY <1>2, TextRows DEF PlaceFits, Offset, Even
<1> DEFINE new(r) == [i \in 1 .. n |-> <<Offset + i, r>>]
<1>4. NewKeys(n) = [r \in 1 .. Len(past) |-> new(r)]
  BY <1>1 DEF NewKeys, Rows
<1>5. ASSUME NEW r \in 1 .. Len(past) PROVE new(r) \in Seq(Keys) /\ Len(new(r)) = n
  <2>1. \A i \in 1 .. n : <<Offset + i, r>> \in Keys
    BY <1>3 DEF Keys
  <2> QED
    BY <2>1
<1> HIDE DEF new
<1>6. NewKeys(n) \in Texts /\ Len(NewKeys(n)) = Len(past)
  BY <1>1, <1>4, <1>5 DEF Texts
<1>7. Even(NewKeys(n), n)
  BY <1>4, <1>5 DEF Even
<1>8. PICK keys \in Texts : keys = NewKeys(n) /\ Len(keys) = Len(past)
  BY <1>6
<1>9. WithNew(n) = [r \in 1 .. Len(past) |-> past[r] \o keys[r]]
  BY <1>1, <1>8 DEF WithNew, Rows
<1>10. ASSUME NEW r \in 1 .. Len(past) PROVE past[r] \o keys[r] \in Seq(Keys)
  <2>1. PICK a \in Seq(Keys), b \in Seq(Keys) : a = past[r] /\ b = keys[r]
    BY <1>8, TextRows
  <2>2. a \o b \in Seq(Keys)
    OBVIOUS
  <2> QED
    BY <2>1, <2>2
<1>11. WithNew(n) \in Texts /\ Len(WithNew(n)) = Len(past) /\ DOMAIN WithNew(n) = DOMAIN past
       /\ \A r \in DOMAIN past : WithNew(n)[r] = past[r] \o keys[r]
  BY <1>1, <1>9, <1>10 DEF Texts
<1>14. Joined(past, NewKeys(n), WithNew(n))
  BY <1>8, <1>11 DEF Joined
<1>12. Even(WithNew(n), Offset + n)
  BY <1>3, <1>6, <1>7, <1>11, <1>14, JoinedIs
<1>13. AllRows = Same(past) /\ AllRows = Same(WithNew(n)) /\ AllRows \in Seq(Nat)
  BY <1>11, SameIs DEF AllRows, Rows, Same
<1> QED
  BY <1>1, <1>3, <1>6, <1>7, <1>11, <1>12, <1>13, <1>14

LEMMA StartIs ==
  /\ Start.cache = cache /\ Start.memory = memory /\ Start.commands = <<>>
BY DEF Start

LEMMA CacheIsLong ==
  ASSUME NEW f, Situation(f), cache.buffer # 0
  PROVE  /\ cache.dim \in Nat /\ Offset \in Nat /\ Offset # 0
         /\ window = 0 => cache.dim >= Offset
         /\ window > 0 => cache.dim = Least(window, Offset) /\ cache.dim <= Offset
         /\ HasCapacity(Start) <=> cache.dim > Offset
<1>1. cache.dim \in Nat /\ Offset \in Nat /\ window \in Nat
  BY PastIs DEF Situation, Places
<1>2. HasCapacity(Start) <=> cache.dim > Offset
  BY StartIs DEF HasCapacity
<1> QED
  BY <1>1, <1>2 DEF Situation, PlaceFits, Offset, Least

LEMMA StridedYields ==
  ASSUME NEW f, Situation(f), window = 0, NEW n \in Nat \ {0}, FreeBuffers(Start) # {}, NEW fused
  PROVE  \E dim \in Nat : /\ dim >= Offset + n
                          /\ Yields(Strided(Start, n, fused), dim, WithNew(n), FreeBuffers(Start))
<1>1. PICK o \in Nat, new \in Texts, all \in Texts : o = Offset /\ new = NewKeys(n) /\ all = WithNew(n)
  BY PastIs DEF Situation
<1>2. /\ Even(past, o) /\ past # <<>> /\ Len(new) = Len(past) /\ Even(new, n)
      /\ Len(all) = Len(past) /\ DOMAIN all = DOMAIN past /\ past \in Texts
      /\ Joined(past, new, all) /\ Even(new, n)
      /\ Even(all, o + n) /\ AllRows = Same(past) /\ AllRows \in Seq(Nat)
  BY <1>1, PastIs DEF Situation
<1>3. DOMAIN new = DOMAIN past /\ \A r \in DOMAIN past : Len(past[r]) = o /\ Len(new[r]) = n /\ Len(all[r]) = o + n
  BY <1>2, TextRows DEF Even
<1>9. \A r \in DOMAIN past : all[r] = past[r] \o new[r]
  BY <1>2 DEF Joined
<1>4. Ready /\ Plan(Start, f) /\ (cache.buffer # 0 => Does(Start, f, Held(cache.dim, past)))
  BY DEF Situation
<1>5. PICK free : free = FreeBuffers(Start)
  OBVIOUS
<1>6. CASE HasCapacity(Start) /\ cache.dim >= Offset + n
  <2>1. cache.buffer # 0 /\ cache.dim \in Nat
    BY <1>6, StartIs DEF HasCapacity, Situation, Places
  <2>2. Held(cache.dim, past) = past
    BY <1>1, <1>2, <1>6, <2>1, HeldAll
  <2>3. Does(Start, f, past)
    BY <1>4, <2>1, <2>2
  <2>4. Joins(Start.cache.dim, past, o, new, all)
    BY <1>1, <1>2, <1>3, <1>6, <1>9, StartIs DEF Joins
  <2>5. Yields(Write(Start, o, new), Start.cache.dim, all, FreeBuffers(Start))
    BY <1>2, <1>4, <2>3, <2>4, WriteYields
  <2>6. Strided(Start, n, fused) = Write(Start, o, new)
    BY <1>1, <1>6, StartIs DEF Strided
  <2> QED
    BY <1>1, <1>6, <2>1, <2>5, <2>6, StartIs
<1>7. CASE ~(HasCapacity(Start) /\ cache.dim >= Offset + n) /\ Offset = 0
  <2>1. PICK dim : dim = Larger(Start, n)
    OBVIOUS
  <2>2. dim \in Nat /\ dim >= n
    <3>1. Start.cache.dim \in Nat
      BY StartIs DEF Situation, Places
    <3> QED
      BY <2>1, <3>1, LargerIs
  <2>3. new = all
    <3>1. ASSUME NEW r \in 1 .. Len(new) PROVE new[r] = all[r]
      <4>1. PICK a \in Seq(Keys), b \in Seq(Keys) : a = past[r] /\ b = new[r] /\ Len(a) = 0
        BY <1>1, <1>2, <1>3, <1>7, TextRows
      <4>2. a \o b = b
        <5>1. a = <<>> /\ b \in Seq(Keys)
          BY <4>1
        <5> QED
          BY <5>1
      <4>3. r \in DOMAIN past
        BY <1>3, TextRows
      <4> QED
        BY <1>9, <4>1, <4>2, <4>3
    <3>2. new \in Seq(Seq(Keys)) /\ all \in Seq(Seq(Keys)) /\ Len(new) = Len(all)
          /\ \A r \in 1 .. Len(new) : new[r] = all[r]
      BY <1>2, <3>1 DEF Texts
    <3> QED
      BY ONLY <3>2, SameSequence
  <2>4. \A r \in DOMAIN new : Len(new[r]) <= dim
    BY <1>3, <2>2
  <2>5. Yields(Write(Allocate(Start, Len(new), dim), 0, new), dim, new, FreeBuffers(Start))
    BY <1>4, <2>2, <2>4, FreshYields
  <2>6. Strided(Start, n, fused) = Write(Allocate(Start, Len(new), dim), 0, new)
    BY <1>1, <1>2, <1>7, <2>1, StartIs DEF Strided
  <2> QED
    BY <1>1, <1>7, <2>2, <2>3, <2>5, <2>6
<1>8. CASE ~(HasCapacity(Start) /\ cache.dim >= Offset + n) /\ Offset # 0
  <2>1. cache.buffer # 0
    BY <1>8 DEF Situation, PlaceFits, Offset
  <2>2. cache.dim \in Nat /\ cache.dim >= o /\ (HasCapacity(Start) <=> cache.dim > o)
    BY <1>1, <2>1, CacheIsLong
  <2>3. PICK dim : dim = Larger(Start, o + n)
    OBVIOUS
  <2>4. dim \in Nat /\ dim >= o + n
    BY <2>2, <2>3, StartIs, LargerIs
  <2>5. OldCapacity(Start, fused) = Start.cache.dim
    BY <1>1, <2>2, StartIs DEF OldCapacity
  <2>6. Held(cache.dim, past) = past /\ Held(o, past) = past /\ Held(o + n, all) = all
    BY <1>2, <2>2, HeldAll
  <2>7. Does(Start, f, past)
    BY <1>4, <2>1, <2>6
  <2>8. TakesOver(past, AllRows, 0, o, new, all)
    <3>1. TakesOver(Held(o, past), Same(past), 0, o, new, Held(o + n, all))
      BY <1>2, GrowTakes
    <3> QED
      BY <1>2, <2>6, <3>1
  <2>9. \A r \in DOMAIN all : Len(all[r]) <= dim
    BY <1>2, <1>3, <2>4
  <2>10. Yields(Move(Start, dim, Start.cache.dim, AllRows, 0, o, new), dim, all, FreeBuffers(Start))
    BY <1>2, <1>4, <2>4, <2>7, <2>8, <2>9, MoveYields
  <2>11. Strided(Start, n, fused) = Move(Start, dim, Start.cache.dim, AllRows, 0, o, new)
    BY <1>1, <1>8, <2>3, <2>5, StartIs DEF Strided
  <2> QED
    BY <1>1, <2>4, <2>10, <2>11
<1> QED
  BY <1>6, <1>7, <1>8

(* The dimension of the cache without a capacity.                          *)
Compacted == IF window = 0 THEN Offset ELSE Least(window, Offset)

LEMMA CompactYields ==
  ASSUME NEW f, Situation(f), cache.buffer # 0, FreeBuffers(Start) # {}
  PROVE  Yields(Compact(Start), Compacted, Held(Compacted, past), FreeBuffers(Start))
<1>1. PICK o \in Nat : o = Offset
  BY PastIs DEF Situation
<1>2. Even(past, o) /\ past \in Texts /\ AllRows = Same(past) /\ AllRows \in Seq(Nat)
  <2>1. 0 \in Nat
    OBVIOUS
  <2> QED
    BY <1>1, <2>1, PastIs DEF Situation
<1>3. /\ cache.dim \in Nat /\ window \in Nat
      /\ window = 0 => cache.dim >= o
      /\ window > 0 => cache.dim = Least(window, o) /\ cache.dim <= o
      /\ HasCapacity(Start) <=> cache.dim > o
  BY <1>1, CacheIsLong DEF Situation
<1>4. Ready /\ Plan(Start, f) /\ Does(Start, f, Held(cache.dim, past))
  BY DEF Situation
<1>5. CASE HasCapacity(Start)
  <2>1. window = 0 /\ Compacted = o
    BY <1>1, <1>3, <1>5 DEF Compacted
  <2>2. Held(cache.dim, past) = past /\ Held(o, past) = past
    BY <1>2, <1>3, <1>5, HeldAll
  <2>3. Does(Start, f, past)
    BY <1>4, <2>2
  <2>4. PICK new : new = NoKeys(AllRows)
    OBVIOUS
  <2>5. new \in Texts
    BY <1>2, <2>4, NoneIs
  <2>6. TakesOver(past, AllRows, 0, o, new, past)
    <3>1. PICK zero \in Nat : zero = 0
      OBVIOUS
    <3>2. zero + o = o
      BY <3>1
    <3>3. TakesOver(Held(zero + o, past), Same(past), zero, o, NoKeys(Same(past)), Held(o, past))
      BY <1>2, <3>2, SlideTakes
    <3> QED
      BY <1>2, <2>2, <2>4, <3>1, <3>2, <3>3
  <2>7. \A r \in DOMAIN past : Len(past[r]) <= o
    BY <1>2 DEF Even
  <2>8. Yields(Move(Start, o, Start.cache.dim, AllRows, 0, o, new), o, past, FreeBuffers(Start))
    BY <1>2, <1>4, <2>3, <2>5, <2>6, <2>7, MoveYields
  <2>9. Compact(Start) = Move(Start, o, Start.cache.dim, AllRows, 0, o, new)
    BY <1>1, <1>5, <2>4, StartIs DEF Compact
  <2> QED
    BY <2>1, <2>2, <2>8, <2>9
<1>6. CASE ~HasCapacity(Start)
  <2>1. Compact(Start) = Start
    BY <1>6 DEF Compact
  <2>2. cache.dim = Compacted
    BY <1>1, <1>3, <1>6 DEF Compacted
  <2> QED
    BY <1>4, <2>1, <2>2, StartIs DEF Yields
<1> QED
  BY <1>5, <1>6

LEMMA ConcatYields ==
  ASSUME NEW f, Situation(f), NEW n \in Nat, NEW s, NEW g, NEW dim \in Nat, dim <= Offset,
         s.cache.dim = dim, Does(s, g, Held(dim, past)), FreeBuffers(s) # {}
  PROVE  Yields(Concat(s, n), dim + n, Held(dim + n, WithNew(n)), FreeBuffers(s))
<1>1. PICK o \in Nat, new \in Texts, all \in Texts : o = Offset /\ new = NewKeys(n) /\ all = WithNew(n)
  BY PastIs DEF Situation
<1>2. /\ Even(past, o) /\ Len(new) = Len(past) /\ Even(new, n) /\ past \in Texts /\ Ready
      /\ Joined(past, new, all) /\ AllRows = Same(past) /\ AllRows \in Seq(Nat)
      /\ Even(all, o + n) /\ dim <= o
  BY <1>1, PastIs DEF Situation
<1>3. PICK old \in Texts, big \in Nat, out \in Texts :
        old = Held(dim, past) /\ big = dim + n /\ out = Held(big, all)
  <2>1. dim + n \in Nat
    OBVIOUS
  <2> QED
    BY <1>2, <2>1, HeldIs
<1>4. TakesOver(old, AllRows, 0, dim, new, out)
  BY <1>2, <1>3, GrowTakes
<1>5. \A r \in DOMAIN out : Len(out[r]) <= big
  <2>1. Even(out, Least(big, o + n)) /\ Least(big, o + n) <= big
    <3>1. o + n \in Nat
      OBVIOUS
    <3> QED
      BY <1>2, <1>3, <3>1, HeldEven
  <2> QED
    BY <2>1 DEF Even
<1>6. s.cache.buffer # 0
  BY DEF Does, Content, Buffers
<1>7. Yields(Move(s, big, s.cache.dim, AllRows, 0, dim, new), big, out, FreeBuffers(s))
  BY <1>2, <1>3, <1>4, <1>5, MoveYields
<1>8. Concat(s, n) = Move(s, big, s.cache.dim, AllRows, 0, dim, new)
  BY <1>1, <1>3, <1>6 DEF Concat
<1> QED
  BY <1>1, <1>3, <1>7, <1>8

LEMMA SlideYields ==
  ASSUME NEW f, Situation(f), NEW n \in Nat, NEW s, NEW g, NEW first \in Nat, NEW keep \in Nat,
         first + keep <= Offset + n, s.cache.dim = first + keep,
         Does(s, g, Held(first + keep, WithNew(n))), FreeBuffers(s) # {}
  PROVE  Yields(Slide(s, first, keep), keep, Held(keep, WithNew(n)), FreeBuffers(s))
<1>1. PICK all \in Texts, l \in Nat : all = WithNew(n) /\ l = Offset + n
  <2>1. PICK l \in Nat : l = Offset + n
    BY PastIs DEF Situation
  <2>2. PICK all \in Texts : all = WithNew(n)
    BY PastIs DEF Situation
  <2> QED
    BY <2>1, <2>2
<1>2. Even(all, l) /\ AllRows = Same(all) /\ AllRows \in Seq(Nat) /\ Ready
  BY <1>1, PastIs DEF Situation
<1>3. PICK dim \in Nat, old \in Texts, out \in Texts, new \in Texts :
        dim = first + keep /\ old = Held(dim, all) /\ out = Held(keep, all) /\ new = NoKeys(AllRows)
  BY <1>2, HeldIs, NoneIs
<1>4. TakesOver(old, AllRows, first, keep, new, out)
  BY <1>1, <1>2, <1>3, SlideTakes
<1>5. \A r \in DOMAIN out : Len(out[r]) <= keep
  <2>1. Even(out, Least(keep, l)) /\ Least(keep, l) <= keep
    BY <1>2, <1>3, HeldEven
  <2> QED
    BY <2>1 DEF Even
<1>6. Does(s, g, old)
  BY <1>1, <1>3
<1>7. Yields(Move(s, keep, s.cache.dim, AllRows, first, keep, new), keep, out, FreeBuffers(s))
  BY <1>2, <1>4, <1>5, <1>6, MoveYields
<1>8. Slide(s, first, keep) = Move(s, keep, s.cache.dim, AllRows, first, keep, new)
  BY <1>3 DEF Slide
<1> QED
  BY <1>1, <1>3, <1>7, <1>8

(* The attention on a cache that holds what it should read.                *)
LEMMA AttentionYields ==
  ASSUME NEW f, Situation(f), NEW n \in Nat, NEW s, NEW g, NEW length \in Nat, NEW sequence,
         NEW keys \in Texts, keys = Held(length, WithNew(n)), length <= Offset + n,
         Does(s, g, keys),
         \A r \in Rows : ShouldRead(WithNew(n)[r], n, sequence) = keys[r]
  PROVE  /\ Yields(Sdpa(s, length, n, sequence), s.cache.dim, keys, FreeBuffers(s))
         /\ FreeBuffers(Sdpa(s, length, n, sequence)) = FreeBuffers(s)
<1>1. PICK all \in Texts, l \in Nat : all = WithNew(n) /\ l = Offset + n
  <2>1. PICK l \in Nat : l = Offset + n
    BY PastIs DEF Situation
  <2>2. PICK all \in Texts : all = WithNew(n)
    BY PastIs DEF Situation
  <2> QED
    BY <2>1, <2>2
<1>2. Even(all, l) /\ DOMAIN all = Rows /\ Ready
  BY <1>1, PastIs DEF Situation, Rows
<1>3. DOMAIN keys = Rows /\ Len(keys) \in Nat /\ DOMAIN keys = 1 .. Len(keys)
  BY <1>1, <1>2, HeldIs, TextRows
<1>4. \A r \in DOMAIN keys : Len(keys[r]) = length
  <2>1. Least(length, l) = length
    BY <1>1 DEF Least
  <2>2. Even(keys, length)
    BY <1>1, <1>2, <2>1, HeldEven
  <2> QED
    BY <2>2 DEF Even
<1>5. PICK c : c = [op |-> "sdpa", from |-> s.cache.buffer, dim |-> s.cache.dim,
                    length |-> length, should |-> keys]
  OBVIOUS
<1>6. [r \in Rows |-> ShouldRead(WithNew(n)[r], n, sequence)] = keys
  <2>1. keys = [r \in Rows |-> keys[r]]
    BY <1>3 DEF Texts
  <2> QED
    BY <2>1
<1>7. Sdpa(s, length, n, sequence) = Issue(s, c)
  BY <1>5, <1>6 DEF Sdpa
<1>8. Yields(Issue(s, c), s.cache.dim, keys, FreeBuffers(s)) /\ FreeBuffers(Issue(s, c)) = FreeBuffers(s)
  BY <1>2, <1>4, <1>5, SdpaYields
<1> QED
  BY <1>7, <1>8

(* The number of keys that the attention reads of a row of o + n.          *)
Reads(o, n, sequence, length) ==
  /\ window = 0 => length = o + n
  /\ window > 0 /\ sequence => length = Least(window, o) + n
  /\ window > 0 /\ ~sequence => length = Least(window, o + n)

LEMMA ShouldReadLast ==
  ASSUME NEW row \in Seq(Keys), window \in Nat, NEW o \in Nat, NEW n \in Nat, Len(row) = o + n,
         NEW sequence \in BOOLEAN, NEW length \in Nat, Reads(o, n, sequence, length)
  PROVE  ShouldRead(row, n, sequence) = LastKeys(row, length)
<1> DEFINE most == IF sequence THEN window + n ELSE window
<1>1. ShouldRead(row, n, sequence)
        = IF window = 0 \/ Len(row) <= most THEN row ELSE LastKeys(row, most)
  BY DEF ShouldRead, LastKeys
<1>2. LastKeys(row, Len(row)) = row
  <2>1. PICK l : l = LastKeys(row, Len(row))
    OBVIOUS
  <2>2. Len(row) \in 0 .. Len(row)
    OBVIOUS
  <2>3. LastKeys(row, Len(row)) \in Seq(Keys) /\ Len(LastKeys(row, Len(row))) = Len(row)
        /\ \A j \in 1 .. Len(row) : LastKeys(row, Len(row))[j] = row[(Len(row) - Len(row)) + j]
    BY <2>2, LastKeysIs
  <2>4. \A j \in 1 .. Len(row) : (Len(row) - Len(row)) + j = j
    OBVIOUS
  <2>5. l \in Seq(Keys) /\ row \in Seq(Keys) /\ Len(l) = Len(row) /\ \A j \in 1 .. Len(l) : l[j] = row[j]
    BY <2>1, <2>3, <2>4
  <2>6. l = row
    BY ONLY <2>5, SameSequence
  <2> QED
    BY <2>1, <2>6
<1>3. most \in Nat
  OBVIOUS
<1> HIDE DEF most
<1>4. CASE window = 0 \/ Len(row) <= most
  <2>1. length = Len(row)
    BY <1>3, <1>4 DEF Least, most, Reads
  <2> QED
    BY <1>1, <1>2, <1>4, <2>1
<1>5. CASE ~(window = 0 \/ Len(row) <= most)
  <2>1. length = most
    BY <1>3, <1>5 DEF Least, most, Reads
  <2> QED
    BY <1>1, <1>5, <2>1
<1> QED
  BY <1>4, <1>5

(* The cache after the operator.                                           *)
Attends(t, n) ==
  \E dim \in Nat : \E f :
    /\ t.cache.dim = dim /\ Does(t, f, Held(dim, WithNew(n)))
    /\ window = 0 => dim >= Offset + n
    /\ window > 0 => dim = Least(window, Offset + n)

LEMMA ReadsTheWhole ==
  ASSUME NEW f, Situation(f), NEW n \in Nat, NEW sequence \in BOOLEAN, NEW length \in Nat,
         length <= Offset + n,
         window = 0 => length = Offset + n,
         window > 0 /\ sequence => length = Least(window, Offset) + n,
         window > 0 /\ ~sequence => length = Least(window, Offset + n)
  PROVE  \A r \in Rows : ShouldRead(WithNew(n)[r], n, sequence) = Held(length, WithNew(n))[r]
<1>1. PICK all \in Texts, o \in Nat : all = WithNew(n) /\ o = Offset
  BY PastIs DEF Situation
<1>2. Even(all, o + n) /\ DOMAIN all = Rows /\ window \in Nat
  BY <1>1, PastIs DEF Situation, Rows
<1>3. ASSUME NEW r \in Rows PROVE ShouldRead(all[r], n, sequence) = Held(length, all)[r]
  <2>1. PICK row \in Seq(Keys) : row = all[r] /\ Len(row) = o + n
    BY <1>2, TextRows DEF Even
  <2>2. ShouldRead(row, n, sequence) = LastKeys(row, length)
    <3>1. /\ row \in Seq(Keys) /\ window \in Nat /\ o \in Nat /\ n \in Nat /\ Len(row) = o + n
          /\ sequence \in BOOLEAN /\ length \in Nat /\ Reads(o, n, sequence, length)
      BY <1>1, <1>2, <2>1 DEF Reads
    <3> QED
      BY ONLY <3>1, ShouldReadLast
  <2>3. Least(length, o + n) = length
    BY <1>1 DEF Least
  <2>4. Held(length, all)[r] = LastKeys(row, length)
    BY <1>2, <2>1, <2>3, HeldIs
  <2> QED
    BY <2>1, <2>2, <2>4
<1> QED
  BY <1>1, <1>3

LEMMA StridedAttends ==
  ASSUME NEW f, Situation(f), window = 0, NEW n \in Nat \ {0}, FreeBuffers(Start) # {}, NEW fused,
         NEW sequence \in BOOLEAN
  PROVE  Attends(Sdpa(Strided(Start, n, fused), Offset + n, n, sequence), n)
<1>1. PICK dim \in Nat : /\ dim >= Offset + n
                         /\ Yields(Strided(Start, n, fused), dim, WithNew(n), FreeBuffers(Start))
  BY StridedYields
<1>2. PICK s : s = Strided(Start, n, fused)
  OBVIOUS
<1>3. PICK g : s.cache.dim = dim /\ Does(s, g, WithNew(n))
  BY <1>1, <1>2 DEF Yields
<1>4. PICK l \in Nat, all \in Texts : l = Offset + n /\ all = WithNew(n) /\ Even(all, l) /\ l <= dim
  <2>1. Offset + n \in Nat
    BY PastIs DEF Situation
  <2> QED
    BY <1>1, <2>1, PastIs DEF Situation
<1>5. Held(l, all) = all /\ Held(dim, all) = all
  BY <1>4, HeldAll
<1>6. \A r \in Rows : ShouldRead(WithNew(n)[r], n, sequence) = all[r]
  BY <1>4, <1>5, ReadsTheWhole
<1>7. Yields(Sdpa(s, l, n, sequence), s.cache.dim, all, FreeBuffers(s))
  BY <1>3, <1>4, <1>5, <1>6, AttentionYields
<1> QED
  BY <1>2, <1>3, <1>4, <1>5, <1>7 DEF Yields, Attends

LEMMA GenericAttends ==
  ASSUME NEW f, Situation(f), NEW n \in Nat \ {0}, HasThree(FreeBuffers(Start)),
         NEW sequence \in BOOLEAN, n > 1 => sequence, window > 0 => n <= window,
         NEW s, s = SlideToGenerate(Concat(Compact(Start), n), sequence)
  PROVE  Attends(SlideAfterPrefill(Sdpa(s, s.cache.dim, n, sequence), sequence), n)
<1>1. PICK o \in Nat, base \in Nat : o = Offset /\ base = Compacted /\ base <= o /\ window \in Nat
                                     /\ (cache.buffer = 0 => o = 0 /\ base = 0)
                                     /\ (window = 0 => base = o) /\ (window > 0 => base = Least(window, o))
  <2>1. Offset \in Nat /\ window \in Nat /\ (cache.buffer = 0 => Offset = 0)
    BY PastIs DEF Situation, PlaceFits, Offset
  <2> QED
    BY <2>1 DEF Compacted, Least
<1>2. PICK all \in Texts, l \in Nat : all = WithNew(n) /\ l = o + n /\ Even(all, l)
  BY <1>1, PastIs DEF Situation
<1>3. FreeBuffers(Start) # {}
  BY DEF HasThree
<1>4. PICK u : u = Concat(Compact(Start), n)
  OBVIOUS
<1>5. u.cache.dim = base + n /\ (\E g : Does(u, g, Held(base + n, all))) /\ FreeBuffers(u) # {}
  <2>1. CASE cache.buffer = 0
    <3>1. Compact(Start) = Start /\ Concat(Start, n) = Write(Allocate(Start, Len(past), n), 0, NewKeys(n))
      BY <2>1, StartIs DEF Compact, Concat, HasCapacity
    <3>2. PICK new \in Texts : new = NewKeys(n) /\ Len(new) = Len(past) /\ Even(new, n)
      BY PastIs DEF Situation
    <3>3. Yields(Write(Allocate(Start, Len(new), n), 0, new), n, new, FreeBuffers(Start))
      BY <1>3, <3>2, FreshYields DEF Situation, Even
    <3>4. new = all /\ base = 0
      <4>1. /\ Joined(past, new, all) /\ Even(past, 0) /\ past \in Texts
        BY <1>1, <1>2, <2>1, <3>2, PastIs DEF Situation
      <4>2. ASSUME NEW r \in 1 .. Len(new) PROVE new[r] = all[r]
        <5>1. r \in DOMAIN past
          BY <3>2, TextRows DEF Situation
        <5>2. PICK a \in Seq(Keys), b \in Seq(Keys) : a = past[r] /\ b = new[r] /\ Len(a) = 0
          BY <3>2, <4>1, <5>1, TextRows DEF Even
        <5>3. a = <<>> /\ b \in Seq(Keys)
          BY <5>2
        <5>4. a \o b = b
          BY <5>3
        <5> QED
          BY <4>1, <5>1, <5>2, <5>4 DEF Joined
      <4>3. new \in Seq(Seq(Keys)) /\ all \in Seq(Seq(Keys)) /\ Len(new) = Len(all)
            /\ \A r \in 1 .. Len(new) : new[r] = all[r]
        BY <3>2, <4>1, <4>2 DEF Texts, Joined
      <4>4. new = all
        BY ONLY <4>3, SameSequence
      <4> QED
        BY <1>1, <2>1, <4>4
    <3>5. Held(n, all) = all
      BY <1>1, <1>2, <2>1, HeldAll
    <3>6. base + n = n
      BY <3>4
    <3> QED
      BY <1>4, <3>1, <3>2, <3>3, <3>4, <3>5, <3>6, LeavesRoom DEF Yields
  <2>2. CASE cache.buffer # 0
    <3>1. Yields(Compact(Start), base, Held(base, past), FreeBuffers(Start))
      BY <1>1, <1>3, <2>2, CompactYields
    <3>2. PICK c : c = Compact(Start)
      OBVIOUS
    <3>3. PICK g : c.cache.dim = base /\ Does(c, g, Held(base, past))
      BY <3>1, <3>2 DEF Yields
    <3>4. HasTwo(FreeBuffers(c))
      BY <3>1, <3>2, LeavesRoom DEF Yields
    <3>5. FreeBuffers(c) # {}
      BY <3>4 DEF HasTwo
    <3>6. Yields(Concat(c, n), base + n, Held(base + n, WithNew(n)), FreeBuffers(c))
      BY <1>1, <3>3, <3>5, ConcatYields
    <3> QED
      BY <1>2, <1>4, <3>2, <3>4, <3>6, LeavesRoom DEF Yields
  <2> QED
    BY <2>1, <2>2
<1>6. PICK d \in Nat : d = base + n /\ u.cache.dim = d
  BY <1>5
<1>7. \E dim \in Nat : \E g :
        /\ s.cache.dim = dim /\ Does(s, g, Held(dim, all)) /\ dim <= l
        /\ window = 0 => dim = l
        /\ window > 0 /\ sequence => dim = d
        /\ window > 0 /\ ~sequence => dim = Least(window, l)
        /\ sequence => FreeBuffers(s) # {}
  <2>1. CASE window > 0 /\ ~sequence /\ cache.buffer # 0 /\ d > window
    <3>1. PICK keep \in Nat : keep = d - 1 /\ keep = window /\ 1 + keep = d
      BY <1>1, <1>6, <2>1 DEF Least
    <3>2. PICK g : Does(u, g, Held(1 + keep, WithNew(n)))
      BY <1>2, <1>5, <1>6, <3>1
    <3>3. Yields(Slide(u, 1, keep), keep, Held(keep, WithNew(n)), FreeBuffers(u))
      <4>1. 1 + keep <= Offset + n
        BY <1>1, <1>6, <3>1
      <4>2. PICK one \in Nat : one = 1
        OBVIOUS
      <4>3. /\ one + keep <= Offset + n /\ u.cache.dim = one + keep
            /\ Does(u, g, Held(one + keep, WithNew(n)))
        BY <1>6, <3>1, <3>2, <4>1, <4>2
      <4>4. Yields(Slide(u, one, keep), keep, Held(keep, WithNew(n)), FreeBuffers(u))
        BY <1>5, <4>3, SlideYields
      <4> QED
        BY <4>2, <4>4
    <3>4. s = Slide(u, 1, keep)
      BY <1>4, <1>6, <2>1, <3>1 DEF SlideToGenerate
    <3>5. keep <= l /\ keep = Least(window, l)
      BY <1>1, <1>2, <1>6, <3>1 DEF Least
    <3> QED
      BY <1>2, <2>1, <3>3, <3>4, <3>5 DEF Yields
  <2>2. CASE ~(window > 0 /\ ~sequence /\ cache.buffer # 0 /\ d > window)
    <3>1. s = u
      BY <1>4, <1>6, <2>2 DEF SlideToGenerate
    <3>2. d <= l /\ (window = 0 => d = l)
      BY <1>1, <1>2, <1>6
    <3>3. window > 0 /\ ~sequence => d = Least(window, l)
      <4> SUFFICES ASSUME window > 0, ~sequence PROVE d = Least(window, l)
        OBVIOUS
      <4>1. n = 1 /\ base = Least(window, o)
        BY <1>1
      <4>2. CASE cache.buffer # 0
        BY <1>1, <1>2, <1>6, <2>2, <4>1, <4>2 DEF Least
      <4>3. CASE cache.buffer = 0
        BY <1>1, <1>2, <1>6, <4>1, <4>3 DEF Least
      <4> QED
        BY <4>2, <4>3
    <3>4. PICK g : Does(u, g, Held(d, all))
      BY <1>5, <1>6
    <3> QED
      BY <1>5, <1>6, <3>1, <3>2, <3>3, <3>4
  <2> QED
    BY <2>1, <2>2
<1>15. PICK dim \in Nat : \E g :
        /\ s.cache.dim = dim /\ Does(s, g, Held(dim, all)) /\ dim <= l
        /\ window = 0 => dim = l
        /\ window > 0 /\ sequence => dim = d
        /\ window > 0 /\ ~sequence => dim = Least(window, l)
        /\ sequence => FreeBuffers(s) # {}
  BY <1>7
<1>8. PICK g :
        /\ s.cache.dim = dim /\ Does(s, g, Held(dim, all)) /\ dim <= l
        /\ window = 0 => dim = l
        /\ window > 0 /\ sequence => dim = d
        /\ window > 0 /\ ~sequence => dim = Least(window, l)
        /\ sequence => FreeBuffers(s) # {}
  BY <1>15
<1>9. PICK keys \in Texts : keys = Held(dim, all)
  BY HeldIs
<1>10. PICK t : t = Sdpa(s, dim, n, sequence)
  OBVIOUS
<1>11. Yields(t, dim, keys, FreeBuffers(s)) /\ FreeBuffers(t) = FreeBuffers(s)
  <2>1. \A r \in Rows : ShouldRead(WithNew(n)[r], n, sequence) = keys[r]
    <3>1. /\ dim \in Nat /\ dim <= Offset + n
          /\ window = 0 => dim = Offset + n
          /\ window > 0 /\ sequence => dim = Least(window, Offset) + n
          /\ window > 0 /\ ~sequence => dim = Least(window, Offset + n)
      BY <1>1, <1>2, <1>6, <1>8
    <3>2. \A r \in Rows : ShouldRead(WithNew(n)[r], n, sequence) = Held(dim, WithNew(n))[r]
      BY <3>1, ReadsTheWhole
    <3> QED
      BY <1>2, <1>9, <3>2
  <2> QED
    BY <1>1, <1>2, <1>8, <1>9, <1>10, <2>1, AttentionYields
<1>12. PICK h : t.cache.dim = dim /\ Does(t, h, keys)
  BY <1>11 DEF Yields
<1>13. CASE window > 0 /\ sequence /\ dim > window
  <2>1. PICK first \in Nat : first = dim - window /\ first + window = dim
    BY <1>1, <1>13
  <2>2. Yields(Slide(t, first, window), window, Held(window, WithNew(n)), FreeBuffers(t))
    <3>1. /\ first + window <= Offset + n /\ t.cache.dim = first + window
          /\ Does(t, h, Held(first + window, WithNew(n))) /\ FreeBuffers(t) # {}
      BY <1>1, <1>2, <1>8, <1>9, <1>11, <1>12, <1>13, <2>1
    <3> QED
      BY <1>1, <3>1, SlideYields
  <2>3. SlideAfterPrefill(t, sequence) = Slide(t, first, window)
    BY <1>12, <1>13, <2>1 DEF SlideAfterPrefill
  <2>4. window = Least(window, Offset + n) /\ window # 0
    BY <1>1, <1>2, <1>8, <1>13 DEF Least
  <2>5. Attends(Slide(t, first, window), n)
    BY <1>1, <2>2, <2>4 DEF Yields, Attends
  <2> QED
    BY <1>8, <1>10, <2>3, <2>5
<1>14. CASE ~(window > 0 /\ sequence /\ dim > window)
  <2>1. SlideAfterPrefill(t, sequence) = t
    BY <1>12, <1>14 DEF SlideAfterPrefill
  <2>2. window > 0 => dim = Least(window, Offset + n)
    <3>1. CASE ~sequence
      BY <1>1, <1>2, <1>8, <3>1
    <3>2. CASE sequence
      BY <1>1, <1>2, <1>6, <1>8, <1>14, <3>2 DEF Least
    <3> QED
      BY <3>1, <3>2
  <2>3. window = 0 => dim >= Offset + n
    BY <1>1, <1>2, <1>8
  <2>4. Attends(t, n)
    BY <1>2, <1>9, <1>12, <2>2, <2>3 DEF Attends
  <2> QED
    BY <1>8, <1>10, <2>1, <2>4
<1> QED
  BY <1>13, <1>14

LEMMA AttendedAttends ==
  ASSUME NEW f, Situation(f), HasRoom, NEW n \in Nat \ {0},
         NEW sequence \in BOOLEAN, NEW weights \in BOOLEAN, NEW padder \in BOOLEAN,
         n > 1 => sequence, window > 0 => n <= window
  PROVE  Attends(Attended(n, sequence, weights, padder), n)
<1>1. HasThree(FreeBuffers(Start)) /\ FreeBuffers(Start) # {}
  BY RoomForThree DEF HasThree
<1>2. CASE CanFuse(n, weights, padder)
  <2>1. window = 0 /\ Attended(n, sequence, weights, padder)
                        = Sdpa(Strided(Start, n, TRUE), Offset + n, n, sequence)
    BY <1>2 DEF Attended, CanFuse, CanStride
  <2> QED
    BY <1>1, <2>1, StridedAttends
<1>3. CASE ~CanFuse(n, weights, padder) /\ CanStride(n, weights)
  <2>1. window = 0 /\ Attended(n, sequence, weights, padder)
                        = Sdpa(Strided(Start, n, FALSE), Offset + n, n, sequence)
    BY <1>3 DEF Attended, CanStride
  <2> QED
    BY <1>1, <2>1, StridedAttends
<1>4. CASE ~CanFuse(n, weights, padder) /\ ~CanStride(n, weights)
  <2>1. PICK s : s = SlideToGenerate(Concat(Compact(Start), n), sequence)
    OBVIOUS
  <2>2. Attended(n, sequence, weights, padder)
          = SlideAfterPrefill(Sdpa(s, s.cache.dim, n, sequence), sequence)
    BY <1>4, <2>1 DEF Attended
  <2> QED
    BY <1>1, <2>1, <2>2, GenericAttends
<1> QED
  BY <1>2, <1>3, <1>4

-----------------------------------------------------------------------------
(* The invariant.                                                          *)

LEMMA RetainedIs ==
  ASSUME NEW m \in Memories, NEW used
  PROVE  Retained(m, used) \in Memories /\ \A b \in used \cap Buffers : Retained(m, used)[b] = m[b]
<1>1. DOMAIN m = Buffers /\ \A b \in Buffers : m[b] \in Seq(Keys)
  BY DEF Memories
<1>2. <<>> \in Seq(Keys)
  OBVIOUS
<1>3. Retained(m, used) = [b \in Buffers |-> IF b \in used THEN m[b] ELSE <<>>]
  BY <1>1 DEF Retained
<1> QED
  BY <1>1, <1>2, <1>3 DEF Memories

LEMMA NoStateIs == NoState \in States /\ NoState.cache.buffer = 0 /\ Empty \in Places
<1>1. Empty \in Places
  BY KVCacheAssumption DEF Empty, Places
<1>2. <<>> \in Texts
  BY DEF Texts
<1> QED
  BY <1>1, <1>2 DEF NoState, States, Empty

LEMMA SituationOf ==
  ASSUME QueueInv(LayerCommands), Shape, PromptStays, NEW f, MemoryFollows(f)
  PROVE  Situation(f) /\ Queue(Start) = pending /\ UsedBy(Start) = Used
<1>1. pending \in Seq(LayerCommands)
  BY DEF QueueInv, QueueOf
<1>2. saved \in States
  BY NoStateIs DEF PromptStays
<1>3. Ready /\ cache \in Places /\ window \in Nat /\ past \in Texts /\ PlaceFits(cache, past)
  BY <1>1, <1>2 DEF Ready, Shape
<1>4. Start = [cache |-> cache, memory |-> memory, commands |-> <<>>]
  BY DEF Start
<1>5. Queue(Start) = pending
  BY <1>1, <1>4 DEF Queue
<1>6. UsedBy(Start) = Used
  BY <1>4, <1>5 DEF UsedBy, Used
<1>7. Start \in Steps
  <2>1. <<>> \in Seq(LayerCommands)
    OBVIOUS
  <2> QED
    BY <1>3, <1>4, <2>1 DEF Steps, Ready
<1>8. LeavesPrompt(Start)
  <2> SUFFICES ASSUME saved.cache.buffer # 0
               PROVE  /\ cache.buffer # saved.cache.buffer
                      /\ \A k \in 1 .. Len(pending) : saved.cache.buffer \notin WritesTo(pending[k])
    BY <1>4, <1>5 DEF LeavesPrompt
  <2>1. saved # NoState
    BY NoStateIs
  <2> QED
    BY <2>1 DEF PromptStays
<1>9. Plan(Start, f)
  BY <1>4, <1>5, <1>6, <1>7, <1>8 DEF Plan, MemoryFollows
<1>10. cache.buffer # 0 => Does(Start, f, Held(cache.dim, past))
  BY <1>3, <1>4, <1>5, <1>9 DEF Does, Content, Finally, MemoryFollows, Places, Buffers
<1> QED
  BY <1>3, <1>5, <1>6, <1>9, <1>10 DEF Situation

(* The commands of an operator that has done its work are committed.       *)
LEMMA FinishInv ==
  ASSUME QueueInv(LayerCommands), Ready, PromptStays, NEW s, NEW g, NEW keys,
         Does(s, g, keys), Finish(s), saved' = saved, window' = window
  PROVE  /\ QueueInv(LayerCommands)' /\ PromptStays' /\ memory' \in Memories
         /\ cache' = s.cache /\ cache' \in Places /\ cache'.buffer # 0 /\ flushing' = flushing
         /\ \E h : /\ Follows(h, memory', pending', Used') /\ ReadsRight(h, pending')
                   /\ HoldsKeys(h[Len(pending')][cache'.buffer], cache'.dim, keys)
<1>1. /\ s \in Steps /\ Follows(g, s.memory, Queue(s), UsedBy(s)) /\ ReadsRight(g, Queue(s))
      /\ LeavesPrompt(s) /\ s.cache.buffer \in Buffers
      /\ HoldsKeys(g[Len(Queue(s))][s.cache.buffer], s.cache.dim, keys)
  BY DEF Does, Plan, Content, Finally
<1>2. s.commands \in Seq(LayerCommands) /\ s.cache \in Places /\ s.memory \in Memories
  BY <1>1 DEF Steps
<1>3. cache' = s.cache /\ Commit(Replica, s.commands)
      /\ memory' = Retained(s.memory, InUse(pending', cache', saved))
  BY DEF Finish
<1>4. QueueInv(LayerCommands)'
  BY <1>2, <1>3, KVCacheAssumption, CommitQueue
<1>5. pending' = Queue(s) /\ flushing' = flushing
  BY <1>3 DEF Commit, Queue
<1>6. Used' = UsedBy(s) /\ memory' = Retained(s.memory, UsedBy(s))
  BY <1>3, <1>5 DEF Used, UsedBy
<1>7. memory' \in Memories /\ \A b \in UsedBy(s) \cap Buffers : memory'[b] = s.memory[b]
  BY <1>2, <1>6, RetainedIs
<1>8. Queue(s) \in Seq(LayerCommands)
  BY <1>1, QueueType
<1>9. /\ \A k \in 1 .. Len(Queue(s)) : BuffersOf(Queue(s)[k]) \subseteq UsedBy(s)
      /\ s.cache.buffer \in UsedBy(s) /\ saved.cache.buffer \in UsedBy(s)
  BY <1>8, UsesOf DEF UsedBy
<1>10. \E h : Keeps(h, g, memory', Queue(s), UsedBy(s))
  <2>1. PICK p, m, w, used : p = Queue(s) /\ m = s.memory /\ w = memory' /\ used = UsedBy(s)
    OBVIOUS
  <2>2. /\ p \in Seq(LayerCommands) /\ Follows(g, m, p, used) /\ ReadsRight(g, p)
        /\ used \cap Buffers \subseteq used
        /\ \A k \in 1 .. Len(p) : BuffersOf(p[k]) \subseteq used
        /\ w \in Memories /\ \A b \in used \cap Buffers : w[b] = m[b]
    BY <1>1, <1>7, <1>8, <1>9, <2>1
  <2>3. \E h : Keeps(h, g, w, p, used)
    BY ONLY <2>2, FollowsFewer
  <2> QED
    BY <2>1, <2>3
<1>11. \E h : /\ Follows(h, memory', pending', Used') /\ ReadsRight(h, pending')
              /\ HoldsKeys(h[Len(pending')][cache'.buffer], cache'.dim, keys)
  <2>1. PICK h : /\ Follows(h, memory', Queue(s), UsedBy(s)) /\ ReadsRight(h, Queue(s))
                 /\ \A b \in UsedBy(s) \cap Buffers : h[Len(Queue(s))][b] = g[Len(Queue(s))][b]
    BY <1>10 DEF Keeps
  <2>2. h[Len(Queue(s))][s.cache.buffer] = g[Len(Queue(s))][s.cache.buffer]
    BY <1>1, <1>9, <2>1
  <2>3. HoldsKeys(h[Len(Queue(s))][s.cache.buffer], s.cache.dim, keys)
    BY <1>1, <2>2
  <2> QED
    BY <1>3, <1>5, <1>6, <2>1, <2>3
<1>12. PromptStays'
  <2> SUFFICES ASSUME saved # NoState
               PROVE  /\ saved \in States /\ saved.cache.buffer # 0
                      /\ PlaceFits(saved.cache, saved.past)'
                      /\ saved.cache.buffer # cache'.buffer
                      /\ \A k \in 1 .. Len(pending') : saved.cache.buffer \notin WritesTo(pending'[k])
                      /\ HoldsKeys(memory'[saved.cache.buffer], saved.cache.dim,
                                   Held(saved.cache.dim, saved.past))
    BY DEF PromptStays
  <2>1. /\ saved \in States /\ saved.cache.buffer # 0 /\ PlaceFits(saved.cache, saved.past)
        /\ HoldsKeys(memory[saved.cache.buffer], saved.cache.dim, Held(saved.cache.dim, saved.past))
    BY DEF PromptStays
  <2>2. saved.cache.buffer \in Buffers
    BY <2>1 DEF States, Places, Buffers
  <2>3. memory'[saved.cache.buffer] = memory[saved.cache.buffer]
    BY <1>1, <1>7, <1>9, <2>1, <2>2 DEF LeavesPrompt
  <2>4. PlaceFits(saved.cache, saved.past)'
    BY <2>1 DEF PlaceFits
  <2> QED
    BY <1>1, <1>3, <1>5, <2>1, <2>3, <2>4 DEF LeavesPrompt
<1> QED
  BY <1>1, <1>2, <1>3, <1>4, <1>5, <1>7, <1>11, <1>12 DEF Buffers

LEMMA AttendInv == ASSUME IInv, Attend PROVE IInv'
<1>1. PICK f : MemoryFollows(f)
  BY DEF IInv
<1>2. Situation(f) /\ Ready
  BY <1>1, SituationOf DEF IInv, Situation
<1>3. PICK n \in 1 .. MaxLength - Offset, sequence \in BOOLEAN, weights \in BOOLEAN, padder \in BOOLEAN :
        /\ HasRoom
        /\ n > 1 => sequence
        /\ window > 0 => n <= window
        /\ Finish(Attended(n, sequence, weights, padder))
        /\ past' = WithNew(n)
        /\ fed' = TRUE
        /\ UNCHANGED <<window, saved, copy>>
  BY DEF Attend
<1>4. n \in Nat \ {0} /\ Offset \in Nat /\ window \in Nat
  BY <1>2, PastIs DEF Situation
<1>5. PICK s : s = Attended(n, sequence, weights, padder)
  OBVIOUS
<1>6. Attends(s, n)
  BY <1>2, <1>3, <1>4, <1>5, AttendedAttends
<1>15. PICK dim \in Nat : \E g :
        /\ s.cache.dim = dim /\ Does(s, g, Held(dim, WithNew(n)))
        /\ window = 0 => dim >= Offset + n
        /\ window > 0 => dim = Least(window, Offset + n)
  BY <1>6 DEF Attends
<1>7. PICK g :
        /\ s.cache.dim = dim /\ Does(s, g, Held(dim, WithNew(n)))
        /\ window = 0 => dim >= Offset + n
        /\ window > 0 => dim = Least(window, Offset + n)
  BY <1>15
<1>8. PICK keys : keys = Held(dim, WithNew(n))
  OBVIOUS
<1>9. /\ QueueInv(LayerCommands)' /\ PromptStays' /\ memory' \in Memories
      /\ cache' = s.cache /\ cache' \in Places /\ cache'.buffer # 0 /\ flushing' = flushing
      /\ \E h : /\ Follows(h, memory', pending', Used') /\ ReadsRight(h, pending')
                /\ HoldsKeys(h[Len(pending')][cache'.buffer], cache'.dim, keys)
  <2>1. Does(s, g, keys) /\ Finish(s)
    BY <1>3, <1>5, <1>7, <1>8
  <2> QED
    BY <1>2, <1>3, <2>1, FinishInv DEF IInv
<1>10. \E h : MemoryFollows(h)'
  BY <1>3, <1>7, <1>8, <1>9 DEF MemoryFollows
<1>11. PICK all \in Texts :
         /\ all = WithNew(n) /\ all = past' /\ Len(all) = Len(past)
         /\ past # <<>> /\ past \in Texts /\ Even(all, Offset + n)
  BY <1>2, <1>3, <1>4, PastIs DEF Situation
<1>12. PlaceFits(cache, past)'
  <2>1. all # <<>> /\ 1 \in DOMAIN all
    BY <1>11, TextRows
  <2>2. \A r \in DOMAIN all : Len(all[r]) = Len(all[1])
    BY <1>11, <2>1 DEF Even
  <2>3. Len(all[1]) = Offset + n /\ Offset + n # 0
    BY <1>4, <1>11, <2>1 DEF Even
  <2> QED
    BY <1>3, <1>7, <1>9, <1>11, <2>1, <2>2, <2>3 DEF PlaceFits
<1>13. Shape'
  BY <1>3, <1>4, <1>9, <1>11, <1>12 DEF Shape, IInv
<1>14. CopyWaits'
  BY <1>3 DEF CopyWaits, HasRoom
<1> QED
  BY <1>9, <1>10, <1>13, <1>14 DEF IInv

LEMMA UpdateStateInv == ASSUME IInv, UpdateState PROVE IInv'
<1>1. PICK f : MemoryFollows(f)
  BY DEF IInv
<1>2. Situation(f) /\ Ready
  BY <1>1, SituationOf DEF IInv, Situation
<1>24. PICK n \in Rows : \E rows \in [1 .. n -> Rows] :
        /\ HasRoom /\ fed
        /\ Finish(Move(Start, cache.dim, cache.dim, rows, 0, cache.dim, NoKeys(rows)))
        /\ past' = [r \in DOMAIN rows |-> past[rows[r]]]
        /\ fed' = FALSE
        /\ UNCHANGED <<window, saved, copy>>
  BY DEF UpdateState
<1>3. PICK rows \in [1 .. n -> Rows] :
        /\ HasRoom /\ fed
        /\ Finish(Move(Start, cache.dim, cache.dim, rows, 0, cache.dim, NoKeys(rows)))
        /\ past' = [r \in DOMAIN rows |-> past[rows[r]]]
        /\ fed' = FALSE
        /\ UNCHANGED <<window, saved, copy>>
  BY <1>24
<1>4. PICK o \in Nat : o = Offset
  BY <1>2, PastIs DEF Situation
<1>5. Even(past, o) /\ past \in Texts
  <2>1. 0 \in Nat
    OBVIOUS
  <2> QED
    BY <1>2, <1>4, <2>1, PastIs DEF Situation
<1>6. Rows = 1 .. Len(past) /\ Len(past) \in Nat
  BY <1>5, TextRows DEF Rows
<1>7. /\ rows \in Seq(Nat) /\ Len(rows) = n /\ DOMAIN rows = 1 .. n /\ n \in Nat \ {0}
      /\ \A r \in DOMAIN rows : rows[r] \in DOMAIN past
  BY <1>6 DEF Rows
<1>8. PICK dim \in Nat : dim = cache.dim /\ cache.buffer # 0
  BY <1>2, <1>3 DEF Situation, Places, Shape, IInv
<1>9. PICK out : out = [r \in DOMAIN rows |-> past[rows[r]]]
  OBVIOUS
<1>10. out \in Texts /\ Len(out) = Len(rows) /\ DOMAIN out = DOMAIN rows
       /\ \A r \in DOMAIN rows : out[r] = past[rows[r]]
  <2>1. \A r \in 1 .. n : past[rows[r]] \in Seq(Keys)
    BY <1>5, <1>7, TextRows
  <2> QED
    BY <1>7, <1>9, <2>1 DEF Texts
<1>11. PICK held \in Texts, new \in Texts, old \in Texts :
         held = Held(dim, out) /\ new = NoKeys(rows) /\ old = Held(dim, past)
  BY <1>5, <1>7, <1>10, HeldIs, NoneIs
<1>12. TakesOver(old, rows, 0, dim, new, held) /\ Even(out, o)
  BY <1>5, <1>7, <1>10, <1>11, GatherTakes
<1>13. \A r \in DOMAIN held : Len(held[r]) <= dim
  <2>1. Even(held, Least(dim, o)) /\ Least(dim, o) <= dim
    BY <1>10, <1>11, <1>12, HeldEven
  <2> QED
    BY <2>1 DEF Even
<1>14. Does(Start, f, old)
  BY <1>2, <1>8, <1>11 DEF Situation
<1>15. FreeBuffers(Start) # {}
  BY <1>3, RoomForThree DEF HasThree
<1>16. PICK s : s = Move(Start, dim, Start.cache.dim, rows, 0, dim, new)
  OBVIOUS
<1>17. Yields(s, dim, held, FreeBuffers(Start))
  BY <1>2, <1>7, <1>12, <1>13, <1>14, <1>15, <1>16, MoveYields
<1>18. PICK g : s.cache.dim = dim /\ Does(s, g, held)
  BY <1>17 DEF Yields
<1>19. /\ QueueInv(LayerCommands)' /\ PromptStays' /\ memory' \in Memories
       /\ cache' = s.cache /\ cache' \in Places /\ cache'.buffer # 0 /\ flushing' = flushing
       /\ \E h : /\ Follows(h, memory', pending', Used') /\ ReadsRight(h, pending')
                 /\ HoldsKeys(h[Len(pending')][cache'.buffer], cache'.dim, held)
  <2>1. Finish(s)
    BY <1>3, <1>8, <1>11, <1>16, StartIs
  <2> QED
    BY <1>2, <1>3, <1>18, <2>1, FinishInv DEF IInv
<1>20. \E h : MemoryFollows(h)'
  BY <1>3, <1>9, <1>11, <1>18, <1>19 DEF MemoryFollows
<1>21. PlaceFits(cache, past)'
  <2>1. out # <<>> /\ 1 \in DOMAIN out
    BY <1>7, <1>10
  <2>2. \A r \in DOMAIN out : Len(out[r]) = Len(out[1])
    BY <1>12, <2>1 DEF Even
  <2>3. Len(out[1]) = o
    BY <1>12, <2>1 DEF Even
  <2>4. o # 0 /\ (window = 0 => dim >= o) /\ (window > 0 => dim = Least(window, o))
    BY <1>2, <1>4, <1>8, CacheIsLong
  <2> QED
    BY <1>3, <1>9, <1>18, <1>19, <2>1, <2>2, <2>3, <2>4 DEF PlaceFits
<1>22. Shape'
  BY <1>3, <1>9, <1>10, <1>19, <1>21 DEF Shape, IInv
<1>23. CopyWaits'
  BY <1>3 DEF CopyWaits, HasRoom
<1> QED
  BY <1>19, <1>20, <1>22, <1>23 DEF IInv

LEMMA NextGenerationInv == ASSUME IInv, NextGeneration PROVE IInv'
<1>1. PICK f : MemoryFollows(f)
  BY DEF IInv
<1>2. /\ copy = NoCopy /\ cache' = Empty /\ fed' = FALSE
      /\ pending' = pending /\ flushing' = flushing /\ saved' = saved /\ copy' = copy /\ window' = window
      /\ UNCHANGED queueVars
      /\ memory' = Retained(memory, InUse(pending, Empty, saved))
  BY DEF NextGeneration, queueVars
<1>3. PICK n \in 1 .. MaxRows : past' = [r \in 1 .. n |-> <<>>]
  BY DEF NextGeneration
<1>4. PICK used : used = InUse(pending, Empty, saved)
  OBVIOUS
<1>5. pending \in Seq(LayerCommands) /\ memory \in Memories /\ window \in Nat
  BY DEF IInv, QueueInv, QueueOf, Shape
<1>6. memory' \in Memories /\ \A b \in used \cap Buffers : memory'[b] = memory[b]
  BY <1>2, <1>4, <1>5, RetainedIs
<1>7. used \cap Buffers \subseteq Used
  BY <1>4 DEF Used, InUse, Empty, Buffers
<1>8. \A k \in 1 .. Len(pending) : BuffersOf(pending[k]) \subseteq used
  BY <1>4, <1>5, UsesOf
<1>9. saved.cache.buffer \in used
  BY <1>4, <1>5, UsesOf
<1>10. PICK h : Keeps(h, f, memory', pending, used)
  <2>1. PICK w : w = memory'
    OBVIOUS
  <2>2. Follows(f, memory, pending, Used) /\ ReadsRight(f, pending)
    BY <1>1 DEF MemoryFollows
  <2>3. \E h : Keeps(h, f, w, pending, used)
    BY <1>5, <1>6, <1>7, <1>8, <2>1, <2>2, FollowsFewer
  <2> QED
    BY <2>1, <2>3
<1>11. MemoryFollows(h)'
  <2>1. Used' = used
    BY <1>2, <1>4 DEF Used
  <2>2. cache'.buffer = 0
    BY <1>2 DEF Empty
  <2> QED
    BY <1>2, <1>10, <2>1, <2>2 DEF MemoryFollows, Keeps
<1>12. /\ past' \in Texts /\ past' # <<>> /\ 1 \in DOMAIN past'
       /\ \A r \in DOMAIN past' : past'[r] = <<>>
  <2>1. <<>> \in Seq(Keys)
    OBVIOUS
  <2> QED
    BY <1>3, <2>1 DEF Texts
<1>13. PlaceFits(cache, past)'
  <2>1. \A r \in DOMAIN past' : Len(past'[r]) = 0
    BY <1>12
  <2> QED
    BY <1>2, <1>5, <1>12, <2>1 DEF PlaceFits, Empty, Least
<1>14. Shape'
  BY <1>2, <1>6, <1>12, <1>13, NoStateIs DEF Shape, IInv
<1>15. PromptStays'
  <2> SUFFICES ASSUME saved # NoState
               PROVE  /\ saved \in States /\ saved.cache.buffer # 0
                      /\ PlaceFits(saved.cache, saved.past)'
                      /\ saved.cache.buffer # cache'.buffer
                      /\ \A k \in 1 .. Len(pending) : saved.cache.buffer \notin WritesTo(pending[k])
                      /\ HoldsKeys(memory'[saved.cache.buffer], saved.cache.dim,
                                   Held(saved.cache.dim, saved.past))
    BY <1>2 DEF PromptStays
  <2>1. /\ saved \in States /\ saved.cache.buffer # 0 /\ PlaceFits(saved.cache, saved.past)
        /\ \A k \in 1 .. Len(pending) : saved.cache.buffer \notin WritesTo(pending[k])
        /\ HoldsKeys(memory[saved.cache.buffer], saved.cache.dim, Held(saved.cache.dim, saved.past))
    BY DEF PromptStays, IInv
  <2>2. saved.cache.buffer \in Buffers
    BY <2>1 DEF States, Places, Buffers
  <2>3. memory'[saved.cache.buffer] = memory[saved.cache.buffer]
    BY <1>6, <1>9, <2>2
  <2>4. PlaceFits(saved.cache, saved.past)'
    BY <1>2, <2>1 DEF PlaceFits
  <2> QED
    BY <1>2, <2>1, <2>3, <2>4 DEF Empty
<1>16. CopyWaits'
  BY <1>2 DEF CopyWaits
<1>17. QueueInv(LayerCommands)'
  BY <1>2, UnchangedQueue DEF IInv
<1> QED
  BY <1>11, <1>14, <1>15, <1>16, <1>17 DEF IInv

(* The rows of the prompt hold where the memory of its buffer stays.       *)
LEMMA PromptInv ==
  ASSUME PromptStays, window' = window, saved' = saved, saved.cache.buffer # 0 =>
           /\ cache'.buffer # saved.cache.buffer
           /\ \A k \in 1 .. Len(pending') : saved.cache.buffer \notin WritesTo(pending'[k])
           /\ memory'[saved.cache.buffer] = memory[saved.cache.buffer]
  PROVE  PromptStays'
<1> SUFFICES ASSUME saved # NoState
             PROVE  /\ saved \in States /\ saved.cache.buffer # 0
                    /\ PlaceFits(saved.cache, saved.past)'
                    /\ saved.cache.buffer # cache'.buffer
                    /\ \A k \in 1 .. Len(pending') : saved.cache.buffer \notin WritesTo(pending'[k])
                    /\ HoldsKeys(memory'[saved.cache.buffer], saved.cache.dim,
                                 Held(saved.cache.dim, saved.past))
  BY DEF PromptStays
<1>1. /\ saved \in States /\ saved.cache.buffer # 0 /\ PlaceFits(saved.cache, saved.past)
      /\ HoldsKeys(memory[saved.cache.buffer], saved.cache.dim, Held(saved.cache.dim, saved.past))
  BY DEF PromptStays
<1>2. PlaceFits(saved.cache, saved.past)'
  BY <1>1 DEF PlaceFits
<1> QED
  BY <1>1, <1>2

LEMMA PromptIs ==
  ASSUME PromptStays, pending \in Seq(LayerCommands), saved.cache.buffer # 0
  PROVE  /\ saved.cache.buffer \in Buffers /\ saved.cache.buffer \in Used
         /\ cache.buffer # saved.cache.buffer
         /\ \A k \in 1 .. Len(pending) : saved.cache.buffer \notin WritesTo(pending[k])
<1>1. saved # NoState
  BY NoStateIs
<1>2. saved \in States
  BY <1>1 DEF PromptStays
<1>3. saved.cache.buffer \in Used
  BY UsesOf DEF Used
<1> QED
  BY <1>1, <1>2, <1>3 DEF PromptStays, States, Places, Buffers

LEMMA BeginCopyInv ==
  ASSUME IInv, NEW state, BeginCopy(state),
         \/ cache.buffer # 0 /\ state = [cache |-> cache, past |-> past]
         \/ saved # NoState /\ state = saved
  PROVE  IInv'
<1>1. PICK f : MemoryFollows(f)
  BY DEF IInv
<1>2. PICK k \in 1 .. MaxRows :
        /\ HasRoom /\ FlushBegin(Replica)
        /\ copy' = [source |-> state, repeats |-> k]
        /\ UNCHANGED <<window, memory, cache, past, saved, fed>>
  BY DEF BeginCopy
<1>3. pending' = pending /\ flushing \in [Threads -> BOOLEAN] /\ Replica \in Threads
      /\ flushing' = [flushing EXCEPT ![Replica] = TRUE]
      /\ before' = [before EXCEPT ![Replica] = Len(pending)] /\ Len(pending) \in Nat
      /\ before \in [Threads -> 0 .. Len(pending)]
  BY <1>2, KVCacheAssumption DEF FlushBegin, IInv, QueueInv, QueueOf
<1>4. QueueInv(LayerCommands)'
  BY <1>2, <1>3, FlushBeginQueue DEF IInv
<1>5. MemoryFollows(f)'
  BY <1>1, <1>2, <1>3 DEF MemoryFollows, Used
<1>6. PromptStays'
  <2>1. saved.cache.buffer # 0 =>
           /\ cache'.buffer # saved.cache.buffer
           /\ \A j \in 1 .. Len(pending') : saved.cache.buffer \notin WritesTo(pending'[j])
           /\ memory'[saved.cache.buffer] = memory[saved.cache.buffer]
    BY <1>2, <1>3, PromptIs DEF IInv, QueueInv, QueueOf
  <2> QED
    BY <1>2, <2>1, PromptInv DEF IInv
<1>7. copy' # NoCopy /\ copy'.repeats = k /\ copy'.source = state /\ k \in Nat \ {0}
  BY <1>2 DEF NoCopy
<1>8. Shape'
  <2>1. PlaceFits(cache, past)'
    BY <1>2 DEF Shape, PlaceFits, IInv
  <2> QED
    BY <1>2, <1>3, <1>7, <2>1 DEF Shape, IInv
<1>9. CopyWaits'
  <2>1. before'[Replica] = Len(pending')
    BY <1>3
  <2>2. \A j \in before'[Replica] + 1 .. Len(pending') : pending'[j] = OtherWork
    BY <1>3, <2>1
  <2>3. FreeBuffers(Start)' # {}
    <3>1. FreeBuffers(Start) # {}
      BY <1>2, RoomForThree DEF HasThree
    <3>2. FreeBuffers(Start)' = FreeBuffers(Start)
      BY <1>2, <1>3 DEF FreeBuffers, Start
    <3> QED
      BY <3>1, <3>2
  <2> QED
    BY <1>2, <1>7, <2>2, <2>3 DEF CopyWaits
<1> QED
  BY <1>4, <1>5, <1>6, <1>8, <1>9 DEF IInv

LEMMA OtherCommitInv ==
  ASSUME IInv, NEW t \in Threads \ {Replica}, OtherCommit(t)
  PROVE  IInv'
<1>1. PICK f : MemoryFollows(f)
  BY DEF IInv
<1>2. /\ Commit(t, <<OtherWork>>)
      /\ window' = window /\ memory' = memory /\ cache' = cache /\ past' = past /\ saved' = saved
      /\ copy' = copy /\ fed' = fed
  BY DEF OtherCommit, layerVars, OtherWork
<1>3. pending \in Seq(LayerCommands) /\ OtherWork \in LayerCommands
  BY DEF IInv, QueueInv, QueueOf, LayerCommands
<1>4. pending' = Append(pending, OtherWork) /\ flushing' = flushing /\ before' = before
  BY <1>2, <1>3 DEF Commit
<1>5. QueueInv(LayerCommands)'
  <2>1. <<OtherWork>> \in Seq(LayerCommands)
    BY <1>3
  <2> QED
    BY <1>2, <2>1, CommitQueue DEF IInv
<1>6. OtherWork.op = "other" /\ BuffersOf(OtherWork) = {} /\ WritesTo(OtherWork) = {}
  BY DEF OtherWork, BuffersOf, WritesTo
<1>7. Used' = Used
  <2>1. InUse(Append(pending, OtherWork), cache, saved) = InUse(pending, cache, saved) \cup BuffersOf(OtherWork)
    BY <1>3, UsesOfMore
  <2>2. InUse(Append(pending, OtherWork), cache, saved) = InUse(pending, cache, saved)
    BY <1>6, <2>1
  <2>3. Used' = InUse(Append(pending, OtherWork), cache, saved)
    BY <1>2, <1>4 DEF Used
  <2> QED
    BY <2>2, <2>3 DEF Used
<1>8. Len(pending') = Len(pending) + 1 /\ Len(pending) \in Nat
      /\ \A k \in 1 .. Len(pending') :
           IF k = Len(pending) + 1 THEN pending'[k] = OtherWork
           ELSE k \in 1 .. Len(pending) /\ pending'[k] = pending[k]
  BY <1>3, <1>4
<1>9. \E h : MemoryFollows(h)'
  <2>1. Follows(f, memory, pending, Used) /\ ReadsRight(f, pending)
    BY <1>1 DEF MemoryFollows
  <2>2. OtherWork.op # "sdpa"
    BY <1>6
  <2>3. PICK h : /\ Follows(h, memory, Append(pending, OtherWork), Used)
                 /\ ReadsRight(h, Append(pending, OtherWork))
                 /\ h[Len(pending) + 1] = Effect(f[Len(pending)], OtherWork)
    BY <1>3, <2>1, <2>2, FollowsMore
  <2>4. Effect(f[Len(pending)], OtherWork) = f[Len(pending)]
    BY <1>6 DEF Effect
  <2>5. MemoryFollows(h)'
    BY <1>1, <1>2, <1>4, <1>7, <1>8, <2>3, <2>4 DEF MemoryFollows
  <2> QED
    BY <2>5
<1>10. PromptStays'
  <2>1. saved.cache.buffer # 0 =>
           /\ cache'.buffer # saved.cache.buffer
           /\ \A k \in 1 .. Len(pending') : saved.cache.buffer \notin WritesTo(pending'[k])
           /\ memory'[saved.cache.buffer] = memory[saved.cache.buffer]
    BY <1>2, <1>3, <1>6, <1>8, PromptIs DEF IInv
  <2> QED
    BY <1>2, <2>1, PromptInv DEF IInv
<1>11. Shape'
  <2>1. PlaceFits(cache, past)'
    BY <1>2 DEF Shape, PlaceFits, IInv
  <2> QED
    BY <1>2, <1>4, <2>1 DEF Shape, IInv
<1>12. CopyWaits'
  <2> SUFFICES ASSUME copy # NoCopy
               PROVE  /\ \A k \in before[Replica] + 1 .. Len(pending') : pending'[k] = OtherWork
                      /\ FreeBuffers(Start)' # {}
    BY <1>2, <1>4 DEF CopyWaits, IInv
  <2>1. /\ \A k \in before[Replica] + 1 .. Len(pending) : pending[k] = OtherWork
        /\ FreeBuffers(Start) # {}
    BY DEF CopyWaits, IInv
  <2>2. before[Replica] \in Nat
    BY <1>8, KVCacheAssumption DEF IInv, QueueInv, QueueOf
  <2>3. \A k \in before[Replica] + 1 .. Len(pending') : pending'[k] = OtherWork
    BY <1>8, <2>1, <2>2
  <2>4. FreeBuffers(Start)' = FreeBuffers(Start)
    <3>1. (pending \o Start.commands)' = pending' /\ pending \o Start.commands = pending
      BY <1>3, <1>4 DEF Start
    <3>2. Start.cache = cache /\ Start.cache' = cache
      BY <1>2 DEF Start
    <3> QED
      BY <1>2, <1>7, <3>1, <3>2 DEF FreeBuffers, Used
  <2> QED
    BY <2>1, <2>3, <2>4
<1> QED
  BY <1>5, <1>9, <1>10, <1>11, <1>12 DEF IInv

LEMMA ExecuteInv == ASSUME IInv, ExecuteCommand PROVE IInv'
<1>1. PICK f : MemoryFollows(f)
  BY DEF IInv
<1>2. /\ Execute
      /\ memory' = Retained(Effect(memory, Head(pending)), InUse(pending', cache, saved))
      /\ window' = window /\ cache' = cache /\ past' = past /\ saved' = saved
      /\ copy' = copy /\ fed' = fed
  BY DEF ExecuteCommand
<1>3. pending \in Seq(LayerCommands) /\ pending # <<>> /\ memory \in Memories
  BY <1>2 DEF IInv, QueueInv, QueueOf, Execute, Shape
<1>4. pending' = Tail(pending) /\ flushing' = flushing
      /\ before' = [t \in Threads |-> Sooner(before[t])]
  BY <1>2 DEF Execute
<1>5. QueueInv(LayerCommands)'
  BY <1>2, ExecuteQueue DEF IInv
<1>6. /\ pending' \in Seq(LayerCommands) /\ Len(pending) \in Nat \ {0} /\ Len(pending') = Len(pending) - 1
      /\ \A k \in 1 .. Len(pending') : k + 1 \in 1 .. Len(pending) /\ pending'[k] = pending[k + 1]
      /\ Head(pending) = pending[1] /\ Head(pending) \in LayerCommands /\ 1 \in 1 .. Len(pending)
  BY <1>3, <1>4
<1>7. PICK used : used = InUse(pending', cache, saved)
  OBVIOUS
<1>8. Used' = used
  BY <1>2, <1>7 DEF Used
<1>9. used \subseteq Used
  <2>1. \A k \in DOMAIN pending' : k + 1 \in DOMAIN pending /\ pending'[k] = pending[k + 1]
    BY <1>3, <1>6
  <2> QED
    BY <1>7, <2>1 DEF Used, InUse
<1>10. /\ \A k \in 1 .. Len(pending') : BuffersOf(pending'[k]) \subseteq used
       /\ saved.cache.buffer \in used
  BY <1>6, <1>7, UsesOf
<1>11. PICK m : m = Effect(memory, Head(pending))
  OBVIOUS
<1>12. m \in Memories
  BY <1>3, <1>6, <1>11, EffectType
<1>13. memory' \in Memories /\ \A b \in used \cap Buffers : memory'[b] = m[b]
  BY <1>2, <1>7, <1>11, <1>12, RetainedIs
<1>14. PICK h : KeepsRest(h, f, memory', pending, used)
  <2>1. PICK w, v : w = memory' /\ v = memory
    OBVIOUS
  <2>2. Follows(f, v, pending, Used) /\ ReadsRight(f, pending)
    BY <1>1, <2>1 DEF MemoryFollows
  <2>3. /\ used \cap Buffers \subseteq Used
        /\ \A k \in 1 .. Len(Tail(pending)) : BuffersOf(Tail(pending)[k]) \subseteq used
        /\ w \in Memories /\ \A b \in used \cap Buffers : w[b] = Effect(v, Head(pending))[b]
    BY <1>4, <1>9, <1>10, <1>11, <1>13, <2>1
  <2>4. \E g : KeepsRest(g, f, w, pending, used)
    BY <1>3, <2>2, <2>3, FollowsLess
  <2> QED
    BY <2>1, <2>4
<1>15. MemoryFollows(h)'
  <2>1. Follows(h, memory', pending', used) /\ ReadsRight(h, pending')
        /\ \A b \in used \cap Buffers : h[Len(pending')][b] = f[Len(pending)][b]
    BY <1>4, <1>14 DEF KeepsRest
  <2>2. cache.buffer # 0 => cache.buffer \in used \cap Buffers
    BY <1>6, <1>7, UsesOf DEF IInv, Shape, Places, Buffers
  <2>3. cache.buffer # 0 =>
          HoldsKeys(f[Len(pending)][cache.buffer], cache.dim, Held(cache.dim, past))
    BY <1>1 DEF MemoryFollows
  <2> QED
    BY <1>2, <1>8, <2>1, <2>2, <2>3 DEF MemoryFollows
<1>16. PromptStays'
  <2> SUFFICES ASSUME saved.cache.buffer # 0
               PROVE  /\ cache'.buffer # saved.cache.buffer
                      /\ \A k \in 1 .. Len(pending') : saved.cache.buffer \notin WritesTo(pending'[k])
                      /\ memory'[saved.cache.buffer] = memory[saved.cache.buffer]
    BY <1>2, PromptInv DEF IInv
  <2>1. /\ saved.cache.buffer \in Buffers /\ cache.buffer # saved.cache.buffer
        /\ \A k \in 1 .. Len(pending) : saved.cache.buffer \notin WritesTo(pending[k])
    BY <1>3, PromptIs DEF IInv
  <2>2. memory'[saved.cache.buffer] = m[saved.cache.buffer]
    BY <1>10, <1>13, <2>1
  <2>3. m[saved.cache.buffer] = memory[saved.cache.buffer]
    BY <1>3, <1>6, <1>11, <2>1, EffectElsewhere
  <2> QED
    BY <1>2, <1>6, <2>1, <2>2, <2>3
<1>17. Shape'
  <2>1. PlaceFits(cache, past)'
    BY <1>2 DEF Shape, PlaceFits, IInv
  <2> QED
    BY <1>2, <1>4, <1>13, <2>1 DEF Shape, IInv
<1>18. CopyWaits'
  <2> SUFFICES ASSUME copy # NoCopy
               PROVE  /\ \A k \in before'[Replica] + 1 .. Len(pending') : pending'[k] = OtherWork
                      /\ FreeBuffers(Start)' # {}
    BY <1>2 DEF CopyWaits, IInv
  <2>1. /\ \A k \in before[Replica] + 1 .. Len(pending) : pending[k] = OtherWork
        /\ FreeBuffers(Start) # {}
    BY DEF CopyWaits, IInv
  <2>2. before[Replica] \in Nat /\ before'[Replica] = Sooner(before[Replica])
    BY <1>4, <1>6, KVCacheAssumption DEF IInv, QueueInv, QueueOf
  <2>3. \A k \in before'[Replica] + 1 .. Len(pending') : pending'[k] = OtherWork
    <3> SUFFICES ASSUME NEW k \in before'[Replica] + 1 .. Len(pending') PROVE pending'[k] = OtherWork
      OBVIOUS
    <3>1. before'[Replica] \in Nat /\ before[Replica] <= before'[Replica] + 1
      BY <2>2 DEF Sooner
    <3>2. k \in 1 .. Len(pending') /\ k + 1 \in before[Replica] + 1 .. Len(pending)
      BY <1>6, <2>2, <3>1
    <3> QED
      BY <1>6, <2>1, <3>2
  <2>4. FreeBuffers(Start) \subseteq FreeBuffers(Start)'
    <3>1. (pending \o Start.commands)' = pending' /\ pending \o Start.commands = pending
      BY <1>3, <1>6 DEF Start
    <3>2. Start.cache = cache /\ Start.cache' = cache
      BY <1>2 DEF Start
    <3>3. FreeBuffers(Start) = (1 .. MaxBuffers) \ Used /\ FreeBuffers(Start)' = (1 .. MaxBuffers) \ used
      BY <1>2, <1>7, <3>1, <3>2 DEF FreeBuffers, Used
    <3> QED
      BY <1>9, <3>3
  <2> QED
    BY <2>1, <2>3, <2>4
<1> QED
  BY <1>5, <1>15, <1>16, <1>17, <1>18 DEF IInv

-----------------------------------------------------------------------------
(* Copies by the CPU.                                                      *)

LEMMA RowsRepeated ==
  ASSUME NEW k \in Nat \ {0}, NEW l \in Nat \ {0}
  PROVE  /\ k * l \in Nat \ {0}
         /\ \A r \in 1 .. k * l : RepeatedRow(r, k) \in 1 .. l
<1>1. k * l \in Nat \ {0}
  OBVIOUS
<1>2. ASSUME NEW r \in 1 .. k * l PROVE RepeatedRow(r, k) \in 1 .. l
  <2>1. PICK q \in Nat, m \in Nat : r - 1 = k * q + m /\ q = (r - 1) \div k
    <3>1. PICK i \in Nat : i = r - 1
      BY <1>1
    <3>2. i \div k \in Nat /\ i % k \in Nat /\ i = (k * (i \div k)) + (i % k)
      OBVIOUS
    <3> QED
      BY <3>1, <3>2
  <2>2. q < l
    <3> SUFFICES ASSUME q >= l PROVE FALSE
      OBVIOUS
    <3>1. PICK d \in Nat : q = l + d
      <4>1. q - l \in Nat /\ q = l + (q - l)
        OBVIOUS
      <4> QED
        BY <4>1
    <3>2. k * q = k * l + k * d /\ k * d \in Nat
      BY <3>1
    <3> QED
      BY <1>1, <2>1, <3>2
  <2> QED
    BY <2>1, <2>2 DEF RepeatedRow
<1> QED
  BY <1>1, <1>2

(* When the flush of a copy may return, nothing of what the replica        *)
(* committed is pending: the memory has the keys of the state.             *)
LEMMA SourceIs ==
  ASSUME IInv, CanReturn(Replica)
  PROVE  /\ copy # NoCopy /\ copy.repeats \in Nat \ {0} /\ FreeBuffers(Start) # {}
         /\ copy.source \in States /\ PlaceFits(copy.source.cache, copy.source.past)
         /\ copy.source.cache.buffer \in Buffers
         /\ copy.source.cache.buffer \in {cache.buffer, saved.cache.buffer}
         /\ saved = NoState => copy.source.cache.buffer = cache.buffer
         /\ HoldsKeys(memory[copy.source.cache.buffer], copy.source.cache.dim,
                      Held(copy.source.cache.dim, copy.source.past))
         /\ \A k \in 1 .. Len(pending) : pending[k] = OtherWork
<1>1. PICK f : MemoryFollows(f)
  BY DEF IInv
<1>2. copy # NoCopy /\ pending \in Seq(LayerCommands)
  BY DEF CanReturn, IInv, Shape, QueueInv, QueueOf
<1>3. before[Replica] = 0
  BY FlushedIsDone, KVCacheAssumption DEF IInv
<1>4. /\ copy.repeats \in Nat \ {0} /\ FreeBuffers(Start) # {}
      /\ \/ cache.buffer # 0 /\ copy.source = [cache |-> cache, past |-> past]
         \/ saved # NoState /\ copy.source = saved
      /\ \A k \in 0 + 1 .. Len(pending) : pending[k] = OtherWork
  BY <1>2, <1>3 DEF CopyWaits, IInv
<1>5. \A k \in 1 .. Len(pending) : pending[k] = OtherWork
  BY <1>4
<1>6. CASE cache.buffer # 0 /\ copy.source = [cache |-> cache, past |-> past]
  <2>1. cache \in Places /\ past \in Texts /\ PlaceFits(cache, past) /\ cache.buffer \in Buffers
    BY <1>6 DEF IInv, Shape, Places, Buffers
  <2>2. cache.buffer \in Used \cap Buffers
    BY <1>2, <2>1, UsesOf DEF Used
  <2>3. \A k \in 1 .. Len(pending) : cache.buffer \notin WritesTo(pending[k])
    BY <1>5 DEF WritesTo, OtherWork
  <2>4. f[Len(pending)][cache.buffer] = memory[cache.buffer]
    BY <1>1, <1>2, <2>2, <2>3, NotWritten DEF MemoryFollows
  <2>5. HoldsKeys(memory[cache.buffer], cache.dim, Held(cache.dim, past))
    BY <1>1, <1>6, <2>4 DEF MemoryFollows
  <2> QED
    BY <1>2, <1>4, <1>5, <1>6, <2>1, <2>5 DEF States
<1>7. CASE saved # NoState /\ copy.source = saved
  <2>1. /\ saved \in States /\ saved.cache.buffer # 0 /\ PlaceFits(saved.cache, saved.past)
        /\ HoldsKeys(memory[saved.cache.buffer], saved.cache.dim, Held(saved.cache.dim, saved.past))
    BY <1>7 DEF PromptStays, IInv
  <2> QED
    BY <1>2, <1>4, <1>5, <1>7, <2>1 DEF States, Places, Buffers
<1> QED
  BY <1>4, <1>6, <1>7

LEMMA TextOf ==
  ASSUME NEW m \in Nat, NEW t, t = [r \in 1 .. m |-> t[r]], \A r \in 1 .. m : t[r] \in Seq(Keys)
  PROVE  t \in Texts /\ Len(t) = m /\ DOMAIN t = 1 .. m
<1>1. t \in [1 .. m -> Seq(Keys)]
  OBVIOUS
<1>2. PICK S : S = Seq(Keys)
  OBVIOUS
<1>3. t \in Seq(S) /\ Len(t) = m
  BY <1>1, <1>2
<1> QED
  BY <1>1, <1>2, <1>3 DEF Texts

RepeatedRows(n, k) == [r \in 1 .. k * n |-> RepeatedRow(r, k)]
Taken(keys, rows) == [r \in DOMAIN rows |-> keys[rows[r]]]

LEMMA RepeatedIs ==
  ASSUME NEW k \in Nat \ {0}, NEW keys \in Texts, keys # <<>>, NEW n \in Nat, Even(keys, n),
         NEW rows, rows = RepeatedRows(Len(keys), k), NEW out, out = Taken(keys, rows)
  PROVE  /\ rows \in Seq(Nat) /\ Len(rows) \in Nat \ {0} /\ DOMAIN rows = 1 .. Len(rows)
         /\ \A r \in DOMAIN rows : rows[r] \in DOMAIN keys
         /\ out \in Texts /\ Len(out) = Len(rows)
         /\ \A r \in DOMAIN rows : out[r] = keys[rows[r]]
         /\ Even(out, n)
<1>1. PICK l \in Nat \ {0} : l = Len(keys) /\ DOMAIN keys = 1 .. l
  BY DEF Texts
<1>2. PICK m \in Nat \ {0} : m = k * l
  BY RowsRepeated
<1>3. \A r \in 1 .. m : RepeatedRow(r, k) \in 1 .. l
  BY <1>2, RowsRepeated
<1>4. /\ rows \in Seq(Nat) /\ Len(rows) = m /\ DOMAIN rows = 1 .. m
      /\ \A r \in 1 .. m : rows[r] \in DOMAIN keys
  <2> DEFINE item(r) == RepeatedRow(r, k)
  <2>1. rows = [r \in 1 .. m |-> item(r)]
    BY <1>1, <1>2 DEF RepeatedRows
  <2>2. \A r \in 1 .. m : item(r) \in Nat /\ item(r) \in DOMAIN keys
    BY <1>1, <1>3
  <2> HIDE DEF item
  <2> QED
    BY <2>1, <2>2
<1>5. \A r \in 1 .. m : keys[rows[r]] \in Seq(Keys) /\ Len(keys[rows[r]]) = n
  BY <1>1, <1>4, TextRows DEF Even
<1>6. out = [r \in 1 .. m |-> keys[rows[r]]]
  BY <1>4 DEF Taken
<1>7. out \in Texts /\ Len(out) = m /\ DOMAIN out = 1 .. m
  <2> DEFINE item(r) == keys[rows[r]]
  <2>1. out = [r \in 1 .. m |-> item(r)] /\ \A r \in 1 .. m : item(r) \in Seq(Keys)
    BY <1>5, <1>6
  <2> HIDE DEF item
  <2>2. out = [r \in 1 .. m |-> out[r]] /\ \A r \in 1 .. m : out[r] \in Seq(Keys)
    BY <2>1
  <2>3. m \in Nat
    OBVIOUS
  <2> QED
    BY ONLY <2>2, <2>3, TextOf
<1>8. \A r \in 1 .. m : out[r] = keys[rows[r]]
  BY <1>6
<1>9. Even(out, n)
  BY <1>5, <1>7, <1>8 DEF Even
<1> QED
  BY <1>4, <1>7, <1>8, <1>9

(* Rows that are read whole, and put in a buffer of their own, hold what   *)
(* they held.                                                              *)
LEMMA CopyHolds ==
  ASSUME NEW x \in Seq(Keys), NEW dim \in Nat, NEW keys \in Texts,
         HoldsKeys(x, dim, Held(dim, keys)),
         NEW rows \in Seq(Nat), \A r \in DOMAIN rows : rows[r] \in DOMAIN keys,
         NEW read, read = [r \in DOMAIN rows |-> Row(x, dim, rows[r], dim)],
         NEW out \in Texts, Len(out) = Len(rows), \A r \in DOMAIN rows : out[r] = keys[rows[r]]
  PROVE  /\ Put(Blank(Len(rows) * dim), dim, 0, read) \in Seq(Keys)
         /\ HoldsKeys(Put(Blank(Len(rows) * dim), dim, 0, read), dim, Held(dim, out))
<1>1. PICK n \in Nat : n = Len(rows) /\ DOMAIN rows = 1 .. n
  OBVIOUS
<1>2. PICK old \in Texts, held \in Texts :
        /\ old = Held(dim, keys) /\ held = Held(dim, out)
        /\ Len(held) = n /\ DOMAIN held = 1 .. n /\ DOMAIN old = DOMAIN keys
  BY <1>1, HeldIs, TextRows
<1>3. read \in Texts /\ Len(read) = n /\ \A r \in 1 .. n : Len(read[r]) = dim
  <2> DEFINE item(r) == Row(x, dim, rows[r], dim)
  <2>1. \A r \in 1 .. n : item(r) \in Seq(Keys) /\ Len(item(r)) = dim
    BY RowType
  <2>2. read = [r \in 1 .. n |-> item(r)]
    BY <1>1
  <2> HIDE DEF item
  <2>3. /\ read = [r \in 1 .. n |-> read[r]]
        /\ \A r \in 1 .. n : read[r] \in Seq(Keys) /\ Len(read[r]) = dim
    BY <2>1, <2>2
  <2> QED
    BY <2>3, TextOf
<1>4. PICK blank \in Seq(Keys) : blank = Blank(n * dim) /\ HasRows(blank, n, dim)
  <2>1. Len([r \in 1 .. n |-> <<>>]) = n
    OBVIOUS
  <2>2. HoldsKeys(Blank(n * dim), dim, [r \in 1 .. n |-> <<>>]) /\ Blank(n * dim) \in Seq(Keys)
    BY BlankHolds
  <2> QED
    BY <2>1, <2>2 DEF HoldsKeys
<1>5. \A r \in DOMAIN held :
        /\ Len(held[r]) <= dim /\ Len(held[r]) <= Len(read[r])
        /\ \A j \in 1 .. Len(held[r]) : read[r][j] = held[r][j]
  <2> SUFFICES ASSUME NEW r \in DOMAIN held
               PROVE  /\ Len(held[r]) <= dim /\ Len(held[r]) <= Len(read[r])
                      /\ \A j \in 1 .. Len(held[r]) : read[r][j] = held[r][j]
    OBVIOUS
  <2>1. PICK i \in DOMAIN old : i = rows[r] /\ out[r] = keys[i] /\ r \in 1 .. n
    BY <1>1, <1>2
  <2>2. held[r] = old[i]
    BY <1>1, <1>2, <2>1, HeldIs, TextRows
  <2>3. PICK row : row = Row(x, dim, i, dim)
    OBVIOUS
  <2>4. Len(row) = dim /\ \A j \in 1 .. dim : j <= Len(old[i]) => row[j] = old[i][j]
    <3>1. HoldsKeys(x, dim, old)
      BY <1>2
    <3>2. /\ Row(x, dim, i, dim) \in Seq(Keys) /\ Len(Row(x, dim, i, dim)) = dim
          /\ \A j \in 1 .. dim : j <= Len(old[i]) => Row(x, dim, i, dim)[j] = old[i][j]
      <4>1. x \in Seq(Keys) /\ dim \in Nat /\ old \in Texts /\ i \in DOMAIN old
        OBVIOUS
      <4> QED
        BY ONLY <3>1, <4>1, RowHolds
    <3> QED
      BY <2>3, <3>2
  <2>5. read[r] = row
    BY <1>1, <2>1, <2>3
  <2>6. Len(old[i]) \in Nat /\ Len(old[i]) <= dim
    BY <1>2, <2>1, TextRows DEF HoldsKeys
  <2>7. PICK l, y : l \in Nat /\ l = Len(old[i]) /\ y = old[i] /\ l <= dim
    BY <2>6
  <2>8. \A j \in 1 .. l : row[j] = y[j]
    BY <2>4, <2>7
  <2> QED
    BY <2>2, <2>4, <2>5, <2>7, <2>8
<1>6. HoldsKeys(Put(blank, dim, 0, read), dim, held)
  <2>1. /\ blank \in Seq(Keys) /\ dim \in Nat /\ read \in Texts /\ held \in Texts
        /\ Len(read) = Len(held) /\ HasRows(blank, Len(held), dim)
    BY <1>2, <1>3, <1>4
  <2> QED
    BY ONLY <1>5, <2>1, PutHolds
<1>7. Put(blank, dim, 0, read) \in Seq(Keys)
  <2>1. PICK zero \in Nat : zero = 0
    OBVIOUS
  <2>2. Put(blank, dim, zero, read) \in Seq(Keys)
    BY <1>3, PutType
  <2> QED
    BY <2>1, <2>2
<1> QED
  BY <1>1, <1>2, <1>4, <1>6, <1>7

LEMMA EndCopyInv == ASSUME IInv, EndCopy PROVE IInv'
<1>1. PICK f : MemoryFollows(f)
  BY DEF IInv
<1>2. CanReturn(Replica)
  BY DEF EndCopy, FlushEnd
<1>3. PICK from \in States : from = copy.source
  BY <1>2, SourceIs
<1>27. PICK k \in Nat \ {0}, dim \in Nat, keys \in Texts :
         k = copy.repeats /\ dim = from.cache.dim /\ keys = from.past
  BY <1>2, <1>3, SourceIs DEF States, Places
<1>28. /\ PlaceFits(from.cache, keys)
       /\ from.cache.buffer \in Buffers
       /\ from.cache.buffer \in {cache.buffer, saved.cache.buffer}
       /\ saved = NoState => from.cache.buffer = cache.buffer
       /\ HoldsKeys(memory[from.cache.buffer], dim, Held(dim, keys))
       /\ \A j \in 1 .. Len(pending) : pending[j] = OtherWork
       /\ FreeBuffers(Start) # {}
  BY <1>2, <1>3, <1>27, SourceIs
<1>4. PICK n \in Nat : n # 0 /\ keys # <<>> /\ Even(keys, n)
  <2>1. keys # <<>> /\ Len(keys[1]) # 0 /\ \A r \in DOMAIN keys : Len(keys[r]) = Len(keys[1])
    BY <1>28 DEF PlaceFits, Buffers
  <2>2. Len(keys[1]) \in Nat
    BY <2>1 DEF Texts
  <2> QED
    BY <2>1, <2>2 DEF Even
<1>5. PICK rows : rows = [r \in 1 .. k * Len(keys) |-> RepeatedRow(r, k)]
  OBVIOUS
<1>6. PICK out : out = [r \in DOMAIN rows |-> keys[rows[r]]]
  OBVIOUS
<1>7. PICK read : read = [r \in DOMAIN rows |-> Row(memory[from.cache.buffer], dim, rows[r], dim)]
  OBVIOUS
<1>8. /\ rows \in Seq(Nat) /\ Len(rows) \in Nat \ {0}
      /\ \A r \in DOMAIN rows : rows[r] \in DOMAIN keys
      /\ out \in Texts /\ Len(out) = Len(rows)
      /\ \A r \in DOMAIN rows : out[r] = keys[rows[r]]
      /\ Even(out, n)
  <2>1. PICK ks \in Texts : ks = keys /\ ks # <<>> /\ Even(ks, n)
    BY <1>4
  <2>2. rows = RepeatedRows(Len(ks), k) /\ out = Taken(ks, rows)
    BY <1>5, <1>6, <2>1 DEF RepeatedRows, Taken
  <2>3. /\ rows \in Seq(Nat) /\ Len(rows) \in Nat \ {0} /\ DOMAIN rows = 1 .. Len(rows)
        /\ \A r \in DOMAIN rows : rows[r] \in DOMAIN ks
        /\ out \in Texts /\ Len(out) = Len(rows)
        /\ \A r \in DOMAIN rows : out[r] = ks[rows[r]]
        /\ Even(out, n)
    <3>1. k \in Nat \ {0} /\ ks \in Texts /\ n \in Nat
      OBVIOUS
    <3> QED
      BY ONLY <2>1, <2>2, <3>1, RepeatedIs
  <2> QED
    BY <2>1, <2>3
<1>9. /\ pending \in Seq(LayerCommands) /\ memory \in Memories /\ window \in Nat
      /\ Situation(f) /\ Start \in Steps /\ UsedBy(Start) = Used
  BY <1>1, SituationOf DEF IInv, QueueInv, QueueOf, Shape, Situation, Plan
<1>10. PICK x \in Seq(Keys) : /\ x = Put(Blank(Len(rows) * dim), dim, 0, read)
                              /\ HoldsKeys(x, dim, Held(dim, out))
  <2>1. PICK y \in Seq(Keys) : y = memory[from.cache.buffer]
    BY <1>9, <1>28 DEF Memories
  <2>2. HoldsKeys(y, dim, Held(dim, keys)) /\ read = [r \in DOMAIN rows |-> Row(y, dim, rows[r], dim)]
    BY <1>7, <1>28, <2>1
  <2>3. /\ Put(Blank(Len(rows) * dim), dim, 0, read) \in Seq(Keys)
        /\ HoldsKeys(Put(Blank(Len(rows) * dim), dim, 0, read), dim, Held(dim, out))
    BY <1>8, <2>2, CopyHolds
  <2> QED
    BY <2>3
<1>11. PICK b \in Buffers :
         /\ b \notin Used
         /\ Allocate(Start, Len(rows), dim) =
              [cache |-> [buffer |-> b, dim |-> dim],
               memory |-> [memory EXCEPT ![b] = Blank(Len(rows) * dim)],
               commands |-> <<>>]
  <2>1. PICK l \in Nat : l = Len(rows)
    BY <1>8
  <2>2. PICK b \in FreeBuffers(Start) :
           /\ b \in Buffers /\ b \notin UsedBy(Start)
           /\ Allocate(Start, l, dim) = [cache |-> [buffer |-> b, dim |-> dim],
                                         memory |-> [Start.memory EXCEPT ![b] = Blank(l * dim)],
                                         commands |-> Start.commands]
    BY <1>9, <1>28, AllocateIs
  <2> QED
    BY <1>9, <2>1, <2>2, StartIs
<1>12. PICK save \in BOOLEAN :
         /\ save => saved = NoState
         /\ FlushEnd(Replica)
         /\ saved' = IF save THEN from ELSE saved
         /\ cache' = [buffer |-> b, dim |-> dim]
         /\ memory' = Retained([memory EXCEPT ![b] = x], InUse(pending, cache', saved'))
         /\ past' = out /\ copy' = NoCopy /\ fed' = FALSE /\ window' = window
  <2>1. PICK s : s = Allocate(Start, Len(rows), dim)
    OBVIOUS
  <2>2. PICK save \in BOOLEAN :
         /\ save => saved = NoState
         /\ FlushEnd(Replica)
         /\ saved' = IF save THEN from ELSE saved
         /\ cache' = s.cache
         /\ memory' = Retained([s.memory EXCEPT ![cache'.buffer] =
                                  Put(s.memory[cache'.buffer], dim, 0, read)],
                               InUse(pending, cache', saved'))
         /\ past' = out /\ copy' = NoCopy /\ fed' = FALSE /\ window' = window
    BY <1>3, <1>27, <1>28, <1>5, <1>6, <1>7, <2>1 DEF EndCopy
  <2>3. /\ s.cache = [buffer |-> b, dim |-> dim]
        /\ s.memory = [memory EXCEPT ![b] = Blank(Len(rows) * dim)]
    BY <1>11, <2>1
  <2>4. s.memory[b] = Blank(Len(rows) * dim) /\ \A y : [s.memory EXCEPT ![b] = y] = [memory EXCEPT ![b] = y]
    BY <1>9, <2>3 DEF Memories
  <2>5. cache'.buffer = b
    BY <2>2, <2>3
  <2>6. memory' = Retained([memory EXCEPT ![b] = x], InUse(pending, cache', saved'))
    BY <1>10, <2>2, <2>4, <2>5
  <2> QED
    BY <2>2, <2>3, <2>6
<1>13. pending' = pending /\ flushing' = [flushing EXCEPT ![Replica] = FALSE] /\ before' = before
  BY <1>12 DEF FlushEnd
<1>14. PICK used : used = InUse(pending, cache', saved') /\ used = Used'
  BY <1>13 DEF Used
<1>15. cache'.buffer = b /\ cache'.dim = dim /\ cache' \in Places
  BY <1>12 DEF Places, Buffers
<1>16. from.cache.buffer \in Used /\ saved.cache.buffer \in Used
       /\ \A j \in 1 .. Len(pending) : BuffersOf(pending[j]) \subseteq Used
  <2>1. cache.buffer \in Used /\ saved.cache.buffer \in Used
        /\ \A j \in 1 .. Len(pending) : BuffersOf(pending[j]) \subseteq Used
    BY <1>9, UsesOf DEF Used
  <2> QED
    BY <1>3, <1>27, <1>28, <2>1
<1>17. /\ \A j \in 1 .. Len(pending) : BuffersOf(pending[j]) \subseteq used
       /\ b \in used /\ saved'.cache.buffer \in used
  BY <1>9, <1>14, <1>15, UsesOf
<1>18. used \subseteq Used \cup {b}
  <2>1. saved'.cache.buffer \in Used
    BY <1>12, <1>16
  <2>2. DOMAIN pending = 1 .. Len(pending)
    BY <1>9
  <2> QED
    BY <1>14, <1>15, <1>16, <2>1, <2>2 DEF InUse
<1>19. PICK m \in Memories : /\ m = [memory EXCEPT ![b] = x] /\ m[b] = x
                             /\ \A a \in Buffers : a # b => m[a] = memory[a]
  <2> DEFINE with == [memory EXCEPT ![b] = x]
  <2>1. with \in Memories /\ with[b] = x /\ \A a \in Buffers : a # b => with[a] = memory[a]
    BY <1>9 DEF Memories
  <2> HIDE DEF with
  <2>2. PICK m : m = with
    OBVIOUS
  <2> QED
    BY <2>1, <2>2 DEF with
<1>20. memory' \in Memories /\ \A a \in used \cap Buffers : memory'[a] = m[a]
  <2>1. memory' = Retained(m, used)
    BY <1>12, <1>14, <1>19
  <2>2. Retained(m, used) \in Memories /\ \A a \in used \cap Buffers : Retained(m, used)[a] = m[a]
    BY RetainedIs
  <2> QED
    BY <2>1, <2>2
<1>21. PICK g : MemoryFollows(g)'
  <2>1. PICK more : more = Used \cup {b}
    OBVIOUS
  <2>2. PICK w, v : w = memory' /\ v = memory
    OBVIOUS
  <2>3. Follows(f, v, pending, Used) /\ ReadsRight(f, pending)
    BY <1>1, <2>2 DEF MemoryFollows
  <2>4. PICK h : Refills(h, f, v, pending, more, b, x)
    BY <1>9, <1>11, <1>16, <2>1, <2>3, FollowsNew
  <2>5. /\ Follows(h, m, pending, more) /\ ReadsRight(h, pending)
        /\ h[Len(pending)] = [f[Len(pending)] EXCEPT ![b] = x]
    BY <1>19, <2>2, <2>4 DEF Refills
  <2>6. h[Len(pending)][b] = x
    <3>1. f[Len(pending)] \in Memories
      <4>1. Len(pending) \in 0 .. Len(pending)
        BY <1>9
      <4> QED
        BY <2>3, <4>1 DEF Follows
    <3> QED
      BY <2>5, <3>1 DEF Memories
  <2>7. used \cap Buffers \subseteq more
    BY <1>18, <2>1
  <2>8. w \in Memories /\ \A a \in used \cap Buffers : w[a] = m[a]
    BY <1>20, <2>2
  <2>9. PICK g : Keeps(g, h, w, pending, used)
    BY <1>9, <1>17, <2>5, <2>7, <2>8, FollowsFewer
  <2>10. /\ Follows(g, w, pending, used) /\ ReadsRight(g, pending)
         /\ g[Len(pending)][b] = h[Len(pending)][b]
    BY <1>17, <2>9 DEF Keeps
  <2>11. HoldsKeys(g[Len(pending)][b], dim, Held(dim, out))
    BY <1>10, <2>6, <2>10
  <2> QED
    BY <1>12, <1>13, <1>14, <1>15, <2>2, <2>10, <2>11 DEF MemoryFollows
<1>22. PromptStays'
  <2>1. CASE save
    <3>1. saved' = from /\ from.cache.buffer = cache.buffer
      BY <1>3, <1>27, <1>28, <1>12, <2>1
    <3>2. from.cache.buffer # b /\ from.cache.buffer # 0
      BY <1>3, <1>27, <1>28, <1>11, <1>16 DEF Buffers
    <3>3. memory'[from.cache.buffer] = memory[from.cache.buffer]
      BY <1>3, <1>27, <1>28, <1>17, <1>19, <1>20, <3>1, <3>2
    <3>4. \A j \in 1 .. Len(pending') : from.cache.buffer \notin WritesTo(pending'[j])
      BY <1>3, <1>27, <1>28, <1>13 DEF WritesTo, OtherWork
    <3>5. PlaceFits(saved.cache, saved.past)'
      BY <1>3, <1>27, <1>28, <1>12, <3>1 DEF PlaceFits
    <3>6. HoldsKeys(memory'[from.cache.buffer], from.cache.dim, Held(from.cache.dim, from.past))
      BY <1>3, <1>27, <1>28, <3>3
    <3> QED
      BY <1>3, <1>27, <1>28, <1>15, <3>1, <3>2, <3>4, <3>5, <3>6 DEF PromptStays
  <2>2. CASE ~save
    <3>1. saved' = saved
      BY <1>12, <2>2
    <3>2. saved.cache.buffer # 0 =>
            /\ cache'.buffer # saved.cache.buffer
            /\ \A j \in 1 .. Len(pending') : saved.cache.buffer \notin WritesTo(pending'[j])
            /\ memory'[saved.cache.buffer] = memory[saved.cache.buffer]
      BY <1>9, <1>11, <1>13, <1>15, <1>17, <1>19, <1>20, <3>1, PromptIs DEF IInv
    <3> QED
      BY <1>12, <3>1, <3>2, PromptInv DEF IInv
  <2> QED
    BY <2>1, <2>2
<1>23. PlaceFits(cache, past)'
  <2>1. out # <<>> /\ 1 \in DOMAIN out
    BY <1>8, TextRows
  <2>2. Len(out[1]) = n /\ \A r \in DOMAIN out : Len(out[r]) = Len(out[1])
    BY <1>8, <2>1 DEF Even
  <2>3. Len(keys[1]) = n
    BY <1>4, TextRows DEF Even, Texts
  <2>4. (window = 0 => dim >= n) /\ (window > 0 => dim = Least(window, n))
    BY <1>3, <1>27, <1>28, <2>3 DEF PlaceFits
  <2>5. b # 0
    BY DEF Buffers
  <2> QED
    BY <1>4, <1>12, <1>15, <2>1, <2>2, <2>4, <2>5 DEF PlaceFits
<1>24. Shape'
  <2>1. flushing'[Replica] = FALSE
    BY <1>13, KVCacheAssumption DEF IInv, QueueInv, QueueOf
  <2> QED
    BY <1>8, <1>9, <1>12, <1>15, <1>20, <1>23, <2>1 DEF Shape
<1>25. CopyWaits'
  BY <1>12 DEF CopyWaits
<1>26. QueueInv(LayerCommands)'
  BY <1>12, KVCacheAssumption, FlushEndQueue DEF IInv
<1> QED
  BY <1>21, <1>22, <1>24, <1>25, <1>26 DEF IInv

-----------------------------------------------------------------------------
(* The theorems.                                                           *)

LEMMA InitInv == Init => IInv
<1> SUFFICES ASSUME Init PROVE IInv
  OBVIOUS
<1>1. /\ QueueInit /\ window \in Windows /\ memory = [b \in 1 .. MaxBuffers |-> <<>>]
      /\ cache = Empty /\ saved = NoState /\ copy = NoCopy /\ fed = FALSE
  BY DEF Init
<1>2. PICK n \in 1 .. MaxRows : past = [r \in 1 .. n |-> <<>>]
  BY DEF Init
<1>3. pending = <<>> /\ flushing[Replica] = FALSE
  BY <1>1, KVCacheAssumption DEF QueueInit
<1>4. window \in Nat
  BY <1>1, KVCacheAssumption
<1>5. memory \in Memories
  <2>1. <<>> \in Seq(Keys)
    OBVIOUS
  <2> QED
    BY <1>1, <2>1 DEF Memories, Buffers
<1>6. /\ past \in Texts /\ past # <<>> /\ 1 \in DOMAIN past
      /\ \A r \in DOMAIN past : past[r] = <<>>
  <2>1. <<>> \in Seq(Keys)
    OBVIOUS
  <2> QED
    BY <1>2, KVCacheAssumption, <2>1 DEF Texts
<1>7. PlaceFits(cache, past)
  <2>1. \A r \in DOMAIN past : Len(past[r]) = 0
    BY <1>6
  <2> QED
    BY <1>1, <1>4, <1>6, <2>1 DEF PlaceFits, Empty, Least
<1>8. Shape
  BY <1>1, <1>3, <1>4, <1>5, <1>6, <1>7, NoStateIs DEF Shape
<1>9. \E f : MemoryFollows(f)
  <2>1. PICK f : f = [k \in 0 .. 0 |-> memory]
    OBVIOUS
  <2>2. Len(pending) = 0 /\ f \in [0 .. Len(pending) -> Memories] /\ f[0] = memory
    BY <1>3, <1>5, <2>1
  <2>3. Follows(f, memory, pending, Used) /\ ReadsRight(f, pending)
    BY <2>2 DEF Follows, ReadsRight
  <2>4. MemoryFollows(f)
    BY <1>1, <2>3 DEF MemoryFollows, Empty
  <2> QED
    BY <2>4
<1> QED
  BY <1>1, <1>8, <1>9, InitQueue DEF IInv, PromptStays, CopyWaits

LEMMA UnchangedInv == IInv /\ UNCHANGED vars => IInv'
<1> SUFFICES ASSUME IInv, UNCHANGED vars PROVE IInv'
  OBVIOUS
<1>1. PICK f : MemoryFollows(f)
  BY DEF IInv
<1>2. /\ UNCHANGED queueVars
      /\ pending' = pending /\ flushing' = flushing /\ before' = before
      /\ window' = window /\ memory' = memory /\ cache' = cache /\ past' = past /\ saved' = saved
      /\ copy' = copy /\ fed' = fed
  BY DEF vars, queueVars, layerVars
<1>3. QueueInv(LayerCommands)'
  BY <1>2, UnchangedQueue DEF IInv
<1>4. MemoryFollows(f)'
  BY <1>1, <1>2 DEF MemoryFollows, Used
<1>5. Shape'
  BY <1>2 DEF IInv, Shape, PlaceFits
<1>6. PromptStays'
  BY <1>2 DEF IInv, PromptStays, PlaceFits
<1>7. CopyWaits'
  <2>1. FreeBuffers(Start)' = FreeBuffers(Start)
    BY <1>2 DEF FreeBuffers, Start
  <2> QED
    BY <1>2, <2>1 DEF IInv, CopyWaits
<1> QED
  BY <1>3, <1>4, <1>5, <1>6, <1>7 DEF IInv

LEMMA NextInv == IInv /\ [Next]_vars => IInv'
<1> SUFFICES ASSUME IInv, [Next]_vars PROVE IInv'
  OBVIOUS
<1>1. CASE Attend
  BY <1>1, AttendInv
<1>2. CASE UpdateState
  BY <1>2, UpdateStateInv
<1>3. CASE NextGeneration
  BY <1>3, NextGenerationInv
<1>4. CASE BeginRepeat
  <2>1. cache.buffer # 0 /\ BeginCopy([cache |-> cache, past |-> past])
    BY <1>4 DEF BeginRepeat, IInv, Shape
  <2>2. PICK state : state = [cache |-> cache, past |-> past] /\ BeginCopy(state)
    BY <2>1
  <2> QED
    BY <2>1, <2>2, BeginCopyInv
<1>5. CASE BeginWithPrompt
  <2>1. saved # NoState /\ BeginCopy(saved)
    BY <1>5 DEF BeginWithPrompt, BeginCopy
  <2>2. PICK state : state = saved /\ BeginCopy(state)
    BY <2>1
  <2> QED
    BY <2>1, <2>2, BeginCopyInv
<1>6. CASE EndCopy
  BY <1>6, EndCopyInv
<1>7. CASE ExecuteCommand
  BY <1>7, ExecuteInv
<1>8. ASSUME NEW t \in Threads \ {Replica}, OtherCommit(t) PROVE IInv'
  BY <1>8, OtherCommitInv
<1>9. CASE UNCHANGED vars
  BY <1>9, UnchangedInv
<1> QED
  BY <1>1, <1>2, <1>3, <1>4, <1>5, <1>6, <1>7, <1>8, <1>9 DEF Next

(* device.mm, flush, below the cache of keys: whatever the decoder and the *)
(* other threads issue, a flush returns when all that was committed before *)
(* it began has completed.                                                 *)
THEOREM CacheFlushWaits == Spec => []FlushLeavesNothing
<1>1. IInv => FlushLeavesNothing
  BY FlushedIsDone DEF IInv, FlushLeavesNothing
<1> QED
  BY <1>1, InitInv, NextInv, PTL DEF Spec

(* attention.cc, MultiHeadAttention::operator(): whichever of the fused,   *)
(* the strided and the generic path wrote, moved or compacted the keys,    *)
(* and with or without a sliding window, the attention finds in the buffer *)
(* the keys of the past tokens and of the new ones, in order, however late *)
(* the device runs it.                                                     *)
THEOREM AttentionIsRight == Spec => []AttentionReadsThePast
<1>1. IInv => AttentionReadsThePast
  <2> SUFFICES ASSUME IInv, 1 \in DOMAIN pending, pending[1].op = "sdpa", NEW r \in DOMAIN pending[1].should
               PROVE  Row(memory[pending[1].from], pending[1].dim, r, pending[1].length)
                        = pending[1].should[r]
    BY DEF AttentionReadsThePast
  <2>1. PICK f : MemoryFollows(f)
    BY DEF IInv
  <2>2. f[0] = memory /\ ReadsRight(f, pending)
    BY <2>1 DEF MemoryFollows, Follows
  <2>3. 1 \in 1 .. Len(pending) /\ 1 - 1 = 0
    BY DEF IInv, QueueInv, QueueOf
  <2> QED
    BY <2>2, <2>3 DEF ReadsRight
<1> QED
  BY <1>1, InitInv, NextInv, PTL DEF Spec

LEMMA LeastIs == ASSUME NEW a \in Nat, NEW b \in Nat PROVE Min({a, b}) = Least(a, b)
<1>1. \E x \in {a, b} : \A y \in {a, b} : x <= y
  BY LeastNumber
<1>2. Min({a, b}) \in {a, b} /\ \A y \in {a, b} : Min({a, b}) <= y
  BY <1>1 DEF Min
<1> QED
  BY <1>2 DEF Least

(* repeat_batch of decoding_utils.h and copy_state of language_model.cc:   *)
(* the copies of a state by the CPU read what the device has written of    *)
(* all its keys; and the generations that came in between have not touched *)
(* the state of a static prompt.                                           *)
THEOREM CopiesAreRight == Spec => []CopiesAreComplete
<1>1. IInv => CopiesAreComplete
  <2> SUFFICES ASSUME IInv, CanReturn(Replica) PROVE Holds(copy.source, memory)
    BY DEF CopiesAreComplete
  <2>1. PICK from \in States : from = copy.source
    BY SourceIs
  <2>2. PICK dim \in Nat, keys \in Texts : dim = from.cache.dim /\ keys = from.past
    BY DEF States, Places
  <2>3. PICK x \in Seq(Keys) :
          x = memory[from.cache.buffer] /\ HoldsKeys(x, dim, Held(dim, keys))
    <3>1. /\ from.cache.buffer \in Buffers
          /\ HoldsKeys(memory[from.cache.buffer], dim, Held(dim, keys))
      BY <2>1, <2>2, SourceIs
    <3> QED
      BY <3>1 DEF IInv, Shape, Memories
  <2>4. ASSUME NEW r \in DOMAIN keys
        PROVE  /\ Min({dim, Len(keys[r])}) = Least(dim, Len(keys[r]))
               /\ Row(x, dim, r, Least(dim, Len(keys[r]))) = LastKeys(keys[r], Least(dim, Len(keys[r])))
    <3>1. Len(keys[r]) \in Nat
      BY TextRows
    <3>2. PICK held \in Texts : /\ held = Held(dim, keys) /\ r \in DOMAIN held
                                /\ held[r] = LastKeys(keys[r], Least(dim, Len(keys[r])))
                                /\ Len(held[r]) = Least(dim, Len(keys[r]))
      BY HeldIs
    <3>3. Row(x, dim, r, Len(held[r])) = held[r]
      BY <2>3, <3>2, RowIsKeys
    <3> QED
      BY <3>1, <3>2, <3>3, LeastIs
  <2>5. Holds(from, memory)
    BY <2>2, <2>3, <2>4 DEF Holds, LastKeys
  <2> QED
    BY <2>1, <2>5
<1> QED
  BY <1>1, InitInv, NextInv, PTL DEF Spec
=============================================================================
