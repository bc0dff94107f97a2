--------------------------- MODULE FrontEnds_proofs ---------------------------
(***************************************************************************)
(* Proofs about three components between the threads of the user and those *)
(* of the library: BufferedTranslation, for any number of clients and      *)
(* requests and any sizes, RandomSeeds, for any number of threads, sets    *)
(* and draws, and TokenStreaming, for any batches of prompts.              *)
(***************************************************************************)
EXTENDS BufferedTranslation, RandomSeeds, TokenStreaming, SequenceTheorems, TLAPS

(***************************************************************************)
(* BufferedTranslation: no request is lost or translated twice on its way  *)
(* from the buffer to the pool, and each keeps its promise.                *)
(***************************************************************************)

Pairs == {<<r, r>> : r \in Requests}
Loops == {"locking", "waiting", "posting", "exited"}
Owners == {"alive", "stopping", "joining", "destroyed"}

BufferTypeOK ==
  /\ examples \in Seq(Requests) /\ promises \in Seq(Requests)
  /\ stop \in BOOLEAN /\ stopping \in BOOLEAN
  /\ requested \in 0 .. NumRequests
  /\ loop \in Loops /\ owner \in Owners
  /\ toPost \in SUBSET Pairs
  /\ accepted \in Seq(SUBSET Pairs)

(* The buffer: the promises stay next to their examples. *)
BufferMatches == promises = examples

(* Where a request may be. *)
Buffered(r) == \E i \in DOMAIN examples : examples[i] = r
Flushed(r) == <<r, r>> \in toPost
InPool(r) == \E k \in DOMAIN accepted : <<r, r>> \in accepted[k]

(* Each request is in one of these places, once, and nothing else is. *)
EachInOnePlace ==
  /\ \A r \in Requests :
       /\ r <= requested <=> Buffered(r) \/ Flushed(r) \/ InPool(r)
       /\ ~(Buffered(r) /\ Flushed(r))
       /\ ~(Buffered(r) /\ InPool(r))
       /\ ~(Flushed(r) /\ InPool(r))
  /\ \A i, j \in DOMAIN examples : i # j => examples[i] # examples[j]
  /\ \A k, l \in DOMAIN accepted : k # l => accepted[k] \cap accepted[l] = {}

(* What is left when: only post_examples holds flushed requests, and when  *)
(* it posts the last ones the wrapper stops and the buffer stays empty.    *)
LastFlush ==
  /\ loop \in {"locking", "waiting", "exited"} => toPost = {}
  /\ owner = "alive" <=> ~stop
  /\ stopping => stop
  /\ loop \in {"posting", "exited"} /\ stopping => examples = <<>>
  /\ loop = "exited" => stopping
  /\ owner = "destroyed" => loop = "exited"

BufferInv == BufferTypeOK /\ BufferMatches /\ EachInOnePlace /\ LastFlush

-----------------------------------------------------------------------------
LEMMA FlushSizeInBuffer ==
  ASSUME BufferTypeOK
  PROVE  FlushSize \in 0 .. Len(examples) /\ (stop => FlushSize = Len(examples))
BY BufferedTranslationAssumption DEF BufferTypeOK, FlushSize

(* A flush moves a prefix of the buffer. *)
LEMMA FlushIsPrefix ==
  ASSUME BufferTypeOK, BufferMatches, Flush
  PROVE  \E n \in 0 .. Len(examples) :
           /\ stop => n = Len(examples)
           /\ toPost' = {<<examples[i], examples[i]>> : i \in 1 .. n}
           /\ examples' \in Seq(Requests) /\ Len(examples') = Len(examples) - n
           /\ \A i \in 1 .. Len(examples) - n : examples'[i] = examples[n + i]
           /\ promises' = examples'
<1> DEFINE n == FlushSize
<1>1. n \in 0 .. Len(examples) /\ (stop => n = Len(examples))
  BY FlushSizeInBuffer
<1>2. promises = examples /\ examples \in Seq(Requests)
  BY DEF BufferTypeOK, BufferMatches
<1>3. /\ toPost' = {<<examples[i], SubSeq(examples, 1, n)[i]>> : i \in 1 .. n}
      /\ examples' = SubSeq(examples, n + 1, Len(examples))
      /\ promises' = SubSeq(examples, n + 1, Len(examples))
  BY <1>2 DEF Flush, PromisesFlushed, PromisesKept
<1> HIDE DEF n
<1>4. \A i \in 1 .. n : SubSeq(examples, 1, n)[i] = examples[i]
  BY <1>1, <1>2, SubSeqProperties
<1>5. /\ examples' \in Seq(Requests) /\ Len(examples') = Len(examples) - n
      /\ \A i \in 1 .. Len(examples) - n : examples'[i] = examples[n + i]
  BY <1>1, <1>2, <1>3, SubSeqProperties
<1>6. toPost' = {<<examples[i], examples[i]>> : i \in 1 .. n}
  BY <1>3, <1>4
<1> QED
  BY <1>1, <1>3, <1>5, <1>6

LEMMA FlushKeepsBufferTypeOK == BufferTypeOK /\ BufferMatches /\ Flush => BufferTypeOK'
<1> SUFFICES ASSUME BufferTypeOK, BufferMatches, Flush PROVE BufferTypeOK'
  OBVIOUS
<1> USE DEF BufferTypeOK, bufferVars, poolVars, wrapperVars, Pairs, Loops, Owners
<1>1. PICK n \in 0 .. Len(examples) :
        /\ stop => n = Len(examples)
        /\ toPost' = {<<examples[i], examples[i]>> : i \in 1 .. n}
        /\ examples' \in Seq(Requests) /\ Len(examples') = Len(examples) - n
        /\ \A i \in 1 .. Len(examples) - n : examples'[i] = examples[n + i]
        /\ promises' = examples'
  BY FlushIsPrefix
<1>2. /\ stopping' = stop /\ loop' = "posting"
      /\ UNCHANGED <<stop, requested, owner, accepted>>
  BY DEF Flush
<1>3. toPost' \in SUBSET Pairs
  BY <1>1
<1> QED
  BY <1>1, <1>2, <1>3

LEMMA NextBufferTypeOK == BufferTypeOK /\ BufferMatches /\ [BufferNext]_wrapperVars => BufferTypeOK'
<1> SUFFICES ASSUME BufferTypeOK, BufferMatches, [BufferNext]_wrapperVars PROVE BufferTypeOK'
  OBVIOUS
<1> USE BufferedTranslationAssumption DEF BufferTypeOK, bufferVars, poolVars, wrapperVars, Pairs,
      Loops, Owners
<1>1. ASSUME NEW c \in Clients, TranslateAsync(c) PROVE BufferTypeOK'
  <2>1. /\ requested' = requested + 1 /\ requested' \in Requests
        /\ examples' = Append(examples, requested') /\ promises' = Append(promises, requested')
        /\ UNCHANGED <<stop, stopping, loop, owner, toPost, accepted>>
    BY <1>1 DEF TranslateAsync, Requests
  <2>2. examples' \in Seq(Requests) /\ promises' \in Seq(Requests)
    BY <2>1
  <2> QED
    BY <2>1, <2>2 DEF Requests
<1>2. ASSUME NEW c \in Clients, NotifyFull(c) PROVE BufferTypeOK'
  BY <1>2 DEF NotifyFull, Notified
<1>3. CASE WaitBegin
  BY <1>3 DEF WaitBegin
<1>4. CASE NoWait
  BY <1>4, FlushKeepsBufferTypeOK DEF NoWait
<1>5. CASE Wake
  BY <1>5, FlushKeepsBufferTypeOK DEF Wake
<1>6. CASE WakeInVain
  BY <1>6 DEF WakeInVain
<1>7. CASE Timeout
  BY <1>7, FlushKeepsBufferTypeOK DEF Timeout
<1>8. CASE PostBatch
  BY <1>8 DEF PostBatch, Pool!Accept
<1>9. CASE Posted
  BY <1>9 DEF Posted
<1>10. CASE Stop
  BY <1>10 DEF Stop
<1>11. CASE NotifyStop
  BY <1>11 DEF NotifyStop, Notified
<1>12. CASE JoinLoop
  BY <1>12 DEF JoinLoop
<1>13. CASE ReplicaStep
  BY <1>13 DEF ReplicaStep, Pool!Start, Pool!Finish
<1>14. CASE UNCHANGED wrapperVars
  BY <1>14 DEF wrapperVars
<1> QED
  BY <1>1, <1>2, <1>3, <1>4, <1>5, <1>6, <1>7, <1>8, <1>9, <1>10, <1>11, <1>12,
     <1>13, <1>14
     DEF BufferNext, LoopStep, DestructorStep, BufferTerminated

LEMMA FlushKeepsBufferMatches == BufferTypeOK /\ BufferMatches /\ Flush => BufferMatches'
<1> SUFFICES ASSUME BufferTypeOK, BufferMatches, Flush PROVE BufferMatches'
  OBVIOUS
<1> USE DEF BufferTypeOK, bufferVars, poolVars, wrapperVars, BufferMatches
<1> QED
  BY FlushIsPrefix DEF Flush

LEMMA NextBufferMatches == BufferTypeOK /\ BufferMatches /\ [BufferNext]_wrapperVars => BufferMatches'
<1> SUFFICES ASSUME BufferTypeOK, BufferMatches, [BufferNext]_wrapperVars PROVE BufferMatches'
  OBVIOUS
<1> USE BufferedTranslationAssumption DEF BufferTypeOK, bufferVars, poolVars, wrapperVars, BufferMatches
<1>1. ASSUME NEW c \in Clients, TranslateAsync(c) PROVE BufferMatches'
  BY <1>1 DEF TranslateAsync
<1>2. ASSUME NEW c \in Clients, NotifyFull(c) PROVE BufferMatches'
  BY <1>2 DEF NotifyFull, Notified
<1>3. CASE WaitBegin
  BY <1>3 DEF WaitBegin
<1>4. CASE NoWait
  BY <1>4, FlushKeepsBufferMatches DEF NoWait
<1>5. CASE Wake
  BY <1>5, FlushKeepsBufferMatches DEF Wake
<1>6. CASE WakeInVain
  BY <1>6 DEF WakeInVain
<1>7. CASE Timeout
  BY <1>7, FlushKeepsBufferMatches DEF Timeout
<1>8. CASE PostBatch
  BY <1>8 DEF PostBatch, Pool!Accept
<1>9. CASE Posted
  BY <1>9 DEF Posted
<1>10. CASE Stop
  BY <1>10 DEF Stop
<1>11. CASE NotifyStop
  BY <1>11 DEF NotifyStop, Notified
<1>12. CASE JoinLoop
  BY <1>12 DEF JoinLoop
<1>13. CASE ReplicaStep
  BY <1>13 DEF ReplicaStep, Pool!Start, Pool!Finish
<1>14. CASE UNCHANGED wrapperVars
  BY <1>14 DEF wrapperVars
<1> QED
  BY <1>1, <1>2, <1>3, <1>4, <1>5, <1>6, <1>7, <1>8, <1>9, <1>10, <1>11, <1>12,
     <1>13, <1>14
     DEF BufferNext, LoopStep, DestructorStep, BufferTerminated

LEMMA FlushKeepsEachInOnePlace ==
  BufferTypeOK /\ BufferMatches /\ EachInOnePlace /\ LastFlush /\ loop \in {"locking", "waiting"} /\
  Flush => EachInOnePlace'
<1> SUFFICES ASSUME BufferTypeOK, BufferMatches, EachInOnePlace, LastFlush,
      loop \in {"locking", "waiting"}, Flush PROVE EachInOnePlace'
  OBVIOUS
<1> USE DEF BufferTypeOK, bufferVars, poolVars, wrapperVars, Pairs, EachInOnePlace, LastFlush,
      Buffered, Flushed, InPool
<1>1. PICK n \in 0 .. Len(examples) :
        /\ stop => n = Len(examples)
        /\ toPost' = {<<examples[i], examples[i]>> : i \in 1 .. n}
        /\ examples' \in Seq(Requests) /\ Len(examples') = Len(examples) - n
        /\ \A i \in 1 .. Len(examples) - n : examples'[i] = examples[n + i]
        /\ promises' = examples'
  BY FlushIsPrefix
<1>2. UNCHANGED <<requested, accepted>> /\ toPost = {}
  BY DEF Flush
<1>3. /\ DOMAIN examples = 1 .. Len(examples) /\ DOMAIN examples' = 1 .. Len(examples) - n
      /\ Len(examples) \in Nat
  BY <1>1
<1> HIDE DEF EachInOnePlace, LastFlush, BufferTypeOK
<1>4. \A r \in Requests : Buffered(r) <=> Buffered(r)' \/ Flushed(r)'
  <2> SUFFICES ASSUME NEW r \in Requests PROVE Buffered(r) <=> Buffered(r)' \/ Flushed(r)'
    OBVIOUS
  <2>1. Flushed(r)' <=> \E i \in 1 .. n : examples[i] = r
    BY <1>1
  <2>2. Buffered(r)' <=> \E i \in 1 .. Len(examples) - n : examples[n + i] = r
    BY <1>1, <1>3
  <2>3. ASSUME NEW i \in 1 .. Len(examples), examples[i] = r PROVE Buffered(r)' \/ Flushed(r)'
    <3>1. CASE i <= n
      BY <2>1, <2>3, <3>1, <1>3
    <3>2. CASE i > n
      <4>1. i - n \in 1 .. Len(examples) - n /\ examples[n + (i - n)] = r
        BY <2>3, <3>2, <1>3
      <4> QED
        BY <2>2, <4>1
    <3> QED
      BY <3>1, <3>2, <1>3
  <2>4. Buffered(r)' \/ Flushed(r)' => Buffered(r)
    BY <2>1, <2>2, <1>3
  <2> QED
    BY <2>3, <2>4, <1>3
<1>5. \A i, j \in 1 .. Len(examples) : i # j => examples[i] # examples[j]
  BY <1>3 DEF EachInOnePlace
<1>6. \A r \in Requests : ~(Buffered(r)' /\ Flushed(r)')
  <2> SUFFICES ASSUME NEW i \in 1 .. n, NEW j \in 1 .. Len(examples) - n,
        examples[i] = examples[n + j]
        PROVE FALSE
    BY <1>1, <1>3
  <2> QED
    BY <1>3, <1>5
<1>7. \A i, j \in DOMAIN examples' : i # j => examples'[i] # examples'[j]
  <2> SUFFICES ASSUME NEW i \in 1 .. Len(examples) - n, NEW j \in 1 .. Len(examples) - n, i # j
        PROVE examples[n + i] # examples[n + j]
    BY <1>1, <1>3
  <2> QED
    BY <1>3, <1>5
<1>8. \A r \in Requests : (InPool(r)' <=> InPool(r)) /\ ~Flushed(r)
  BY <1>2
<1> QED
  BY <1>2, <1>4, <1>6, <1>7, <1>8 DEF EachInOnePlace

LEMMA NextEachInOnePlace ==
  BufferTypeOK /\ BufferMatches /\ EachInOnePlace /\ LastFlush /\ [BufferNext]_wrapperVars => EachInOnePlace'
<1> SUFFICES ASSUME BufferTypeOK, BufferMatches, EachInOnePlace, LastFlush, [BufferNext]_wrapperVars
      PROVE EachInOnePlace'
  OBVIOUS
<1> USE BufferedTranslationAssumption DEF BufferTypeOK, bufferVars, poolVars, wrapperVars, Pairs,
      EachInOnePlace, LastFlush, Buffered, Flushed, InPool
<1>1. ASSUME NEW c \in Clients, TranslateAsync(c) PROVE EachInOnePlace'
  <2>1. /\ requested' = requested + 1 /\ requested' \in Requests
        /\ examples' = Append(examples, requested')
        /\ UNCHANGED <<toPost, accepted>>
    BY <1>1 DEF TranslateAsync, Requests
  <2>2. /\ DOMAIN examples = 1 .. Len(examples) /\ DOMAIN examples' = 1 .. Len(examples) + 1
        /\ \A i \in 1 .. Len(examples) : examples'[i] = examples[i]
        /\ examples'[Len(examples) + 1] = requested'
    BY <2>1
  <2>3. Len(examples) \in Nat
    BY <2>1
  <2> HIDE DEF EachInOnePlace, LastFlush, BufferTypeOK
  <2>4. \A r \in Requests : Buffered(r)' <=> Buffered(r) \/ r = requested'
    BY <2>2, <2>3
  <2>5. \A r \in Requests : (Flushed(r)' <=> Flushed(r)) /\ (InPool(r)' <=> InPool(r))
    BY <2>1
  <2>6. \A r \in Requests : (r <= requested' <=> r <= requested \/ r = requested')
    BY <2>1 DEF Requests, BufferTypeOK
  <2>7. ~(requested' <= requested)
    BY <2>1 DEF BufferTypeOK
  <2>8. ~Buffered(requested') /\ ~Flushed(requested') /\ ~InPool(requested')
    BY <2>1, <2>7 DEF EachInOnePlace
  <2>9. \A i, j \in DOMAIN examples' : i # j => examples'[i] # examples'[j]
    <3>1. \A i, j \in 1 .. Len(examples) : i # j => examples[i] # examples[j]
      BY <2>2 DEF EachInOnePlace
    <3>2. \A i \in 1 .. Len(examples) : examples[i] # requested'
      BY <2>2, <2>8
    <3> QED
      BY <2>2, <2>3, <3>1, <3>2
  <2>10. \A k, l \in DOMAIN accepted' : k # l => accepted'[k] \cap accepted'[l] = {}
    BY <2>1 DEF EachInOnePlace
  <2>11. ASSUME NEW r \in Requests
         PROVE  /\ r <= requested' <=> Buffered(r)' \/ Flushed(r)' \/ InPool(r)'
                /\ ~(Buffered(r)' /\ Flushed(r)')
                /\ ~(Buffered(r)' /\ InPool(r)')
                /\ ~(Flushed(r)' /\ InPool(r)')
    <3> HIDE DEF Buffered, Flushed, InPool
    <3> QED
      BY <2>4, <2>5, <2>6, <2>8 DEF EachInOnePlace
  <2> QED
    BY <2>9, <2>10, <2>11 DEF EachInOnePlace
<1>2. ASSUME NEW c \in Clients, NotifyFull(c) PROVE EachInOnePlace'
  BY <1>2 DEF NotifyFull, Notified
<1>3. CASE WaitBegin
  BY <1>3 DEF WaitBegin
<1>4. CASE NoWait
  BY <1>4, FlushKeepsEachInOnePlace DEF NoWait
<1>5. CASE Wake
  BY <1>5, FlushKeepsEachInOnePlace DEF Wake
<1>6. CASE WakeInVain
  BY <1>6 DEF WakeInVain
<1>7. CASE Timeout
  BY <1>7, FlushKeepsEachInOnePlace DEF Timeout
<1>8. CASE PostBatch
  <2>1. PICK batch \in SUBSET toPost :
          /\ toPost' = toPost \ batch /\ accepted' = Append(accepted, batch)
          /\ UNCHANGED <<examples, requested>>
    BY <1>8 DEF PostBatch, Pool!Accept
  <2>2. /\ DOMAIN accepted = 1 .. Len(accepted) /\ DOMAIN accepted' = 1 .. Len(accepted) + 1
        /\ \A k \in 1 .. Len(accepted) : accepted'[k] = accepted[k]
        /\ accepted'[Len(accepted) + 1] = batch
    BY <2>1
  <2> HIDE DEF EachInOnePlace, LastFlush
  <2>3. Len(accepted) \in Nat
    BY <2>1
  <2>4. ASSUME NEW r \in Requests PROVE InPool(r)' <=> InPool(r) \/ <<r, r>> \in batch
    <3>1. InPool(r)' <=> \E k \in 1 .. Len(accepted) + 1 : <<r, r>> \in accepted'[k]
      BY <2>2
    <3>2. InPool(r) <=> \E k \in 1 .. Len(accepted) : <<r, r>> \in accepted[k]
      BY <2>2
    <3> HIDE DEF BufferTypeOK, InPool
    <3> QED
      BY ONLY <2>2, <2>3, <3>1, <3>2
  <2>5. \A r \in Requests :
          /\ Flushed(r)' <=> Flushed(r) /\ <<r, r>> \notin batch
          /\ <<r, r>> \in batch => Flushed(r)
          /\ Buffered(r)' <=> Buffered(r)
    BY <2>1
  <2>6. \A k \in DOMAIN accepted : accepted[k] \cap batch = {}
    <3> SUFFICES ASSUME NEW k \in DOMAIN accepted, NEW p \in batch, p \in accepted[k] PROVE FALSE
      OBVIOUS
    <3>1. PICK r \in Requests : p = <<r, r>>
      BY <2>1
    <3>2. InPool(r) /\ Flushed(r)
      BY <2>1, <3>1
    <3> QED
      BY <3>2 DEF EachInOnePlace
  <2>7. \A k, l \in DOMAIN accepted' : k # l => accepted'[k] \cap accepted'[l] = {}
    <3>1. \A k, l \in 1 .. Len(accepted) : k # l => accepted[k] \cap accepted[l] = {}
      BY <2>2 DEF EachInOnePlace
    <3>2. \A k \in 1 .. Len(accepted) : accepted[k] \cap batch = {} /\ batch \cap accepted[k] = {}
      BY <2>2, <2>6
    <3> QED
      BY <2>2, <2>3, <3>1, <3>2
  <2>8. ASSUME NEW r \in Requests
        PROVE  /\ r <= requested' <=> Buffered(r)' \/ Flushed(r)' \/ InPool(r)'
               /\ ~(Buffered(r)' /\ Flushed(r)')
               /\ ~(Buffered(r)' /\ InPool(r)')
               /\ ~(Flushed(r)' /\ InPool(r)')
    <3>1. requested' = requested
      BY <2>1
    <3> HIDE DEF Buffered, Flushed, InPool
    <3> QED
      BY <3>1, <2>4, <2>5 DEF EachInOnePlace
  <2>9. \A i, j \in DOMAIN examples' : i # j => examples'[i] # examples'[j]
    BY <2>1 DEF EachInOnePlace
  <2> QED
    BY <2>7, <2>8, <2>9 DEF EachInOnePlace
<1>9. CASE Posted
  BY <1>9 DEF Posted
<1>10. CASE Stop
  BY <1>10 DEF Stop
<1>11. CASE NotifyStop
  BY <1>11 DEF NotifyStop, Notified
<1>12. CASE JoinLoop
  BY <1>12 DEF JoinLoop
<1>13. CASE ReplicaStep
  BY <1>13 DEF ReplicaStep, Pool!Start, Pool!Finish
<1>14. CASE UNCHANGED wrapperVars
  BY <1>14 DEF wrapperVars
<1> QED
  BY <1>1, <1>2, <1>3, <1>4, <1>5, <1>6, <1>7, <1>8, <1>9, <1>10, <1>11, <1>12,
     <1>13, <1>14
     DEF BufferNext, LoopStep, DestructorStep, BufferTerminated

LEMMA FlushKeepsLastFlush ==
  BufferTypeOK /\ BufferMatches /\ LastFlush /\ loop \in {"locking", "waiting"} /\ Flush => LastFlush'
<1> SUFFICES ASSUME BufferTypeOK, BufferMatches, LastFlush, loop \in {"locking", "waiting"}, Flush
    PROVE LastFlush'
  OBVIOUS
<1> USE DEF BufferTypeOK, bufferVars, poolVars, wrapperVars, Loops, Owners, LastFlush
<1>1. PICK n \in 0 .. Len(examples) :
        /\ stop => n = Len(examples)
        /\ toPost' = {<<examples[i], examples[i]>> : i \in 1 .. n}
        /\ examples' \in Seq(Requests) /\ Len(examples') = Len(examples) - n
        /\ \A i \in 1 .. Len(examples) - n : examples'[i] = examples[n + i]
        /\ promises' = examples'
  BY FlushIsPrefix
<1>2. stopping' = stop /\ loop' = "posting" /\ UNCHANGED <<stop, owner>>
  BY DEF Flush
<1>3. stop => examples' = <<>>
  BY <1>1
<1> QED
  BY <1>2, <1>3

LEMMA NextLastFlush == BufferTypeOK /\ BufferMatches /\ LastFlush /\ [BufferNext]_wrapperVars => LastFlush'
<1> SUFFICES ASSUME BufferTypeOK, BufferMatches, LastFlush, [BufferNext]_wrapperVars PROVE LastFlush'
  OBVIOUS
<1> USE BufferedTranslationAssumption DEF BufferTypeOK, bufferVars, poolVars, wrapperVars, Loops,
      Owners, LastFlush
<1>1. ASSUME NEW c \in Clients, TranslateAsync(c) PROVE LastFlush'
  BY <1>1 DEF TranslateAsync
<1>2. ASSUME NEW c \in Clients, NotifyFull(c) PROVE LastFlush'
  BY <1>2 DEF NotifyFull, Notified
<1>3. CASE WaitBegin
  BY <1>3 DEF WaitBegin
<1>4. CASE NoWait
  BY <1>4, FlushKeepsLastFlush DEF NoWait
<1>5. CASE Wake
  BY <1>5, FlushKeepsLastFlush DEF Wake
<1>6. CASE WakeInVain
  BY <1>6 DEF WakeInVain
<1>7. CASE Timeout
  BY <1>7, FlushKeepsLastFlush DEF Timeout
<1>8. CASE PostBatch
  BY <1>8 DEF PostBatch, Pool!Accept
<1>9. CASE Posted
  BY <1>9 DEF Posted
<1>10. CASE Stop
  BY <1>10 DEF Stop
<1>11. CASE NotifyStop
  BY <1>11 DEF NotifyStop, Notified
<1>12. CASE JoinLoop
  BY <1>12 DEF JoinLoop
<1>13. CASE ReplicaStep
  BY <1>13 DEF ReplicaStep, Pool!Start, Pool!Finish
<1>14. CASE UNCHANGED wrapperVars
  BY <1>14 DEF wrapperVars
<1> QED
  BY <1>1, <1>2, <1>3, <1>4, <1>5, <1>6, <1>7, <1>8, <1>9, <1>10, <1>11, <1>12,
     <1>13, <1>14
     DEF BufferNext, LoopStep, DestructorStep, BufferTerminated

-----------------------------------------------------------------------------
(* The strengthening of RequestsAreKept is inductive.                      *)
THEOREM BufferInvariant == BufferSpec => []BufferInv
<1>1. BufferInit => BufferInv
  <2> SUFFICES ASSUME BufferInit PROVE BufferInv
    OBVIOUS
  <2>1. /\ examples = <<>> /\ promises = <<>> /\ accepted = <<>> /\ toPost = {} /\ requested = 0
        /\ stop = FALSE /\ stopping = FALSE /\ loop = "locking" /\ owner = "alive"
    BY DEF BufferInit, Pool!Init
  <2>2. BufferTypeOK
    <3>1. <<>> \in Seq(Requests) /\ <<>> \in Seq(SUBSET Pairs)
      OBVIOUS
    <3>2. 0 \in 0 .. NumRequests
      BY BufferedTranslationAssumption
    <3>3. loop \in Loops /\ owner \in Owners
      BY <2>1 DEF Loops, Owners
    <3>4. stop \in BOOLEAN /\ stopping \in BOOLEAN
      BY <2>1
    <3> QED
      BY <2>1, <3>1, <3>2, <3>3, <3>4 DEF BufferTypeOK
  <2>3. EachInOnePlace
    BY <2>1 DEF EachInOnePlace, Buffered, Flushed, InPool, Requests
  <2> QED
    BY <2>1, <2>2, <2>3 DEF BufferInv, BufferMatches, LastFlush
<1>2. BufferInv /\ [BufferNext]_wrapperVars => BufferInv'
  BY NextBufferTypeOK, NextBufferMatches, NextEachInOnePlace, NextLastFlush DEF BufferInv
<1> QED
  BY <1>1, <1>2, PTL DEF BufferSpec

(* Whatever the clients, the sizes and the moments of the notifications,   *)
(* of the timeouts and of the destructor: buffer_loop and post_examples    *)
(* lose no request, translate none twice and give none the promise of      *)
(* another; and the destructor leaves none behind.                         *)
THEOREM RequestsReachThePool == BufferSpec => []RequestsAreKept
<1>1. BufferInv => RequestsAreKept
  <2> SUFFICES ASSUME BufferInv PROVE RequestsAreKept
    OBVIOUS
  <2> DEFINE buffered == Range(examples)
             flushed == {pair[1] : pair \in toPost}
             posted == {pair[1] : pair \in UNION Range(accepted)}
  <2>1. Range(examples) \subseteq Requests /\ toPost \subseteq Pairs
    BY DEF BufferInv, BufferTypeOK, Range
  <2>2. UNION Range(accepted) \subseteq Pairs
    BY DEF BufferInv, BufferTypeOK, Range
  <2>3. \A r \in Requests : r \in buffered <=> Buffered(r)
    BY DEF Range, Buffered
  <2>4. \A r \in Requests : r \in flushed <=> Flushed(r)
    BY <2>1 DEF Flushed, Pairs
  <2>5. \A r \in Requests : r \in posted <=> InPool(r)
    <3>1. \A r \in Requests : r \in posted <=> <<r, r>> \in UNION Range(accepted)
      BY <2>2 DEF Pairs
    <3>2. \A r \in Requests : <<r, r>> \in UNION Range(accepted) <=> InPool(r)
      BY DEF Range, InPool
    <3> QED
      BY <3>1, <3>2
  <2>6. buffered \subseteq Requests /\ flushed \subseteq Requests /\ posted \subseteq Requests
    BY <2>1, <2>2 DEF Pairs
  <2>7. \A r : r \in 1 .. requested <=> r \in Requests /\ r <= requested
    BY BufferedTranslationAssumption DEF BufferInv, BufferTypeOK, Requests
  <2> HIDE DEF buffered, flushed, posted
  <2>8. \A pair \in toPost \cup UNION Range(accepted) : pair[1] = pair[2]
    BY <2>1, <2>2 DEF Pairs
  <2>9. \A r \in Requests :
          /\ r <= requested <=> r \in buffered \/ r \in flushed \/ r \in posted
          /\ ~(r \in buffered /\ r \in flushed)
          /\ ~(r \in buffered /\ r \in posted)
          /\ ~(r \in flushed /\ r \in posted)
    <3> HIDE DEF Buffered, Flushed, InPool
    <3> QED
      BY <2>3, <2>4, <2>5 DEF BufferInv, EachInOnePlace
  <2>10. buffered \cup flushed \cup posted = 1 .. requested
    BY <2>6, <2>7, <2>9
  <2>11. buffered \cap flushed = {} /\ (buffered \cup flushed) \cap posted = {}
    BY <2>6, <2>9
  <2>12. \A i, j \in DOMAIN accepted : i # j => accepted[i] \cap accepted[j] = {}
    BY DEF BufferInv, EachInOnePlace
  <2>13. ASSUME owner = "destroyed" PROVE posted = 1 .. requested /\ promises = <<>>
    <3>1. examples = <<>> /\ promises = <<>> /\ toPost = {}
      BY <2>13 DEF BufferInv, BufferMatches, LastFlush
    <3>2. buffered = {} /\ flushed = {}
      BY <3>1 DEF buffered, flushed, Range
    <3> QED
      BY <2>10, <3>1, <3>2
  <2> QED
    BY <2>8, <2>10, <2>11, <2>12, <2>13 DEF RequestsAreKept, buffered, flushed, posted
<1> QED
  BY <1>1, BufferInvariant, PTL

-----------------------------------------------------------------------------
(***************************************************************************)
(* RandomSeeds: while no set runs, a generator that follows the epoch has  *)
(* the seed, and the end of a set makes everybody follow an epoch of the   *)
(* past.                                                                   *)
(***************************************************************************)

Reseeding == {"reseed", "reseed_load", "seen"}
PCs == {"new", "idle", "load", "draw"} \cup Building \cup Reseeding

Shape ==
  /\ g_seed_epoch \in Nat
  /\ setter \in [Setters -> BOOLEAN]
  /\ pc \in [Workers -> PCs]
  /\ DOMAIN generators = Workers
  /\ \A w \in Workers :
       generators[w] = [seed |-> generators[w].seed, drawn |-> generators[w].drawn]
  /\ seen_epoch \in [Workers -> Nat]
  /\ epoch \in [Workers -> Nat]
  /\ fresh \in [Workers -> BOOLEAN]
  /\ raced \in [Workers -> BOOLEAN]
  /\ since \in [Workers -> Nat \cup {Lost}]

(* The epochs that a thread knows are of the past. *)
EpochsPast ==
  /\ \A w \in Workers : seen_epoch[w] <= g_seed_epoch /\ epoch[w] <= g_seed_epoch
  /\ \A w \in Workers : pc[w] \in Reseeding => seen_epoch[w] < epoch[w]

(* The threads whose generator exists and says which epoch it follows.  *)
Follows(w) == pc[w] \notin {"new"} \cup Building /\ seen_epoch[w] = g_seed_epoch

(* Between two reads of the seed, and once it was read. *)
SeedRead(w) ==
  /\ pc[w] \in {"construct_load", "reseed_load"} => g_seed # DefaultSeed
  /\ pc[w] \in {"see", "seen"} => generators[w].seed = Wanted

SeedFollowed ==
  ~Setting => \A w \in Workers :
    /\ ~raced[w] /\ pc[w] \in Building => SeedRead(w)
    /\ pc[w] \in Reseeding /\ epoch[w] = g_seed_epoch => SeedRead(w)
    /\ ~raced[w] /\ Follows(w) => generators[w].seed = Wanted

(* A call that began after the last set loads the last epoch. *)
FreshCalls ==
  \A w \in Workers : fresh[w] =>
    /\ ~Setting
    /\ pc[w] \in Reseeding => epoch[w] = g_seed_epoch
    /\ pc[w] \in {"draw", "idle"} => seen_epoch[w] = g_seed_epoch

(* When no call was running at the end of the last set, the numbers drawn  *)
(* since are those that the generator gave since it was seeded.           *)
NumbersCounted ==
  ~Setting => \A w \in Workers : since[w] # Lost =>
    /\ ~raced[w]
    /\ pc[w] \in Reseeding => epoch[w] = g_seed_epoch
    /\ pc[w] = "draw" => seen_epoch[w] = g_seed_epoch
    /\ IF Follows(w) THEN generators[w].drawn = since[w] ELSE since[w] = 0
    /\ pc[w] \in {"see", "seen"} => generators[w].drawn = 0

SeedInv == Shape /\ EpochsPast /\ SeedFollowed /\ FreshCalls /\ NumbersCounted

-----------------------------------------------------------------------------
(* GetSeed, without its records: the thread goes on with the seed that it  *)
(* read and no number drawn from it, or reads the seed once more.          *)
SeedOutcome(w, from, load, to) ==
  /\ pc[w] \in {from, load}
  /\ pc' \in [Workers -> PCs]
  /\ \A u \in Workers : u # w => pc'[u] = pc[u] /\ generators'[u] = generators[u]
  /\ DOMAIN generators' = Workers
  /\ \/ /\ pc'[w] = to
        /\ generators'[w] = [seed |-> generators'[w].seed, drawn |-> generators'[w].drawn]
        /\ generators'[w].drawn = 0
        /\ pc[w] = from \/ g_seed # DefaultSeed => generators'[w].seed = Wanted
     \/ /\ pc[w] = from /\ pc'[w] = load /\ generators'[w] = generators[w]
        /\ g_seed # DefaultSeed

LEMMA SeedIsRead ==
  ASSUME NEW w \in Workers, NEW from \in PCs, NEW load \in PCs, NEW to \in PCs,
         from # load, Shape, GetSeed(w, from, load, to)
  PROVE  SeedOutcome(w, from, load, to)
<1> USE DEF SeedOutcome
<1>1. CASE pc[w] = from /\ g_seed = DefaultSeed
  <2>1. Seeded(w, Device) /\ Goes(w, to)
    BY <1>1 DEF GetSeed
  <2> QED
    BY <1>1, <2>1 DEF Seeded, Goes, Shape, Wanted
<1>2. CASE pc[w] = from /\ g_seed # DefaultSeed
  <2>1. generators' = generators /\ Goes(w, load)
    BY <1>2 DEF GetSeed
  <2> QED
    BY <1>2, <2>1 DEF Goes, Shape
<1>3. CASE pc[w] = load
  <2>1. Seeded(w, g_seed) /\ Goes(w, to)
    BY <1>3 DEF GetSeed
  <2> QED
    BY <1>3, <2>1 DEF Seeded, Goes, Shape, Wanted
<1> QED
  BY <1>1, <1>2, <1>3 DEF GetSeed

LEMMA NextShape == Shape /\ [SeedNext]_seedVars => Shape'
<1> SUFFICES ASSUME Shape, [SeedNext]_seedVars PROVE Shape'
  OBVIOUS
<1> USE DEF Shape, PCs, Building, Reseeding, setVars, callVars, historyVars
<1>1. ASSUME NEW s \in Setters, StoreSeed(s) PROVE Shape'
  BY <1>1 DEF StoreSeed, Begun
<1>2. ASSUME NEW s \in Setters, BumpEpoch(s) PROVE Shape'
  BY <1>2 DEF BumpEpoch, Ended, InCall
<1>3. ASSUME NEW w \in Workers, Call(w) PROVE Shape'
  BY <1>3 DEF Call, Goes, InCall
<1>4. ASSUME NEW w \in Workers, Construct(w) PROVE Shape'
  <2>1. GetSeed(w, "construct", "construct_load", "see") /\
        UNCHANGED <<setVars, seen_epoch, epoch, draws, historyVars>>
    BY <1>4 DEF Construct
  <2>2. SeedOutcome(w, "construct", "construct_load", "see")
    BY <2>1, SeedIsRead, Zenon
  <2> QED
    BY <2>1, <2>2 DEF SeedOutcome
<1>5. ASSUME NEW w \in Workers, SeeEpoch(w) PROVE Shape'
  BY <1>5 DEF SeeEpoch, Goes
<1>6. ASSUME NEW w \in Workers, LoadEpoch(w) PROVE Shape'
  BY <1>6 DEF LoadEpoch, Goes
<1>7. ASSUME NEW w \in Workers, Reseed(w) PROVE Shape'
  <2>1. GetSeed(w, "reseed", "reseed_load", "seen") /\
        UNCHANGED <<setVars, seen_epoch, epoch, draws, historyVars>>
    BY <1>7 DEF Reseed
  <2>2. SeedOutcome(w, "reseed", "reseed_load", "seen")
    BY <2>1, SeedIsRead, Zenon
  <2> QED
    BY <2>1, <2>2 DEF SeedOutcome
<1>8. ASSUME NEW w \in Workers, MarkSeen(w) PROVE Shape'
  BY <1>8 DEF MarkSeen, Goes
<1>9. ASSUME NEW w \in Workers, Draw(w) PROVE Shape'
  BY <1>9 DEF Draw, Goes
<1>10. CASE UNCHANGED seedVars
  BY <1>10 DEF seedVars
<1> QED
  BY <1>1, <1>2, <1>3, <1>4, <1>5, <1>6, <1>7, <1>8, <1>9, <1>10
     DEF SeedNext, SetRandomSeed, Generate

LEMMA NextEpochsPast == Shape /\ EpochsPast /\ [SeedNext]_seedVars => EpochsPast'
<1> SUFFICES ASSUME Shape, EpochsPast, [SeedNext]_seedVars PROVE EpochsPast'
  OBVIOUS
<1> USE DEF Shape, PCs, Building, Reseeding, setVars, callVars, historyVars, EpochsPast
<1>1. ASSUME NEW s \in Setters, StoreSeed(s) PROVE EpochsPast'
  BY <1>1 DEF StoreSeed, Begun
<1>2. ASSUME NEW s \in Setters, BumpEpoch(s) PROVE EpochsPast'
  BY <1>2 DEF BumpEpoch, Ended, InCall
<1>3. ASSUME NEW w \in Workers, Call(w) PROVE EpochsPast'
  BY <1>3 DEF Call, Goes, InCall
<1>4. ASSUME NEW w \in Workers, Construct(w) PROVE EpochsPast'
  BY <1>4 DEF Construct, GetSeed, Seeded, Goes
<1>5. ASSUME NEW w \in Workers, SeeEpoch(w) PROVE EpochsPast'
  BY <1>5 DEF SeeEpoch, Goes
<1>6. ASSUME NEW w \in Workers, LoadEpoch(w) PROVE EpochsPast'
  BY <1>6 DEF LoadEpoch, Goes
<1>7. ASSUME NEW w \in Workers, Reseed(w) PROVE EpochsPast'
  BY <1>7 DEF Reseed, GetSeed, Seeded, Goes
<1>8. ASSUME NEW w \in Workers, MarkSeen(w) PROVE EpochsPast'
  BY <1>8 DEF MarkSeen, Goes
<1>9. ASSUME NEW w \in Workers, Draw(w) PROVE EpochsPast'
  BY <1>9 DEF Draw, Goes
<1>10. CASE UNCHANGED seedVars
  BY <1>10 DEF seedVars
<1> QED
  BY <1>1, <1>2, <1>3, <1>4, <1>5, <1>6, <1>7, <1>8, <1>9, <1>10
     DEF SeedNext, SetRandomSeed, Generate

LEMMA NextSeedFollowed == Shape /\ EpochsPast /\ SeedFollowed /\ [SeedNext]_seedVars => SeedFollowed'
<1> SUFFICES ASSUME Shape, EpochsPast, SeedFollowed, [SeedNext]_seedVars PROVE SeedFollowed'
  OBVIOUS
<1> USE DEF Shape, PCs, Building, Reseeding, setVars, callVars, historyVars, EpochsPast,
      SeedFollowed, Follows, SeedRead, Wanted, Setting
<1>1. ASSUME NEW s \in Setters, StoreSeed(s) PROVE SeedFollowed'
  BY <1>1 DEF StoreSeed, Begun
<1>2. ASSUME NEW s \in Setters, BumpEpoch(s) PROVE SeedFollowed'
  BY <1>2 DEF BumpEpoch, Ended, InCall
<1>3. ASSUME NEW w \in Workers, Call(w) PROVE SeedFollowed'
  BY <1>3 DEF Call, Goes, InCall
<1>4. ASSUME NEW w \in Workers, Construct(w) PROVE SeedFollowed'
  BY <1>4 DEF Construct, GetSeed, Seeded, Goes
<1>5. ASSUME NEW w \in Workers, SeeEpoch(w) PROVE SeedFollowed'
  BY <1>5 DEF SeeEpoch, Goes
<1>6. ASSUME NEW w \in Workers, LoadEpoch(w) PROVE SeedFollowed'
  BY <1>6 DEF LoadEpoch, Goes
<1>7. ASSUME NEW w \in Workers, Reseed(w) PROVE SeedFollowed'
  <2>1. GetSeed(w, "reseed", "reseed_load", "seen") /\
        UNCHANGED <<setVars, seen_epoch, epoch, draws, historyVars>>
    BY <1>7 DEF Reseed
  <2>2. SeedOutcome(w, "reseed", "reseed_load", "seen")
    BY <2>1, SeedIsRead, Zenon
  <2>3. SUFFICES ASSUME ~Setting, NEW u \in Workers
        PROVE  /\ ~raced[u] /\ pc'[u] \in Building => SeedRead(u)'
               /\ pc'[u] \in Reseeding /\ epoch[u] = g_seed_epoch => SeedRead(u)'
               /\ ~raced[u] /\ Follows(u)' => generators'[u].seed = Wanted
    BY <2>1
  <2>4. CASE u # w
    BY <2>1, <2>2, <2>3, <2>4 DEF SeedOutcome
  <2>5. CASE u = w
    BY <2>1, <2>2, <2>3, <2>5 DEF SeedOutcome
  <2> QED
    BY <2>4, <2>5
<1>8. ASSUME NEW w \in Workers, MarkSeen(w) PROVE SeedFollowed'
  BY <1>8 DEF MarkSeen, Goes
<1>9. ASSUME NEW w \in Workers, Draw(w) PROVE SeedFollowed'
  BY <1>9 DEF Draw, Goes
<1>10. CASE UNCHANGED seedVars
  BY <1>10 DEF seedVars
<1> QED
  BY <1>1, <1>2, <1>3, <1>4, <1>5, <1>6, <1>7, <1>8, <1>9, <1>10
     DEF SeedNext, SetRandomSeed, Generate

LEMMA NextFreshCalls == Shape /\ EpochsPast /\ FreshCalls /\ [SeedNext]_seedVars => FreshCalls'
<1> SUFFICES ASSUME Shape, EpochsPast, FreshCalls, [SeedNext]_seedVars PROVE FreshCalls'
  OBVIOUS
<1> USE DEF Shape, PCs, Building, Reseeding, setVars, callVars, historyVars, EpochsPast,
      FreshCalls, Setting
<1>1. ASSUME NEW s \in Setters, StoreSeed(s) PROVE FreshCalls'
  BY <1>1 DEF StoreSeed, Begun
<1>2. ASSUME NEW s \in Setters, BumpEpoch(s) PROVE FreshCalls'
  BY <1>2 DEF BumpEpoch, Ended, InCall
<1>3. ASSUME NEW w \in Workers, Call(w) PROVE FreshCalls'
  BY <1>3 DEF Call, Goes, InCall
<1>4. ASSUME NEW w \in Workers, Construct(w) PROVE FreshCalls'
  BY <1>4 DEF Construct, GetSeed, Seeded, Goes
<1>5. ASSUME NEW w \in Workers, SeeEpoch(w) PROVE FreshCalls'
  BY <1>5 DEF SeeEpoch, Goes
<1>6. ASSUME NEW w \in Workers, LoadEpoch(w) PROVE FreshCalls'
  BY <1>6 DEF LoadEpoch, Goes
<1>7. ASSUME NEW w \in Workers, Reseed(w) PROVE FreshCalls'
  BY <1>7 DEF Reseed, GetSeed, Seeded, Goes
<1>8. ASSUME NEW w \in Workers, MarkSeen(w) PROVE FreshCalls'
  BY <1>8 DEF MarkSeen, Goes
<1>9. ASSUME NEW w \in Workers, Draw(w) PROVE FreshCalls'
  BY <1>9 DEF Draw, Goes
<1>10. CASE UNCHANGED seedVars
  BY <1>10 DEF seedVars
<1> QED
  BY <1>1, <1>2, <1>3, <1>4, <1>5, <1>6, <1>7, <1>8, <1>9, <1>10
     DEF SeedNext, SetRandomSeed, Generate

LEMMA NextNumbersCounted == Shape /\ EpochsPast /\ NumbersCounted /\ [SeedNext]_seedVars => NumbersCounted'
<1> SUFFICES ASSUME Shape, EpochsPast, NumbersCounted, [SeedNext]_seedVars PROVE NumbersCounted'
  OBVIOUS
<1> USE DEF Shape, PCs, Building, Reseeding, setVars, callVars, historyVars, EpochsPast,
      NumbersCounted, Follows, Setting
<1>1. ASSUME NEW s \in Setters, StoreSeed(s) PROVE NumbersCounted'
  BY <1>1 DEF StoreSeed, Begun
<1>2. ASSUME NEW s \in Setters, BumpEpoch(s) PROVE NumbersCounted'
  <2>1. UNCHANGED <<pc, generators, seen_epoch>> /\ g_seed_epoch' = g_seed_epoch + 1
    BY <1>2 DEF BumpEpoch
  <2>2. \A w \in Workers : ~Follows(w)'
    BY <2>1
  <2>3. \A w \in Workers : since'[w] # Lost => ~InCall(w) /\ since'[w] = 0 /\ ~raced'[w]
    BY <1>2 DEF BumpEpoch, Ended, InCall
  <2> QED
    BY <2>1, <2>2, <2>3 DEF InCall
<1>3. ASSUME NEW w \in Workers, Call(w) PROVE NumbersCounted'
  BY <1>3 DEF Call, Goes, InCall
<1>4. ASSUME NEW w \in Workers, Construct(w) PROVE NumbersCounted'
  BY <1>4 DEF Construct, GetSeed, Seeded, Goes
<1>5. ASSUME NEW w \in Workers, SeeEpoch(w) PROVE NumbersCounted'
  BY <1>5 DEF SeeEpoch, Goes
<1>6. ASSUME NEW w \in Workers, LoadEpoch(w) PROVE NumbersCounted'
  BY <1>6 DEF LoadEpoch, Goes
<1>7. ASSUME NEW w \in Workers, Reseed(w) PROVE NumbersCounted'
  <2>1. GetSeed(w, "reseed", "reseed_load", "seen") /\
        UNCHANGED <<setVars, seen_epoch, epoch, draws, historyVars>>
    BY <1>7 DEF Reseed
  <2>2. SeedOutcome(w, "reseed", "reseed_load", "seen")
    BY <2>1, SeedIsRead, Zenon
  <2>3. SUFFICES ASSUME ~Setting, NEW u \in Workers, since[u] # Lost
        PROVE  /\ ~raced[u]
               /\ pc'[u] \in Reseeding => epoch[u] = g_seed_epoch
               /\ pc'[u] = "draw" => seen_epoch[u] = g_seed_epoch
               /\ IF Follows(u)' THEN generators'[u].drawn = since[u] ELSE since[u] = 0
               /\ pc'[u] \in {"see", "seen"} => generators'[u].drawn = 0
    BY <2>1
  <2>4. CASE u # w
    BY <2>1, <2>2, <2>3, <2>4 DEF SeedOutcome
  <2>5. CASE u = w
    BY <2>1, <2>2, <2>3, <2>5 DEF SeedOutcome
  <2> QED
    BY <2>4, <2>5
<1>8. ASSUME NEW w \in Workers, MarkSeen(w) PROVE NumbersCounted'
  BY <1>8 DEF MarkSeen, Goes
<1>9. ASSUME NEW w \in Workers, Draw(w) PROVE NumbersCounted'
  BY <1>9 DEF Draw, Goes
<1>10. CASE UNCHANGED seedVars
  BY <1>10 DEF seedVars
<1> QED
  BY <1>1, <1>2, <1>3, <1>4, <1>5, <1>6, <1>7, <1>8, <1>9, <1>10
     DEF SeedNext, SetRandomSeed, Generate

-----------------------------------------------------------------------------
(* The strengthening of SeedIsReproducible is inductive.                   *)
THEOREM SeedInvariant == SeedSpec => []SeedInv
<1>1. SeedInit => SeedInv
  <2> SUFFICES ASSUME SeedInit PROVE SeedInv
    OBVIOUS
  <2>1. Shape
    BY DEF SeedInit, NoGenerator, Shape, PCs
  <2>2. EpochsPast /\ FreshCalls
    BY DEF SeedInit, EpochsPast, FreshCalls, Reseeding
  <2>3. SeedFollowed /\ NumbersCounted
    BY DEF SeedInit, NoGenerator, SeedFollowed, NumbersCounted, Follows, Building, Reseeding
  <2> QED
    BY <2>1, <2>2, <2>3 DEF SeedInv
<1>2. SeedInv /\ [SeedNext]_seedVars => SeedInv'
  BY NextShape, NextEpochsPast, NextSeedFollowed, NextFreshCalls, NextNumbersCounted DEF SeedInv
<1> QED
  BY <1>1, <1>2, PTL DEF SeedSpec

(* Whatever the threads that set the seed and those that draw numbers, and *)
(* however their steps interleave: a call of get_random_generator that     *)
(* began after set_random_seed returned draws from the stream of that      *)
(* seed, and from its beginning when no call was running then.             *)
THEOREM SeedingIsReproducible == SeedSpec => []SeedIsReproducible
<1>1. SeedInv => SeedIsReproducible
  <2> SUFFICES ASSUME SeedInv, NEW w \in Workers, Settled(w)
        PROVE  /\ ~raced[w] => generators[w].seed = Wanted
               /\ since[w] # Lost => generators[w] = [seed |-> Wanted, drawn |-> since[w]]
    BY DEF SeedIsReproducible
  <2>1. ~Setting /\ Follows(w)
    BY DEF SeedInv, FreshCalls, Settled, Follows, Building
  <2>2. ~raced[w] => generators[w].seed = Wanted
    BY <2>1 DEF SeedInv, SeedFollowed
  <2>3. since[w] # Lost => ~raced[w] /\ generators[w].drawn = since[w]
    BY <2>1 DEF SeedInv, NumbersCounted
  <2>4. generators[w] = [seed |-> generators[w].seed, drawn |-> generators[w].drawn]
    BY DEF SeedInv, Shape
  <2> QED
    BY <2>2, <2>3, <2>4
<1> QED
  BY <1>1, SeedInvariant, PTL

(***************************************************************************)
(* TokenStreaming: what the generator yields and what the asynchronous     *)
(* consumer receives.                                                      *)
(***************************************************************************)

Tokens == JobIds \X Nat \X Nat
Items == Tokens \cup {None, Error}

RowsTypeOK ==
  /\ DOMAIN row = JobIds /\ DOMAIN alive = JobIds /\ DOMAIN steps = JobIds /\ DOMAIN late = JobIds
  /\ \A j \in JobIds : row[j] \in BatchIds(j) /\ alive[j] \subseteq BatchIds(j)
  /\ \A j \in JobIds : steps[j] \in [BatchIds(j) -> Nat] /\ late[j] \in [BatchIds(j) -> Nat]

StreamTypeOK ==
  /\ mode \in {"sync", "async"}
  /\ job \in [JobIds -> {"none", "running", "stop", "continue", "value", "error"}]
  /\ RowsTypeOK
  /\ next \in Nat \ {0} /\ caught \in BOOLEAN
  /\ channel \in Seq(Items) /\ inbox \in Seq(Tokens \cup {None})
  /\ put \in Seq(Tokens) /\ yielded \in Seq(Tokens) /\ received \in Seq(Tokens)
  /\ closed \in BOOLEAN /\ shutdown \in BOOLEAN
  /\ generator \in {"created", "running", "suspended", "joining", "ended"}
  /\ outcome \in {"none", "raised", "closed", "exhausted"}
  /\ producer \in {"none", "iterating", "asleep", "failed", "ended"}
  /\ consumer \in {"none", "ready", "waiting", "left", "ended"}
  /\ generator = "suspended" => Len(yielded) > 0

AllValues == \A j \in JobIds : job[j] = "value"
SomeError == \E j \in JobIds : job[j] = "error"

(* The tokens of a job that failed are among the first n that were put. *)
ErrorAfter(n) ==
  \E j \in JobIds :
    /\ job[j] = "error"
    /\ \A b \in BatchIds(j) : \A i \in Called(j, b) : \E k \in 1 .. n : put[k] = <<j, b, i>>

(* The thread that waits for the results. *)
ResultsCaught ==
  /\ generator = "created" => \A j \in JobIds : job[j] = "none"
  /\ next <= Jobs => \A j \in 1 .. next - 1 : job[j] = "value"
  /\ next > Jobs => AllValues \/ SomeError
  /\ caught => next > Jobs
  /\ \A j \in JobIds : \A b \in BatchIds(j) : \A i \in Called(j, b) :
       \E k \in 1 .. Len(put) : put[k] = <<j, b, i>>

(* The first n items of the channel are the tokens put after those that    *)
(* were yielded.                                                           *)
TokensFirst(n) ==
  /\ Len(yielded) + n <= Len(put)
  /\ \A k \in 1 .. n : channel[k] = put[Len(yielded) + k]

(* What is in the channel, up to the first mark.                           *)
Unmarked ==
  /\ TokensFirst(Len(channel)) /\ Len(yielded) + Len(channel) = Len(put)
  /\ ~caught /\ (next > Jobs => AllValues)

MarkedAt(e) ==
  /\ TokensFirst(e - 1)
  /\ \/ channel[e] = Error /\ ErrorAfter(Len(yielded) + e - 1)
     \/ channel[e] = None /\ AllValues /\ Len(yielded) + e - 1 = Len(put)

ChannelFollows ==
  generator \in {"created", "running", "suspended"} =>
    Unmarked \/ \E e \in 1 .. Len(channel) : MarkedAt(e)

(* The generator. *)
YieldsThePut ==
  /\ Len(yielded) <= Len(put) /\ \A k \in 1 .. Len(yielded) : yielded[k] = put[k]
  /\ generator = "joining" /\ ~closed => Len(yielded) = Len(put) /\ AllValues
  /\ outcome = "exhausted" => Len(yielded) = Len(put) /\ AllValues
  /\ outcome = "raised" => ErrorAfter(Len(yielded))
  /\ outcome = "none" <=> generator # "ended"
  /\ closed => generator \in {"joining", "ended"}
  /\ generator = "ended" => AllValues \/ SomeError \/ \A j \in JobIds : job[j] = "none"

(* A prompt that called back after the generator was closed is finished, or *)
(* it is the one whose answer is still to be read.                         *)
LateTokens ==
  \A j \in JobIds :
    /\ ~Done(j) => row[j] \in alive[j]
    /\ \A b \in BatchIds(j) :
         /\ late[j][b] > 0 =>
              closed /\ (b \in alive[j] => b = row[j] /\ job[j] \in {"stop", "continue"})
         /\ late[j][b] <= 1

(* The asynchronous generator: the tasks, and what the producer handed on. *)
TasksFollow ==
  /\ mode = "sync" => producer = "none" /\ consumer = "none" /\ inbox = <<>> /\ received = <<>>
  /\ mode = "async" => producer # "none"
  /\ producer = "asleep" => generator = "suspended"
  /\ producer \in {"failed", "ended"} => generator = "ended"

Produced ==
  IF producer = "iterating" /\ generator = "suspended" THEN Len(yielded) - 1 ELSE Len(yielded)

TokensReceived(m) ==
  /\ \A k \in 1 .. m : inbox[k] = yielded[Len(received) + k]
  /\ Len(received) + m = Produced
  /\ \/ m = Len(inbox)
     \/ m + 1 = Len(inbox) /\ inbox[m + 1] = None /\ producer = "ended"

InboxFollows ==
  /\ mode = "async" => \E m \in 0 .. Len(inbox) : TokensReceived(m)
  /\ Len(received) <= Len(yielded)
  /\ \A k \in 1 .. Len(received) : received[k] = yielded[k]

StreamInv ==
  /\ StreamTypeOK /\ ResultsCaught /\ ChannelFollows /\ YieldsThePut /\ LateTokens
  /\ TasksFollow /\ InboxFollows

-----------------------------------------------------------------------------
LEMMA BatchFacts ==
  /\ Jobs \in Nat /\ JobIds = 1 .. Jobs
  /\ \A j \in JobIds : BatchIds(j) \subseteq Nat /\ 1 \in BatchIds(j)
  /\ \A j \in JobIds : \A b \in BatchIds(j) : PromptBatches[j][b] \in Nat
<1>1. PromptBatches \in Seq(Seq(Nat) \ {<<>>})
  BY TokenStreamingAssumption
<1>2. Jobs \in Nat /\ JobIds = 1 .. Jobs
  BY <1>1 DEF Jobs, JobIds
<1>3. ASSUME NEW j \in JobIds
      PROVE  /\ BatchIds(j) \subseteq Nat /\ 1 \in BatchIds(j)
             /\ \A b \in BatchIds(j) : PromptBatches[j][b] \in Nat
  <2>1. PICK batch \in Seq(Nat) \ {<<>>} : batch = PromptBatches[j]
    BY <1>1, <1>2 DEF Jobs
  <2>2. DOMAIN batch = 1 .. Len(batch) /\ Len(batch) \in Nat \ {0}
    BY <2>1
  <2> QED
    BY <2>1, <2>2 DEF BatchIds
<1> QED
  BY <1>2, <1>3

LEMMA MarksAreNoTokens == None \notin Tokens /\ Error \notin Tokens /\ None # Error
BY BatchFacts DEF None, Error, Tokens

LEMMA MarksAreItems == {None, Error} \subseteq Items
BY DEF Items

(* A mark goes to the end of the channel.                                  *)
LEMMA CatchPutsItem ==
  ASSUME StreamTypeOK, NEW mark \in Items, CatchPuts(<<mark>>)
  PROVE  /\ channel' \in Seq(Items) /\ Len(channel') = Len(channel) + 1
         /\ \A k \in 1 .. Len(channel) : channel'[k] = channel[k]
         /\ channel'[Len(channel) + 1] = mark
<1>1. channel \in Seq(Items) /\ <<mark>> \in Seq(Items) /\ channel' = channel \o <<mark>>
  BY DEF StreamTypeOK, CatchPuts
<1>2. Len(<<mark>>) = 1 /\ <<mark>>[1] = mark
  OBVIOUS
<1>3. /\ channel \o <<mark>> \in Seq(Items) /\ Len(channel \o <<mark>>) = Len(channel) + 1
      /\ \A k \in 1 .. Len(channel) + 1 :
           (channel \o <<mark>>)[k] =
              IF k <= Len(channel) THEN channel[k] ELSE <<mark>>[k - Len(channel)]
  BY <1>1, <1>2, ConcatProperties
<1>4. Len(channel) \in Nat
  BY <1>1
<1> QED
  BY <1>1, <1>2, <1>3, <1>4

(* What Take does to the channel, for each kind of item.                   *)
LEMMA TakeItem ==
  ASSUME StreamTypeOK, Take
  PROVE  /\ generator = "running"
         /\ UNCHANGED <<mode, jobVars, catchVars, closed, asyncVars>>
         /\ Len(channel) > 0 /\ channel' \in Seq(Items) /\ Len(channel') = Len(channel) - 1
         /\ \A k \in 1 .. Len(channel) - 1 : channel'[k] = channel[k + 1]
         /\ \/ /\ channel[1] = None /\ generator' = "joining" /\ UNCHANGED <<outcome, yielded>>
            \/ /\ channel[1] = Error /\ generator' = "ended" /\ outcome' = "raised"
               /\ UNCHANGED yielded
            \/ /\ channel[1] \in Tokens /\ generator' = "suspended" /\ UNCHANGED outcome
               /\ yielded' = Append(yielded, channel[1])
<1>1. generator = "running" /\ UNCHANGED <<mode, jobVars, catchVars, closed, asyncVars>>
  BY DEF Take
<1>2. channel # <<>> /\ channel' = Tail(channel)
  BY DEF Take
<1>3. channel \in Seq(Items)
  BY DEF StreamTypeOK
<1>4. /\ Len(channel) > 0 /\ channel' \in Seq(Items) /\ Len(channel') = Len(channel) - 1
      /\ \A k \in 1 .. Len(channel) - 1 : channel'[k] = channel[k + 1]
      /\ Head(channel) = channel[1] /\ channel[1] \in Items
  BY <1>2, <1>3, HeadTailProperties
<1>5. CASE channel[1] = None
  BY <1>1, <1>4, <1>5, MarksAreNoTokens DEF Take, Ends
<1>6. CASE channel[1] = Error
  BY <1>1, <1>4, <1>6, MarksAreNoTokens DEF Take, Ends
<1>7. CASE channel[1] \in Tokens
  BY <1>1, <1>4, <1>7, MarksAreNoTokens DEF Take
<1> QED
  BY <1>4, <1>5, <1>6, <1>7 DEF Items

(* What Receive does to the queue of the asynchronous generator.           *)
LEMMA ReceiveItem ==
  ASSUME StreamTypeOK, Receive
  PROVE  /\ Len(inbox) > 0 /\ inbox' \in Seq(Tokens \cup {None}) /\ Len(inbox') = Len(inbox) - 1
         /\ \A k \in 1 .. Len(inbox) - 1 : inbox'[k] = inbox[k + 1]
         /\ \/ /\ inbox[1] = None /\ consumer' = "ended" /\ shutdown' = TRUE
               /\ UNCHANGED received
            \/ /\ inbox[1] \in Tokens /\ consumer' = "ready" /\ UNCHANGED shutdown
               /\ received' = Append(received, inbox[1])
<1>1. inbox # <<>> /\ inbox' = Tail(inbox)
  BY DEF Receive
<1>2. inbox \in Seq(Tokens \cup {None})
  BY DEF StreamTypeOK
<1>3. /\ Len(inbox) > 0 /\ inbox' \in Seq(Tokens \cup {None}) /\ Len(inbox') = Len(inbox) - 1
      /\ \A k \in 1 .. Len(inbox) - 1 : inbox'[k] = inbox[k + 1]
      /\ Head(inbox) = inbox[1] /\ inbox[1] \in Tokens \cup {None}
  BY <1>1, <1>2, HeadTailProperties
<1>4. CASE inbox[1] = None
  BY <1>3, <1>4 DEF Receive
<1>5. CASE inbox[1] \in Tokens
  BY <1>3, <1>5, MarksAreNoTokens DEF Receive
<1> QED
  BY <1>3, <1>4, <1>5

(* What a callback changes: one token goes to the end of put and of the    *)
(* channel, and it counts for the prompt whose turn it is.                 *)
LEMMA TokenPuts ==
  ASSUME StreamTypeOK, NEW j \in JobIds, Token(j)
  PROVE  /\ job[j] = "running" /\ job'[j] \in {"stop", "continue"} /\ DOMAIN job' = JobIds
         /\ \A i \in JobIds : i # j => job'[i] = job[i]
         /\ RowsTypeOK' /\ UNCHANGED rowVars
         /\ \A i \in JobIds : \A b \in BatchIds(i) :
              /\ Called(i, b)' \subseteq
                   Called(i, b) \cup (IF i = j /\ b = row[j] THEN {steps[j][b] + 1} ELSE {})
              /\ late'[i][b] = late[i][b] + (IF closed /\ i = j /\ b = row[j] THEN 1 ELSE 0)
         /\ put' \in Seq(Tokens) /\ Len(put') = Len(put) + 1
         /\ \A k \in 1 .. Len(put) : put'[k] = put[k]
         /\ put'[Len(put) + 1] = <<j, row[j], steps[j][row[j]] + 1>>
         /\ channel' \in Seq(Items) /\ Len(channel') = Len(channel) + 1
         /\ \A k \in 1 .. Len(channel) : channel'[k] = channel[k]
         /\ channel'[Len(channel) + 1] = <<j, row[j], steps[j][row[j]] + 1>>
         /\ UNCHANGED <<mode, next, caught, closed, generator, outcome, yielded, asyncVars>>
<1>1. /\ job[j] = "running" /\ UNCHANGED <<next, caught, closed, generator, outcome, yielded>>
      /\ UNCHANGED <<mode, rowVars, asyncVars>>
      /\ put' = Append(put, <<j, row[j], steps[j][row[j]] + 1>>)
      /\ channel' = Append(channel, <<j, row[j], steps[j][row[j]] + 1>>)
      /\ steps' = [steps EXCEPT ![j][row[j]] = @ + 1]
      /\ late' = IF closed THEN [late EXCEPT ![j][row[j]] = @ + 1] ELSE late
  BY DEF Token, catchVars, generatorVars
<1>2. PICK answer \in {"stop", "continue"} : job' = [job EXCEPT ![j] = answer]
  BY DEF Token
<1>3. /\ DOMAIN job = JobIds /\ put \in Seq(Tokens) /\ channel \in Seq(Items)
      /\ closed \in BOOLEAN /\ RowsTypeOK
  BY DEF StreamTypeOK
<1>4. row[j] \in BatchIds(j) /\ row[j] \in Nat /\ steps[j][row[j]] + 1 \in Nat
  <2>1. row[j] \in BatchIds(j) /\ steps[j] \in [BatchIds(j) -> Nat]
    BY ONLY <1>3, j \in JobIds DEF RowsTypeOK
  <2>2. BatchIds(j) \subseteq Nat
    BY ONLY BatchFacts, j \in JobIds
  <2>3. steps[j][row[j]] \in Nat
    BY ONLY <2>1
  <2> QED
    BY ONLY <2>1, <2>2, <2>3
<1>5. <<j, row[j], steps[j][row[j]] + 1>> \in Tokens
  BY <1>4 DEF Tokens
<1>6. <<j, row[j], steps[j][row[j]] + 1>> \in Items
  BY <1>5 DEF Items
<1>7. /\ job'[j] \in {"stop", "continue"} /\ \A i \in JobIds : i # j => job'[i] = job[i]
      /\ DOMAIN job' = JobIds
  BY <1>2, <1>3
<1>8. /\ DOMAIN steps' = JobIds
      /\ \A i \in JobIds : steps'[i] = IF i = j THEN [steps[j] EXCEPT ![row[j]] = @ + 1] ELSE steps[i]
  BY <1>1, <1>3 DEF RowsTypeOK
<1>9. /\ DOMAIN late' = JobIds
      /\ \A i \in JobIds :
           late'[i] = IF closed /\ i = j THEN [late[j] EXCEPT ![row[j]] = @ + 1] ELSE late[i]
  BY <1>1, <1>3 DEF RowsTypeOK
<1>10. RowsTypeOK'
  <2>1. ASSUME NEW i \in JobIds, NEW f \in [BatchIds(i) -> Nat], NEW b \in BatchIds(i)
        PROVE  [f EXCEPT ![b] = @ + 1] \in [BatchIds(i) -> Nat]
    OBVIOUS
  <2>2. \A i \in JobIds : steps[i] \in [BatchIds(i) -> Nat] /\ late[i] \in [BatchIds(i) -> Nat]
    BY <1>3 DEF RowsTypeOK
  <2>3. /\ [steps[j] EXCEPT ![row[j]] = @ + 1] \in [BatchIds(j) -> Nat]
        /\ [late[j] EXCEPT ![row[j]] = @ + 1] \in [BatchIds(j) -> Nat]
    BY <1>4, <2>1, <2>2
  <2>4. \A i \in JobIds : steps'[i] \in [BatchIds(i) -> Nat] /\ late'[i] \in [BatchIds(i) -> Nat]
    BY <1>8, <1>9, <2>2, <2>3, Zenon
  <2> QED
    BY <1>1, <1>3, <1>8, <1>9, <2>4 DEF RowsTypeOK, rowVars
<1>11. ASSUME NEW i \in JobIds, NEW b \in BatchIds(i)
       PROVE  /\ Called(i, b)' \subseteq
                   Called(i, b) \cup (IF i = j /\ b = row[j] THEN {steps[j][b] + 1} ELSE {})
              /\ late'[i][b] = late[i][b] + (IF closed /\ i = j /\ b = row[j] THEN 1 ELSE 0)
  <2>1. steps[i] \in [BatchIds(i) -> Nat] /\ late[i] \in [BatchIds(i) -> Nat]
    BY <1>3 DEF RowsTypeOK
  <2>2. steps'[i][b] = IF i = j /\ b = row[j] THEN steps[j][b] + 1 ELSE steps[i][b]
    BY <1>8, <2>1
  <2>3. late'[i][b] = late[i][b] + (IF closed /\ i = j /\ b = row[j] THEN 1 ELSE 0)
    BY <1>9, <2>1
  <2>4. PromptBatches[i][b] \in Nat /\ steps[i][b] \in Nat
    BY <2>1, BatchFacts
  <2> QED
    BY <2>2, <2>3, <2>4 DEF Called
<1>12. /\ put' \in Seq(Tokens) /\ Len(put') = Len(put) + 1
       /\ \A k \in 1 .. Len(put) : put'[k] = put[k]
       /\ put'[Len(put) + 1] = <<j, row[j], steps[j][row[j]] + 1>>
  BY <1>1, <1>3, <1>5
<1>13. /\ channel' \in Seq(Items) /\ Len(channel') = Len(channel) + 1
       /\ \A k \in 1 .. Len(channel) : channel'[k] = channel[k]
       /\ channel'[Len(channel) + 1] = <<j, row[j], steps[j][row[j]] + 1>>
  BY <1>1, <1>3, <1>6
<1> QED
  BY <1>1, <1>7, <1>10, <1>11, <1>12, <1>13

(* The next prompt is one of those that are alive, or the job ends.        *)
LEMMA NextRow ==
  ASSUME StreamTypeOK, NEW j \in JobIds, GoesOn(j), \A i \in JobIds : alive'[i] \subseteq alive[i]
  PROVE  /\ job'[j] \in {"running", "value"} /\ DOMAIN job' = JobIds
         /\ \A i \in JobIds : i # j => job'[i] = job[i] /\ row'[i] = row[i]
         /\ DOMAIN row' = JobIds /\ row'[j] \in BatchIds(j)
         /\ job'[j] = "running" => row'[j] \in alive'[j]
<1>1. DOMAIN job = JobIds /\ DOMAIN row = JobIds /\ row[j] \in BatchIds(j) /\ alive[j] \subseteq BatchIds(j)
  BY DEF StreamTypeOK, RowsTypeOK
<1>2. CASE job' = [job EXCEPT ![j] = "value"] /\ UNCHANGED row
  BY <1>1, <1>2
<1>3. ASSUME NEW b \in alive'[j], job' = [job EXCEPT ![j] = "running"], row' = [row EXCEPT ![j] = b]
      PROVE  /\ job'[j] = "running" /\ DOMAIN job' = JobIds /\ row'[j] = b
             /\ \A i \in JobIds : i # j => job'[i] = job[i] /\ row'[i] = row[i]
             /\ DOMAIN row' = JobIds /\ b \in BatchIds(j)
  BY <1>1, <1>3
<1> QED
  BY <1>2, <1>3 DEF GoesOn

(* The steps of a job that put nothing.                                    *)
LEMMA JobGoesOn ==
  ASSUME StreamTypeOK, NEW j \in JobIds, ForceToken(j) \/ Answered(j) \/ Fail(j)
  PROVE  /\ job[j] \in {"running", "stop", "continue"} /\ job'[j] \in {"running", "value", "error"}
         /\ \A i \in JobIds : i # j => job'[i] = job[i]
         /\ DOMAIN job' = JobIds /\ RowsTypeOK'
         /\ \A i \in JobIds : \A b \in BatchIds(i) : Called(i, b)' \subseteq Called(i, b)
         /\ UNCHANGED <<mode, put, late, catchVars, channel, generatorVars, asyncVars>>
<1> USE DEF rowVars
<1>1. DOMAIN job = JobIds /\ RowsTypeOK
  BY DEF StreamTypeOK
<1>2. CASE ForceToken(j)
  <2>1. /\ job[j] = "running" /\ steps[j][row[j]] < PromptBatches[j][row[j]]
        /\ steps' = [steps EXCEPT ![j][row[j]] = @ + 1] /\ UNCHANGED alive /\ GoesOn(j)
        /\ UNCHANGED <<mode, put, late, catchVars, channel, generatorVars, asyncVars>>
    BY <1>2 DEF ForceToken, Forces
  <2>2. row[j] \in BatchIds(j) /\ steps[j] \in [BatchIds(j) -> Nat]
    BY <1>1 DEF RowsTypeOK
  <2>3. /\ DOMAIN steps' = JobIds
        /\ \A i \in JobIds : steps'[i] = IF i = j THEN [steps[j] EXCEPT ![row[j]] = @ + 1] ELSE steps[i]
    BY <1>1, <2>1 DEF RowsTypeOK
  <2>4. \A i \in JobIds : steps'[i] \in [BatchIds(i) -> Nat]
    BY <1>1, <2>2, <2>3 DEF RowsTypeOK
  <2>5. ASSUME NEW i \in JobIds, NEW b \in BatchIds(i) PROVE Called(i, b)' \subseteq Called(i, b)
    <3>1. steps'[i][b] = IF i = j /\ b = row[j] THEN steps[j][b] + 1 ELSE steps[i][b]
      BY <1>1, <2>2, <2>3 DEF RowsTypeOK
    <3>2. PromptBatches[i][b] \in Nat /\ steps[i][b] \in Nat
      BY <1>1, BatchFacts DEF RowsTypeOK
    <3> QED
      BY <2>1, <3>1, <3>2 DEF Called
  <2>6. /\ job'[j] \in {"running", "value"} /\ DOMAIN job' = JobIds
        /\ \A i \in JobIds : i # j => job'[i] = job[i] /\ row'[i] = row[i]
        /\ DOMAIN row' = JobIds /\ row'[j] \in BatchIds(j)
    BY <2>1, NextRow
  <2>7. RowsTypeOK'
    BY <1>1, <2>1, <2>3, <2>4, <2>6 DEF RowsTypeOK
  <2> QED
    BY <2>1, <2>5, <2>6, <2>7
<1>3. CASE Answered(j)
  <2>1. /\ job[j] \in {"stop", "continue"} /\ GoesOn(j)
        /\ alive' = alive \/ alive' = [alive EXCEPT ![j] = @ \ {row[j]}]
        /\ UNCHANGED <<mode, steps, put, late, catchVars, channel, generatorVars, asyncVars>>
    BY <1>3 DEF Answered
  <2>2. DOMAIN alive' = JobIds /\ \A i \in JobIds : alive'[i] \subseteq alive[i]
    BY <1>1, <2>1 DEF RowsTypeOK
  <2>3. /\ job'[j] \in {"running", "value"} /\ DOMAIN job' = JobIds
        /\ \A i \in JobIds : i # j => job'[i] = job[i] /\ row'[i] = row[i]
        /\ DOMAIN row' = JobIds /\ row'[j] \in BatchIds(j)
    BY <2>1, <2>2, NextRow
  <2>4. \A i \in JobIds : row'[i] \in BatchIds(i) /\ alive'[i] \subseteq BatchIds(i)
    BY <1>1, <2>2, <2>3 DEF RowsTypeOK
  <2>5. RowsTypeOK'
    BY <1>1, <2>1, <2>2, <2>3, <2>4 DEF RowsTypeOK
  <2>6. \A i \in JobIds : \A b \in BatchIds(i) : Called(i, b)' \subseteq Called(i, b)
    BY <2>1 DEF Called
  <2> QED
    BY <2>1, <2>3, <2>5, <2>6
<1>4. CASE Fail(j)
  BY <1>1, <1>4 DEF Fail, RowsTypeOK, Called
<1> QED
  BY <1>2, <1>3, <1>4

LEMMA NextStreamTypeOK == StreamTypeOK /\ [Next]_vars => StreamTypeOK'
<1> SUFFICES ASSUME StreamTypeOK, [Next]_vars PROVE StreamTypeOK'
  OBVIOUS
<1>0. UNCHANGED <<rowVars, steps, late>> => RowsTypeOK'
  BY DEF StreamTypeOK, RowsTypeOK, rowVars
<1> USE BatchFacts, MarksAreNoTokens, MarksAreItems, <1>0 DEF StreamTypeOK, jobVars, catchVars,
      generatorVars, asyncVars
<1> DEFINE States == {"none", "running", "stop", "continue", "value", "error"}
<1>1. ASSUME NEW j \in JobIds, Token(j) PROVE StreamTypeOK'
  <2>1. job' \in [JobIds -> States]
    BY <1>1 DEF Token
  <2>2. /\ RowsTypeOK' /\ put' \in Seq(Tokens) /\ channel' \in Seq(Items)
        /\ UNCHANGED <<mode, next, caught, closed, generator, outcome, yielded, asyncVars>>
    BY <1>1, TokenPuts
  <2> QED
    BY <2>1, <2>2
<1>2. ASSUME NEW j \in JobIds, ForceToken(j) \/ Answered(j) \/ Fail(j) PROVE StreamTypeOK'
  <2>1. job' \in [JobIds -> States]
    BY <1>2 DEF ForceToken, Answered, Fail, GoesOn
  <2>2. /\ RowsTypeOK'
        /\ UNCHANGED <<mode, put, late, catchVars, channel, generatorVars, asyncVars>>
    BY <1>2, JobGoesOn
  <2> QED
    BY <2>1, <2>2
<1>4. CASE CatchResult
  <2>1. CASE job[next] = "error"
    <3>1. CatchPuts(<<Error>>) /\ next' = Jobs + 1 /\
          UNCHANGED <<mode, jobVars, caught, generatorVars, asyncVars>>
      BY <1>4, <2>1 DEF CatchResult
    <3>2. channel' \in Seq(Items)
      BY <3>1, CatchPutsItem, MarksAreItems
    <3> QED
      BY <3>1, <3>2
  <2>2. CASE job[next] # "error"
    BY <1>4, <2>2 DEF CatchResult
  <2> QED
    BY <2>1, <2>2
<1>5. CASE CatchEnd
  <2>1. CatchPuts(<<None>>) /\ caught' = TRUE /\
        UNCHANGED <<mode, jobVars, next, generatorVars, asyncVars>>
    BY <1>5 DEF CatchEnd
  <2>2. channel' \in Seq(Items)
    BY <2>1, CatchPutsItem, MarksAreItems
  <2> QED
    BY <2>1, <2>2
<1>6. CASE Take
  <2>1. channel' \in Seq(Items) /\ UNCHANGED <<mode, jobVars, catchVars, closed, asyncVars>>
    BY <1>6, TakeItem
  <2>2. generator' \in {"joining", "ended", "suspended"} /\ outcome' \in {outcome, "raised"}
    BY <1>6, TakeItem, Zenon
  <2>3. yielded' \in Seq(Tokens)
    <3>1. CASE yielded' = yielded
      BY <3>1
    <3>2. CASE channel[1] \in Tokens /\ yielded' = Append(yielded, channel[1])
      BY <3>2
    <3> QED
      BY <1>6, <3>1, <3>2, TakeItem
  <2>4. generator' = "suspended" => Len(yielded') > 0
    BY <1>6, TakeItem
  <2> QED
    BY <2>1, <2>2, <2>3, <2>4
<1>7. CASE Join
  BY <1>7 DEF Join, Ends
<1>8. CASE User
  <2>1. job' \in [JobIds -> {"none", "running", "stop", "continue", "value", "error"}]
    BY <1>8 DEF User, Resume, Close, Ends
  <2>2. generator' \in {"running", "joining", "ended"} /\ outcome' \in {outcome, "closed"}
    BY <1>8 DEF User, Resume, Close, Ends
  <2>3. closed' \in BOOLEAN
    BY <1>8 DEF User, Resume, Close, Ends
  <2>4. UNCHANGED <<mode, rowVars, steps, put, late, catchVars, channel, yielded, asyncVars>>
    BY <1>8 DEF User, Resume, Close, Ends
  <2> QED
    BY <2>1, <2>2, <2>3, <2>4
<1>9. CASE ProduceItem
  <2>1. Last(yielded) \in Tokens
    BY <1>9 DEF ProduceItem, Last
  <2>2. inbox' \in Seq(Tokens \cup {None})
    BY <1>9, <2>1 DEF ProduceItem
  <2>3. producer' = "asleep"
    BY <1>9 DEF ProduceItem
  <2>4. UNCHANGED <<mode, jobVars, catchVars, channel, generatorVars, shutdown, consumer, received>>
    BY <1>9 DEF ProduceItem
  <2> QED
    BY <2>1, <2>2, <2>3, <2>4
<1>10. CASE ProduceNext
  <2>1. job' \in [JobIds -> {"none", "running", "stop", "continue", "value", "error"}]
    BY <1>10 DEF ProduceNext, Resume, Close, Ends
  <2>2. generator' \in {"running", "joining", "ended"} /\ outcome' \in {outcome, "closed"}
    BY <1>10 DEF ProduceNext, Resume, Close, Ends
  <2>3. closed' \in BOOLEAN /\ producer' \in {"iterating"}
    BY <1>10 DEF ProduceNext, Resume, Close, Ends
  <2>4. UNCHANGED <<mode, rowVars, steps, put, late, catchVars, channel, yielded, inbox, shutdown,
        consumer, received>>
    BY <1>10 DEF ProduceNext, Resume, Close, Ends
  <2> QED
    BY <2>1, <2>2, <2>3, <2>4
<1>11. CASE ProduceEnd
  BY <1>11 DEF ProduceEnd, PutsNone
<1>12. CASE Consume
  <2>1. /\ inbox' \in Seq(Tokens \cup {None}) /\ shutdown' \in BOOLEAN
    BY <1>12, ReceiveItem DEF Consume
  <2>2. consumer' \in {"ended", "ready", "waiting"}
    BY <1>12, ReceiveItem DEF Consume
  <2>3. UNCHANGED <<mode, jobVars, catchVars, channel, generatorVars, producer>>
    BY <1>12 DEF Consume
  <2>4. received' \in Seq(Tokens)
    <3>1. CASE received' = received
      BY <3>1
    <3>2. CASE inbox[1] \in Tokens /\ received' = Append(received, inbox[1])
      BY <3>2
    <3> QED
      BY <1>12, <3>1, <3>2, ReceiveItem DEF Consume
  <2> QED
    BY <2>1, <2>2, <2>3, <2>4
<1>13. CASE Cancel
  BY <1>13 DEF Cancel
<1>14. CASE Leave
  BY <1>14 DEF Leave
<1>15. CASE UNCHANGED vars
  BY <1>15 DEF vars
<1> QED
  BY <1>1, <1>2, <1>4, <1>5, <1>6, <1>7, <1>8, <1>9, <1>10, <1>11, <1>12,
     <1>13, <1>14, <1>15
     DEF Next, RunJob, Produce, Terminated

-----------------------------------------------------------------------------
(* The jobs, the thread and the generator, without the asynchronous tasks. *)
streamVars == <<jobVars, catchVars, channel, generatorVars>>

LEMMA StreamSteps ==
  ASSUME [Next]_vars
  PROVE  \/ \E j \in JobIds : Token(j) \/ ForceToken(j) \/ Answered(j) \/ Fail(j)
         \/ CatchResult \/ CatchEnd \/ Take \/ Join
         \/ Resume \/ Close
         \/ UNCHANGED streamVars
<1> USE DEF streamVars, jobVars, catchVars, generatorVars, vars
<1>1. CASE User
  BY <1>1 DEF User
<1>2. CASE Produce
  BY <1>2 DEF Produce, ProduceItem, ProduceNext, ProduceEnd
<1>3. CASE Consume \/ Cancel \/ Leave
  BY <1>3 DEF Consume, Cancel, Leave
<1>4. CASE UNCHANGED vars
  BY <1>4
<1> QED
  BY <1>1, <1>2, <1>3, <1>4 DEF Next, RunJob, Terminated

(* What a step does not undo: the end of the jobs and what was put.        *)
LEMMA EndsStay ==
  ASSUME StreamTypeOK, ResultsCaught, [Next]_vars
  PROVE  /\ AllValues => AllValues' /\ put' = put
         /\ \A j \in JobIds : job[j] = "error" =>
              job'[j] = "error" /\ \A b \in BatchIds(j) : Called(j, b)' \subseteq Called(j, b)
         /\ Len(put) <= Len(put') /\ \A k \in 1 .. Len(put) : put'[k] = put[k]
<1>1. Len(put) \in Nat
  BY DEF StreamTypeOK
<1>2. ASSUME NEW j \in JobIds, Token(j)
      PROVE  /\ AllValues => AllValues' /\ put' = put
             /\ \A i \in JobIds : job[i] = "error" =>
                  job'[i] = "error" /\ \A b \in BatchIds(i) : Called(i, b)' \subseteq Called(i, b)
             /\ Len(put) <= Len(put') /\ \A k \in 1 .. Len(put) : put'[k] = put[k]
  BY <1>1, <1>2, TokenPuts DEF AllValues
<1>3. ASSUME NEW j \in JobIds, ForceToken(j) \/ Answered(j) \/ Fail(j)
      PROVE  /\ AllValues => AllValues' /\ put' = put
             /\ \A i \in JobIds : job[i] = "error" =>
                  job'[i] = "error" /\ \A b \in BatchIds(i) : Called(i, b)' \subseteq Called(i, b)
             /\ Len(put) <= Len(put') /\ \A k \in 1 .. Len(put) : put'[k] = put[k]
  BY <1>1, <1>3, JobGoesOn DEF AllValues
<1>4. CASE UNCHANGED jobVars
  BY <1>1, <1>4 DEF AllValues, jobVars, Called
<1>5. CASE Resume
  <2>1. CASE generator = "created"
    <3>1. UNCHANGED <<steps, put>> /\ \A j \in JobIds : job[j] = "none"
      BY <1>5, <2>1 DEF Resume, ResultsCaught
    <3> QED
      BY <1>1, <3>1 DEF AllValues, Called
  <2>2. CASE generator # "created"
    BY <1>4, <1>5, <2>2 DEF Resume, jobVars
  <2> QED
    BY <2>1, <2>2
<1>6. CASE CatchResult \/ CatchEnd \/ Take \/ Join \/ Close \/ UNCHANGED streamVars
  <2>1. UNCHANGED jobVars
    BY <1>6 DEF CatchResult, CatchEnd, Take, Join, Close, streamVars, jobVars
  <2> QED
    BY <1>4, <2>1
<1> QED
  BY <1>2, <1>3, <1>5, <1>6, StreamSteps

LEMMA ErrorStays ==
  ASSUME StreamTypeOK, ResultsCaught, [Next]_vars, NEW n \in Int, n <= Len(put), ErrorAfter(n)
  PROVE  ErrorAfter(n)'
<1>1. PICK j \in JobIds : job[j] = "error" /\
      \A b \in BatchIds(j) : \A i \in Called(j, b) : \E k \in 1 .. n : put[k] = <<j, b, i>>
  BY DEF ErrorAfter
<1>2. job'[j] = "error" /\ \A b \in BatchIds(j) : Called(j, b)' \subseteq Called(j, b)
  BY <1>1, EndsStay
<1>3. \A k \in 1 .. n : put'[k] = put[k]
  <2>1. \A k \in 1 .. Len(put) : put'[k] = put[k]
    BY EndsStay
  <2>2. Len(put) \in Nat
    BY DEF StreamTypeOK
  <2> QED
    BY <2>1, <2>2
<1>4. ASSUME NEW b \in BatchIds(j), NEW i \in Called(j, b)'
      PROVE  \E k \in 1 .. n : put'[k] = <<j, b, i>>
  <2>1. i \in Called(j, b)
    BY <1>2
  <2>2. PICK k \in 1 .. n : put[k] = <<j, b, i>>
    BY <1>1, <2>1
  <2> QED
    BY <1>3, <2>2
<1> QED
  BY ONLY <1>2, <1>4, j \in JobIds DEF ErrorAfter

-----------------------------------------------------------------------------
LEMMA NextResultsCaught ==
  ASSUME StreamTypeOK, ResultsCaught, YieldsThePut, [Next]_vars
  PROVE  ResultsCaught'
<1> USE DEF ResultsCaught
<1>0. Jobs \in Nat /\ JobIds = 1 .. Jobs /\ next \in Nat \ {0}
  BY BatchFacts DEF StreamTypeOK
<1>1. ASSUME NEW j \in JobIds, Token(j) PROVE ResultsCaught'
  <2>1. next' = next /\ caught' = caught /\ generator' = generator /\ generator # "created"
    BY <1>1, TokenPuts
  <2>2. next <= Jobs => \A i \in 1 .. next - 1 : job'[i] = "value"
    <3> SUFFICES ASSUME next <= Jobs, NEW i \in 1 .. next - 1 PROVE job'[i] = "value"
      OBVIOUS
    <3>1. i \in JobIds /\ job[i] = "value"
      BY <1>0
    <3> QED
      BY <1>1, <3>1, TokenPuts
  <2>3. next > Jobs => SomeError'
    <3>1. /\ job[j] = "running" /\ \A i \in JobIds : i # j => job'[i] = job[i]
      BY <1>1, TokenPuts
    <3>2. next > Jobs => AllValues \/ SomeError
      OBVIOUS
    <3> QED
      BY ONLY <3>1, <3>2, j \in JobIds DEF AllValues, SomeError
  <2>4. \A i \in JobIds : \A b \in BatchIds(i) : \A l \in Called(i, b)' :
          \E k \in 1 .. Len(put') : put'[k] = <<i, b, l>>
    <3> SUFFICES ASSUME NEW i \in JobIds, NEW b \in BatchIds(i), NEW l \in Called(i, b)'
          PROVE  \E k \in 1 .. Len(put') : put'[k] = <<i, b, l>>
      OBVIOUS
    <3>1. Len(put) \in Nat
      BY DEF StreamTypeOK
    <3>2. CASE i = j /\ b = row[j] /\ l = steps[j][b] + 1
      <4>1. Len(put) + 1 \in 1 .. Len(put') /\ put'[Len(put) + 1] = <<i, b, l>>
        BY <1>1, <3>1, <3>2, TokenPuts
      <4> QED
        BY <4>1
    <3>3. CASE l \in Called(i, b)
      <4>1. PICK k \in 1 .. Len(put) : put[k] = <<i, b, l>>
        BY <3>3
      <4>2. put'[k] = <<i, b, l>> /\ k \in 1 .. Len(put')
        BY <1>1, <3>1, <4>1, TokenPuts
      <4> QED
        BY <4>2
    <3> QED
      BY <1>1, <3>2, <3>3, TokenPuts
  <2> QED
    BY <2>1, <2>2, <2>3, <2>4
<1>2. ASSUME NEW j \in JobIds, ForceToken(j) \/ Answered(j) \/ Fail(j) PROVE ResultsCaught'
  <2>1. /\ UNCHANGED <<next, caught, generator, put>> /\ generator # "created"
        /\ \A i \in JobIds : \A b \in BatchIds(i) : Called(i, b)' \subseteq Called(i, b)
    BY <1>2, JobGoesOn DEF catchVars, generatorVars
  <2>2. next <= Jobs => \A i \in 1 .. next - 1 : job'[i] = "value"
    <3> SUFFICES ASSUME next <= Jobs, NEW i \in 1 .. next - 1 PROVE job'[i] = "value"
      OBVIOUS
    <3>1. i \in JobIds /\ job[i] = "value"
      BY <1>0
    <3> QED
      BY <1>2, <3>1, JobGoesOn
  <2>3. next > Jobs => SomeError'
    BY <1>2, JobGoesOn DEF AllValues, SomeError, Called
  <2> QED
    BY <2>1, <2>2, <2>3
<1>3. CASE CatchResult
  <2>1. next \in JobIds /\ UNCHANGED <<jobVars, caught, generatorVars>> /\ ~caught
    BY <1>0, <1>3 DEF CatchResult
  <2>2. CASE job[next] = "error"
    <3>1. next' = Jobs + 1
      BY <1>3, <2>2 DEF CatchResult
    <3>2. SomeError'
      BY <2>1, <2>2 DEF SomeError, jobVars
    <3>3. UNCHANGED <<job, steps, put, generator, caught>>
      BY <2>1 DEF jobVars, generatorVars
    <3>4. generator' = "created" => \A j \in JobIds : job'[j] = "none"
      BY <3>3
    <3>5. \A j \in JobIds : \A b \in BatchIds(j) : \A i \in Called(j, b)' :
            \E k \in 1 .. Len(put') : put'[k] = <<j, b, i>>
      BY <3>3 DEF Called
    <3>6. next' > Jobs /\ ~(next' <= Jobs)
      BY <1>0, <3>1
    <3> QED
      BY <3>2, <3>4, <3>5, <3>6
  <2>3. CASE job[next] = "value" /\ next' = next + 1
    <3>1. \A i \in 1 .. next : job[i] = "value"
      BY <1>0, <2>1, <2>3
    <3>2. next' > Jobs => AllValues'
      BY <1>0, <2>1, <2>3, <3>1 DEF AllValues, jobVars
    <3>3. UNCHANGED <<job, steps, put, generator, caught>>
      BY <2>1 DEF jobVars, generatorVars
    <3>4. generator' = "created" => \A j \in JobIds : job'[j] = "none"
      BY <3>3
    <3>5. \A j \in JobIds : \A b \in BatchIds(j) : \A i \in Called(j, b)' :
            \E k \in 1 .. Len(put') : put'[k] = <<j, b, i>>
      BY <3>3 DEF Called
    <3>6. next' <= Jobs => \A i \in 1 .. next' - 1 : job'[i] = "value"
      BY <1>0, <2>3, <3>1, <3>3
    <3>7. caught' => next' > Jobs
      BY <2>1, <3>3
    <3> QED
      BY <3>2, <3>4, <3>5, <3>6, <3>7
  <2> QED
    BY <1>3, <2>2, <2>3 DEF CatchResult, Done
<1>4. CASE CatchEnd
  BY <1>4 DEF CatchEnd, jobVars, generatorVars, AllValues, SomeError, Called
<1>5. CASE Take
  <2>1. UNCHANGED <<jobVars, catchVars>> /\ generator' # "created"
    BY <1>5, TakeItem
  <2> QED
    BY <2>1 DEF jobVars, catchVars, AllValues, SomeError, Called
<1>6. CASE Join \/ Close
  <2>1. UNCHANGED <<jobVars, catchVars>> /\ generator' # "created"
    BY <1>6 DEF Join, Close, Ends
  <2> QED
    BY <2>1 DEF jobVars, catchVars, AllValues, SomeError, Called
<1>7. CASE Resume
  <2>1. UNCHANGED <<steps, put, catchVars>> /\ generator' # "created"
    BY <1>7 DEF Resume
  <2>2. CASE generator = "created"
    <3>1. next <= Jobs => next = 1
      BY <1>0, <2>2
    <3>2. next > Jobs => Jobs = 0
      <4>1. ASSUME 1 \in JobIds, next > Jobs PROVE FALSE
        BY <2>2, <4>1 DEF AllValues, SomeError, Called
      <4> QED
        BY <1>0, <4>1
    <3>3. UNCHANGED <<steps, put, next, caught>>
      BY <2>1 DEF catchVars
    <3>4. Jobs = 0 => AllValues'
      BY <1>0 DEF AllValues
    <3>5. next' <= Jobs => 1 .. next' - 1 = {}
      BY <1>0, <3>1, <3>3
    <3>6. caught' => next' > Jobs
      BY <3>3
    <3>7. next' > Jobs => AllValues'
      BY <3>2, <3>3, <3>4
    <3>8. \A j \in JobIds : \A b \in BatchIds(j) : \A i \in Called(j, b)' :
            \E k \in 1 .. Len(put') : put'[k] = <<j, b, i>>
      BY <3>3 DEF Called
    <3> QED
      BY <2>1, <3>5, <3>6, <3>7, <3>8
  <2>3. CASE job' = job
    BY <2>1, <2>3 DEF catchVars, AllValues, SomeError, Called
  <2> QED
    BY <1>7, <2>2, <2>3 DEF Resume
<1>8. CASE UNCHANGED streamVars
  BY <1>8 DEF streamVars, jobVars, catchVars, generatorVars, AllValues, SomeError, Called
<1> QED
  BY <1>1, <1>2, <1>3, <1>4, <1>5, <1>6, <1>7, <1>8, StreamSteps

LEMMA NextChannelFollows ==
  ASSUME StreamTypeOK, ResultsCaught, ChannelFollows, YieldsThePut, [Next]_vars
  PROVE  ChannelFollows'
<1> SUFFICES ASSUME generator' \in {"created", "running", "suspended"}
      PROVE  Unmarked' \/ \E e \in 1 .. Len(channel') : MarkedAt(e)'
  BY DEF ChannelFollows
<1>0. PICK c \in Nat, p \in Nat, y \in Nat :
        c = Len(channel) /\ p = Len(put) /\ y = Len(yielded)
  BY DEF StreamTypeOK
<1> DEFINE streaming == generator \in {"created", "running", "suspended"}
<1>1. ASSUME NEW j \in JobIds, Token(j)
      PROVE  Unmarked' \/ \E e \in 1 .. Len(channel') : MarkedAt(e)'
  <2>1. ~AllValues /\ streaming /\ yielded' = yielded
    BY <1>1, TokenPuts DEF AllValues
  <2>2. CASE Unmarked
    <3>1. TokensFirst(c) /\ y + c = p
      BY <1>0, <2>2 DEF Unmarked
    <3>2. Len(yielded') = y /\ Len(channel') = c + 1 /\ Len(put') = p + 1
      BY <1>0, <1>1, <2>1, TokenPuts
    <3>4. /\ \A k \in 1 .. c : channel'[k] = channel[k]
          /\ \A k \in 1 .. p : put'[k] = put[k]
          /\ channel'[c + 1] = put'[p + 1]
      BY <1>0, <1>1, TokenPuts
    <3>5. ASSUME NEW k \in 1 .. c + 1 PROVE channel'[k] = put'[y + k]
      <4>1. CASE k <= c
        <5>1. channel[k] = put[y + k]
          BY <1>0, <3>1, <4>1 DEF TokensFirst
        <5>2. k \in 1 .. c /\ y + k \in 1 .. p
          BY <3>1, <4>1
        <5> QED
          BY <3>4, <5>1, <5>2
      <4>2. CASE k = c + 1
        BY <3>1, <3>4, <4>2
      <4> QED
        BY <4>1, <4>2
    <3>6. Len(yielded') + Len(channel') <= Len(put')
      BY <3>1, <3>2
    <3>7. TokensFirst(c + 1)'
      BY <3>2, <3>5, <3>6 DEF TokensFirst
    <3>3. ~caught' /\ ~(next' > Jobs)
      BY <1>1, <2>1, <2>2, TokenPuts DEF Unmarked
    <3> QED
      BY <3>1, <3>2, <3>3, <3>7 DEF Unmarked
  <2>3. ASSUME NEW e \in 1 .. Len(channel), MarkedAt(e) PROVE MarkedAt(e)'
    <3>1. TokensFirst(e - 1)'
      <4>1. y + (e - 1) <= p /\ \A k \in 1 .. e - 1 : channel[k] = put[y + k]
        BY <1>0, <2>3 DEF MarkedAt, TokensFirst
      <4>0. /\ \A k \in 1 .. c : channel'[k] = channel[k]
            /\ \A k \in 1 .. p : put'[k] = put[k]
            /\ e \in Nat /\ e - 1 <= c
        BY <1>0, <1>1, <2>3, TokenPuts
      <4>2. ASSUME NEW k \in 1 .. e - 1 PROVE channel'[k] = put'[y + k]
        <5>1. k \in 1 .. c /\ y + k \in 1 .. p
          BY ONLY <4>0, <4>1, <1>0, k \in 1 .. e - 1
        <5>2. channel[k] = put[y + k]
          BY ONLY <4>1, k \in 1 .. e - 1
        <5> QED
          BY ONLY <4>0, <5>1, <5>2
      <4> QED
        BY <1>0, <1>1, <2>1, <4>1, <4>2, TokenPuts DEF TokensFirst
    <3>2. channel[e] = Error /\ ErrorAfter(y + e - 1) /\ y + e - 1 <= Len(put)
      BY <1>0, <2>1, <2>3 DEF MarkedAt, TokensFirst
    <3>3. ErrorAfter(y + e - 1)'
      BY <3>2, ErrorStays
    <3> QED
      BY <1>0, <1>1, <2>1, <3>1, <3>2, <3>3, TokenPuts DEF MarkedAt
  <2> QED
    BY <1>0, <1>1, <2>1, <2>2, <2>3, TokenPuts DEF ChannelFollows
<1>2. ASSUME streaming, UNCHANGED <<put, channel, yielded, next, caught>>
      PROVE  Unmarked' \/ \E e \in 1 .. Len(channel') : MarkedAt(e)'
  <2>1. CASE Unmarked
    BY <1>2, <2>1, EndsStay DEF Unmarked, TokensFirst
  <2>2. ASSUME NEW e \in 1 .. Len(channel), MarkedAt(e) PROVE MarkedAt(e)'
    <3>1. TokensFirst(e - 1)'
      BY <1>2, <2>2 DEF MarkedAt, TokensFirst
    <3>2. CASE channel[e] = Error /\ ErrorAfter(Len(yielded) + e - 1)
      <4>1. y + e - 1 <= Len(put) /\ ErrorAfter(y + e - 1)
        BY <1>0, <2>2, <3>2 DEF MarkedAt, TokensFirst
      <4>2. ErrorAfter(y + e - 1)'
        BY <4>1, ErrorStays
      <4> QED
        BY <1>0, <1>2, <3>1, <3>2, <4>2 DEF MarkedAt
    <3>3. CASE channel[e] = None /\ AllValues /\ Len(yielded) + e - 1 = Len(put)
      BY <1>2, <3>1, <3>3, EndsStay DEF MarkedAt
    <3> QED
      BY <2>2, <3>2, <3>3 DEF MarkedAt
  <2> QED
    BY <1>2, <2>1, <2>2 DEF ChannelFollows
<1>3. ASSUME NEW j \in JobIds, ForceToken(j) \/ Answered(j) \/ Fail(j)
      PROVE  Unmarked' \/ \E e \in 1 .. Len(channel') : MarkedAt(e)'
  <2>1. streaming /\ UNCHANGED <<put, channel, yielded, next, caught>>
    BY <1>3, JobGoesOn DEF generatorVars, catchVars
  <2> QED
    BY <1>2, <2>1
<1>4. ASSUME UNCHANGED <<jobVars, generatorVars>>, NEW mark \in Items, CatchPuts(<<mark>>),
             Unmarked => \/ mark = None /\ AllValues
                         \/ mark = Error /\ ErrorAfter(Len(put))
      PROVE  \E e \in 1 .. Len(channel') : MarkedAt(e)'
  <2>1. streaming /\ UNCHANGED <<job, put, steps, yielded>>
    BY <1>4 DEF jobVars, generatorVars
  <2>2. /\ Len(channel') = Len(channel) + 1 /\ channel'[Len(channel) + 1] = mark
        /\ \A k \in 1 .. Len(channel) : channel'[k] = channel[k]
    BY <1>4, CatchPutsItem
  <2>3. CASE Unmarked
    <3>1. y + c = p /\ \A k \in 1 .. c : channel[k] = put[y + k]
      BY <1>0, <2>3 DEF Unmarked, TokensFirst
    <3>2. TokensFirst(c)'
      BY <1>0, <2>1, <2>2, <3>1 DEF TokensFirst
    <3>3. AllValues => AllValues'
      BY <2>1 DEF AllValues
    <3>4. ErrorAfter(p) => ErrorAfter(p)'
      BY <2>1 DEF ErrorAfter, Called
    <3>5. (c + 1) - 1 = c /\ Len(yielded') + (c + 1) - 1 = p /\ Len(put') = p /\
          channel'[c + 1] = mark
      BY <1>0, <2>1, <2>2, <3>1
    <3>6. MarkedAt(c + 1)'
      BY <1>0, <1>4, <2>3, <3>2, <3>3, <3>4, <3>5 DEF MarkedAt
    <3> QED
      BY <1>0, <2>2, <3>6
  <2>4. ASSUME NEW e \in 1 .. Len(channel), MarkedAt(e) PROVE MarkedAt(e)'
    <3>1. y + (e - 1) <= p /\ \A k \in 1 .. e - 1 : channel[k] = put[y + k]
      BY <1>0, <2>4 DEF MarkedAt, TokensFirst
    <3>2. TokensFirst(e - 1)'
      BY <1>0, <2>1, <2>2, <3>1 DEF TokensFirst
    <3>3. AllValues => AllValues'
      BY <2>1 DEF AllValues
    <3>4. ErrorAfter(y + e - 1) => ErrorAfter(y + e - 1)'
      BY <2>1 DEF ErrorAfter, Called
    <3>5. channel'[e] = channel[e] /\ Len(yielded') = y /\ Len(put') = p
      BY <1>0, <2>1, <2>2
    <3> QED
      BY <1>0, <2>4, <3>2, <3>3, <3>4, <3>5 DEF MarkedAt
  <2> QED
    BY <1>0, <2>1, <2>2, <2>3, <2>4 DEF ChannelFollows
<1>5. CASE CatchResult
  <2>1. CASE job[next] = "error"
    <3>1. CatchPuts(<<Error>>) /\ UNCHANGED <<jobVars, generatorVars>> /\ next \in JobIds
      BY <1>5, <2>1, BatchFacts DEF CatchResult, StreamTypeOK
    <3>2. ErrorAfter(Len(put))
      BY <2>1, <3>1 DEF ErrorAfter, ResultsCaught
    <3> QED
      BY <1>4, <3>1, <3>2, MarksAreItems
  <2>2. CASE job[next] # "error"
    <3>1. /\ next' = next + 1 /\ job[next] = "value" /\ next <= Jobs
          /\ UNCHANGED <<jobVars, caught, channel, generatorVars>>
      BY <1>5, <2>2 DEF CatchResult, Done
    <3>2. streaming /\ UNCHANGED <<job, steps, put, yielded>>
      BY <3>1 DEF jobVars, generatorVars
    <3>3. next' > Jobs => AllValues'
      <4>1. next \in Nat \ {0} /\ Jobs \in Nat
        BY BatchFacts DEF StreamTypeOK
      <4> QED
        BY <3>1, <3>2, <4>1, BatchFacts DEF ResultsCaught, AllValues
    <3>4. CASE Unmarked
      BY <3>1, <3>2, <3>3, <3>4 DEF Unmarked, TokensFirst
    <3>5. ASSUME NEW e \in 1 .. Len(channel), MarkedAt(e) PROVE MarkedAt(e)'
      BY <3>1, <3>2, <3>5 DEF MarkedAt, TokensFirst, ErrorAfter, AllValues, Called
    <3> QED
      BY <3>1, <3>2, <3>4, <3>5 DEF ChannelFollows
  <2> QED
    BY <2>1, <2>2
<1>6. CASE CatchEnd
  <2>1. CatchPuts(<<None>>) /\ UNCHANGED <<jobVars, generatorVars>> /\ next > Jobs
    BY <1>6 DEF CatchEnd
  <2>2. Unmarked => AllValues
    BY <2>1 DEF Unmarked
  <2> QED
    BY <1>4, <2>1, <2>2, MarksAreItems
<1>7. CASE Take
  <2>1. /\ generator = "running" /\ generator' = "suspended" /\ channel[1] \in Tokens
        /\ yielded' = Append(yielded, channel[1]) /\ UNCHANGED <<job, steps, put, next, caught>>
        /\ Len(channel) > 0 /\ Len(channel') = Len(channel) - 1
        /\ \A k \in 1 .. Len(channel) - 1 : channel'[k] = channel[k + 1]
    BY <1>7, TakeItem DEF jobVars, catchVars
  <2>2. Len(yielded') = Len(yielded) + 1
    BY <2>1 DEF StreamTypeOK
  <2>3. ASSUME NEW n \in 1 .. Len(channel), TokensFirst(n) PROVE TokensFirst(n - 1)'
    <3>1. y + n <= p /\ \A k \in 1 .. n : channel[k] = put[y + k]
      BY <1>0, <2>3 DEF TokensFirst
    <3>2. ASSUME NEW k \in 1 .. n - 1 PROVE channel'[k] = put[y + 1 + k]
      <4>1. k \in 1 .. Len(channel) - 1 /\ k + 1 \in 1 .. n /\ y + (k + 1) = y + 1 + k
        BY <1>0
      <4> QED
        BY <2>1, <3>1, <4>1
    <3>3. Len(yielded') = y + 1 /\ put' = put /\ Len(put') = p
      BY <1>0, <2>1, <2>2
    <3>4. (y + 1) + (n - 1) <= p
      BY <3>1
    <3> QED
      BY <3>2, <3>3, <3>4 DEF TokensFirst
  <2>4. CASE Unmarked
    <3>1. TokensFirst(c - 1)' /\ y + c = p
      <4>1. TokensFirst(c) /\ y + c = p
        BY <1>0, <2>4 DEF Unmarked
      <4>2. c \in 1 .. Len(channel)
        BY <1>0, <2>1
      <4> QED
        BY <2>3, <4>1, <4>2
    <3>2. Len(yielded') = y + 1 /\ Len(channel') = c - 1 /\ Len(put') = p
      BY <1>0, <2>1, <2>2
    <3>3. ~caught' /\ (next' > Jobs => AllValues')
      BY <2>1, <2>4 DEF Unmarked, AllValues
    <3> QED
      BY <3>1, <3>2, <3>3 DEF Unmarked
  <2>5. ASSUME NEW e \in 1 .. Len(channel), MarkedAt(e)
        PROVE e - 1 \in 1 .. Len(channel') /\ MarkedAt(e - 1)'
    <3>1. e # 1
      BY <2>1, <2>5, MarksAreNoTokens DEF MarkedAt
    <3>2. e - 1 \in 1 .. Len(channel) - 1 /\ channel'[e - 1] = channel[e]
      BY <1>0, <2>1, <3>1
    <3>3. TokensFirst(e - 1 - 1)'
      BY <2>3, <2>5, <3>2 DEF MarkedAt
    <3>4. Len(yielded') + (e - 1) - 1 = Len(yielded) + e - 1
      BY <1>0, <2>2
    <3> QED
      BY <2>1, <2>5, <3>2, <3>3, <3>4 DEF MarkedAt, ErrorAfter, AllValues, Called
  <2> QED
    BY <2>1, <2>4, <2>5 DEF ChannelFollows
<1>8. CASE Join \/ Close
  BY <1>8 DEF Join, Close, Ends
<1>9. CASE Resume
  <2>1. streaming /\ UNCHANGED <<put, channel, yielded, next, caught>>
    BY <1>9 DEF Resume, catchVars
  <2> QED
    BY <1>2, <2>1
<1>10. CASE UNCHANGED streamVars
  <2>1. streaming /\ UNCHANGED <<put, channel, yielded, next, caught>>
    BY <1>10 DEF streamVars, jobVars, catchVars, generatorVars
  <2> QED
    BY <1>2, <2>1
<1> QED
  BY <1>1, <1>3, <1>5, <1>6, <1>7, <1>8, <1>9, <1>10, StreamSteps

LEMMA NextYieldsThePut ==
  ASSUME StreamTypeOK, ResultsCaught, ChannelFollows, YieldsThePut, [Next]_vars
  PROVE  YieldsThePut'
<1>0. PICK p \in Nat, y \in Nat : p = Len(put) /\ y = Len(yielded)
  BY DEF StreamTypeOK
<1>1. p <= Len(put') /\ Len(put') \in Nat /\ \A k \in 1 .. p : put'[k] = put[k]
  BY <1>0, EndsStay, NextStreamTypeOK DEF StreamTypeOK
<1>2. y <= p /\ \A k \in 1 .. y : yielded[k] = put[k]
  BY <1>0 DEF YieldsThePut
<1>3. AllValues => AllValues' /\ Len(put') = p
  BY <1>0, EndsStay
<1>4. SomeError => SomeError'
  BY EndsStay DEF SomeError
<1>5. ASSUME NEW n \in Int, n <= p, ErrorAfter(n) PROVE ErrorAfter(n)'
  BY <1>0, <1>5, ErrorStays
<1>6. ASSUME UNCHANGED <<closed, generator, outcome, yielded>>,
             (\A j \in JobIds : job[j] = "none") => \A j \in JobIds : job'[j] = "none"
      PROVE  YieldsThePut'
  <2>1. Len(yielded') = y /\ yielded' = yielded
    BY <1>0, <1>6
  <2>2. Len(yielded') <= Len(put') /\ \A k \in 1 .. Len(yielded') : yielded'[k] = put'[k]
    BY <1>1, <1>2, <2>1
  <2>3. generator = "joining" /\ ~closed => y = Len(put') /\ AllValues'
    BY <1>0, <1>3 DEF YieldsThePut
  <2>4. outcome = "exhausted" => y = Len(put') /\ AllValues'
    BY <1>0, <1>3 DEF YieldsThePut
  <2>5. outcome = "raised" => ErrorAfter(y)'
    BY <1>0, <1>2, <1>5 DEF YieldsThePut
  <2>6. generator = "ended" => AllValues' \/ SomeError' \/ \A j \in JobIds : job'[j] = "none"
    BY <1>3, <1>4, <1>6 DEF YieldsThePut
  <2>7. (outcome = "none" <=> generator # "ended") /\ (closed => generator \in {"joining", "ended"})
    BY DEF YieldsThePut
  <2> QED
    BY <1>6, <2>1, <2>2, <2>3, <2>4, <2>5, <2>6, <2>7 DEF YieldsThePut
<1>7. ASSUME NEW j \in JobIds, Token(j) PROVE YieldsThePut'
  BY <1>6, <1>7, TokenPuts
<1>8. ASSUME NEW j \in JobIds, ForceToken(j) \/ Answered(j) \/ Fail(j) PROVE YieldsThePut'
  BY <1>6, <1>8, JobGoesOn DEF generatorVars
<1>9. CASE CatchResult \/ CatchEnd
  BY <1>6, <1>9 DEF CatchResult, CatchEnd, jobVars, generatorVars
<1>10. CASE Take
  <2>1. /\ generator = "running" /\ UNCHANGED <<job, steps, put, closed>> /\ Len(channel) > 0
        /\ \/ channel[1] = None /\ generator' = "joining" /\ UNCHANGED <<outcome, yielded>>
           \/ channel[1] = Error /\ generator' = "ended" /\ outcome' = "raised" /\ UNCHANGED yielded
           \/ /\ channel[1] \in Tokens /\ generator' = "suspended" /\ UNCHANGED outcome
              /\ yielded' = Append(yielded, channel[1])
    BY <1>10, TakeItem DEF jobVars
  <2>2. Unmarked \/ \E e \in 1 .. Len(channel) : MarkedAt(e)
    BY <2>1 DEF ChannelFollows
  <2>3. /\ outcome = "none" /\ ~closed /\ Len(put') = p
    BY <1>0, <2>1 DEF YieldsThePut, StreamTypeOK
  <2>4. ASSUME channel[1] \in Tokens PROVE y + 1 <= p /\ channel[1] = put[y + 1]
    <3>1. CASE Unmarked
      BY <1>0, <2>1, <3>1 DEF Unmarked, TokensFirst, StreamTypeOK
    <3>2. ASSUME NEW e \in 1 .. Len(channel), MarkedAt(e)
          PROVE y + 1 <= p /\ channel[1] = put[y + 1]
      <4>1. e # 1
        BY <2>4, <3>2, MarksAreNoTokens DEF MarkedAt
      <4>2. y + (e - 1) <= p /\ \A k \in 1 .. e - 1 : channel[k] = put[y + k]
        BY <1>0, <3>2 DEF MarkedAt, TokensFirst
      <4>3. 1 \in 1 .. e - 1
        BY <4>1
      <4> QED
        BY <4>2, <4>3
    <3> QED
      BY <2>2, <3>1, <3>2
  <2>5. ASSUME channel[1] \in {None, Error} PROVE MarkedAt(1)
    <3>1. CASE Unmarked
      <4>1. put[y + 1] = channel[1] /\ y + 1 \in 1 .. p
        <5>1. Len(channel) \in Nat /\ 1 \in 1 .. Len(channel)
          BY <2>1 DEF StreamTypeOK
        <5>2. y + Len(channel) <= p /\ \A k \in 1 .. Len(channel) : channel[k] = put[y + k]
          BY <1>0, <3>1 DEF Unmarked, TokensFirst
        <5> QED
          BY <5>1, <5>2
      <4>2. put[y + 1] \in Tokens
        BY <1>0, <4>1 DEF StreamTypeOK
      <4> QED
        BY <2>5, <4>1, <4>2, MarksAreNoTokens
    <3>2. ASSUME NEW e \in 1 .. Len(channel), MarkedAt(e) PROVE e = 1
      <4>1. CASE e # 1
        <5>1. put[y + 1] = channel[1] /\ y + 1 \in 1 .. p
          BY <1>0, <3>2, <4>1 DEF MarkedAt, TokensFirst
        <5>2. put[y + 1] \in Tokens
          BY <1>0, <5>1 DEF StreamTypeOK
        <5> QED
          BY <2>5, <5>1, <5>2, MarksAreNoTokens
      <4> QED
        BY <4>1
    <3> QED
      BY <2>2, <3>1, <3>2
  <2>6. CASE channel[1] = None
    <3>1. generator' = "joining" /\ UNCHANGED <<outcome, yielded>>
      BY <2>1, <2>6, MarksAreNoTokens
    <3>2. AllValues /\ y = p
      BY <1>0, <2>5, <2>6, MarksAreNoTokens DEF MarkedAt
    <3> QED
      BY <1>0, <1>1, <1>2, <1>3, <2>1, <2>3, <3>1, <3>2 DEF YieldsThePut
  <2>7. CASE channel[1] = Error
    <3>1. generator' = "ended" /\ outcome' = "raised" /\ UNCHANGED yielded
      BY <2>1, <2>7, MarksAreNoTokens
    <3>2. ErrorAfter(y)
      BY <1>0, <2>5, <2>7, MarksAreNoTokens DEF MarkedAt
    <3>3. ErrorAfter(y)' /\ SomeError'
      <4>1. SomeError
        BY <3>2 DEF ErrorAfter, SomeError
      <4> QED
        BY <1>2, <1>4, <1>5, <3>2, <4>1
    <3> QED
      BY <1>0, <1>1, <1>2, <2>1, <2>3, <3>1, <3>3 DEF YieldsThePut
  <2>8. CASE channel[1] \in Tokens
    <3>1. generator' = "suspended" /\ UNCHANGED outcome /\ yielded' = Append(yielded, channel[1])
      BY <2>1, <2>8, MarksAreNoTokens
    <3>2. /\ Len(yielded') = y + 1 /\ yielded'[y + 1] = channel[1]
          /\ \A k \in 1 .. y : yielded'[k] = yielded[k]
      BY <1>0, <3>1 DEF StreamTypeOK
    <3>3. \A k \in 1 .. y + 1 : yielded'[k] = put'[k]
      BY <1>2, <2>1, <2>4, <2>8, <3>2
    <3> QED
      BY <2>1, <2>3, <2>4, <2>8, <3>1, <3>2, <3>3 DEF YieldsThePut
  <2> QED
    BY <2>1, <2>6, <2>7, <2>8
<1>11. CASE Join
  <2>1. /\ generator = "joining" /\ caught /\ UNCHANGED <<job, steps, put, closed, yielded>>
        /\ generator' = "ended" /\ outcome' = IF closed THEN "closed" ELSE "exhausted"
    BY <1>11 DEF Join, Joined, Ends, jobVars
  <2>2. AllValues' \/ SomeError'
    BY <1>3, <1>4, <2>1 DEF ResultsCaught
  <2>3. ~closed => y = p /\ AllValues'
    BY <1>0, <1>3, <2>1 DEF YieldsThePut
  <2> QED
    BY <1>0, <1>2, <2>1, <2>2, <2>3 DEF YieldsThePut
<1>12. CASE Resume
  <2>1. /\ generator \in {"created", "suspended"} /\ generator' = "running"
        /\ UNCHANGED <<steps, put, closed, outcome, yielded>>
    BY <1>12 DEF Resume
  <2>2. outcome = "none" /\ ~closed
    BY <2>1 DEF YieldsThePut
  <2> QED
    BY <1>0, <1>2, <2>1, <2>2 DEF YieldsThePut
<1>13. CASE Close
  <2>1. UNCHANGED <<job, steps, put, yielded>>
    BY <1>13 DEF Close, jobVars
  <2>2. CASE generator = "created" /\ generator' = "ended" /\ outcome' = "closed" /\
        closed' = closed
    <3>1. \A j \in JobIds : job'[j] = "none"
      BY <2>1, <2>2 DEF ResultsCaught
    <3> QED
      BY <1>0, <1>2, <2>1, <2>2, <3>1 DEF YieldsThePut
  <2>3. CASE /\ generator = "suspended" /\ generator' = "joining" /\ closed' = TRUE
             /\ outcome' = outcome
    <3>1. outcome = "none"
      BY <2>3 DEF YieldsThePut
    <3> QED
      BY <1>0, <1>2, <2>1, <2>3, <3>1 DEF YieldsThePut
  <2> QED
    BY <1>13, <2>2, <2>3 DEF Close, Ends
<1>14. CASE UNCHANGED streamVars
  BY <1>6, <1>14 DEF streamVars, jobVars, generatorVars
<1> QED
  BY <1>7, <1>8, <1>9, <1>10, <1>11, <1>12, <1>13, <1>14, StreamSteps

LEMMA NextLateTokens ==
  ASSUME StreamTypeOK, ResultsCaught, YieldsThePut, LateTokens, [Next]_vars
  PROVE  LateTokens'
<1> USE DEF LateTokens, Done
<1>0. /\ closed \in BOOLEAN /\ RowsTypeOK /\ DOMAIN job = JobIds
      /\ \A j \in JobIds : \A b \in BatchIds(j) : late[j][b] \in Nat
  BY DEF StreamTypeOK, RowsTypeOK
<1>1. ASSUME NEW j \in JobIds, Token(j) PROVE LateTokens'
  <2>1. /\ job[j] = "running" /\ job'[j] \in {"stop", "continue"}
        /\ \A i \in JobIds : i # j => job'[i] = job[i]
        /\ UNCHANGED <<row, alive, closed>>
        /\ \A i \in JobIds : \A b \in BatchIds(i) :
             late'[i][b] = late[i][b] + (IF closed /\ i = j /\ b = row[j] THEN 1 ELSE 0)
    BY <1>1, TokenPuts DEF rowVars
  <2>2. row[j] \in alive[j] /\ late[j][row[j]] = 0
    BY <1>0, <2>1 DEF RowsTypeOK
  <2> QED
    BY <1>0, <2>1, <2>2
<1>2. ASSUME NEW j \in JobIds, ForceToken(j) \/ Fail(j) PROVE LateTokens'
  <2>1. /\ job[j] = "running" /\ UNCHANGED <<alive, late, closed>>
        /\ \A i \in JobIds : i # j => job'[i] = job[i] /\ row'[i] = row[i]
        /\ job'[j] \in {"running", "value", "error"}
        /\ job'[j] = "running" => row'[j] \in alive'[j]
    <3>1. CASE ForceToken(j)
      BY <3>1, NextRow DEF ForceToken, generatorVars
    <3>2. CASE Fail(j)
      BY <1>0, <3>2 DEF Fail, generatorVars, rowVars
    <3> QED
      BY <1>2, <3>1, <3>2
  <2>2. \A b \in BatchIds(j) : late[j][b] > 0 => b \notin alive[j]
    BY <2>1
  <2> QED
    BY <1>0, <2>1, <2>2
<1>3. ASSUME NEW j \in JobIds, Answered(j) PROVE LateTokens'
  <2>1. /\ GoesOn(j) /\ UNCHANGED <<late, closed>> /\ job[j] \in {"stop", "continue"}
        /\ \/ ~closed /\ alive' = alive
           \/ alive' = [alive EXCEPT ![j] = @ \ {row[j]}]
    BY <1>3 DEF Answered, Stops, generatorVars
  <2>2. \A i \in JobIds : alive'[i] \subseteq alive[i] /\ (i # j => alive'[i] = alive[i])
    BY <1>0, <2>1 DEF RowsTypeOK
  <2>3. /\ \A i \in JobIds : i # j => job'[i] = job[i] /\ row'[i] = row[i]
        /\ job'[j] \in {"running", "value"}
        /\ job'[j] = "running" => row'[j] \in alive'[j]
    BY <2>1, <2>2, NextRow
  <2>4. \A b \in BatchIds(j) : late[j][b] > 0 => b \notin alive'[j]
    BY <1>0, <2>1, <2>2 DEF RowsTypeOK
  <2> QED
    BY <1>0, <2>1, <2>2, <2>3, <2>4
<1>4. ASSUME UNCHANGED jobVars, closed => closed' PROVE LateTokens'
  BY <1>4 DEF jobVars, rowVars
<1>5. CASE CatchResult \/ CatchEnd \/ Join
  BY <1>4, <1>5 DEF CatchResult, CatchEnd, Join, generatorVars
<1>6. CASE Take
  BY <1>4, <1>6, TakeItem
<1>7. CASE Close
  BY <1>4, <1>7 DEF Close
<1>8. CASE Resume
  <2>1. UNCHANGED <<rowVars, late, closed>>
    BY <1>8 DEF Resume
  <2>2. CASE generator = "created"
    <3>1. ~closed /\ \A j \in JobIds : job[j] = "none"
      BY <2>2 DEF ResultsCaught, YieldsThePut
    <3>2. \A j \in JobIds : job'[j] = "running"
      BY <1>8, <2>2 DEF Resume
    <3> QED
      BY <1>0, <2>1, <3>1, <3>2 DEF rowVars
  <2>3. CASE job' = job
    BY <2>1, <2>3 DEF rowVars
  <2> QED
    BY <1>8, <2>2, <2>3 DEF Resume
<1>9. CASE UNCHANGED streamVars
  BY <1>4, <1>9 DEF streamVars, generatorVars
<1> QED
  BY <1>1, <1>2, <1>3, <1>5, <1>6, <1>7, <1>8, <1>9, StreamSteps

LEMMA NextTasksFollow == StreamTypeOK /\ TasksFollow /\ [Next]_vars => TasksFollow'
<1> SUFFICES ASSUME StreamTypeOK, TasksFollow, [Next]_vars PROVE TasksFollow'
  OBVIOUS
<1> USE MarksAreNoTokens, MarksAreItems DEF StreamTypeOK, jobVars, catchVars,
      generatorVars, asyncVars, TasksFollow
<1>1. ASSUME NEW j \in JobIds, Token(j) PROVE TasksFollow'
  BY <1>1 DEF Token
<1>2. ASSUME NEW j \in JobIds, ForceToken(j) \/ Answered(j) PROVE TasksFollow'
  BY <1>2 DEF ForceToken, Answered
<1>3. ASSUME NEW j \in JobIds, Fail(j) PROVE TasksFollow'
  BY <1>3 DEF Fail
<1>4. CASE CatchResult
  BY <1>4 DEF CatchResult, CatchPuts
<1>5. CASE CatchEnd
  BY <1>5 DEF CatchEnd, CatchPuts
<1>6. CASE Take
  BY <1>6, TakeItem
<1>7. CASE Join
  BY <1>7 DEF Join, Ends
<1>8. CASE User
  BY <1>8 DEF User, Resume, Close, Ends
<1>9. CASE ProduceItem
  BY <1>9 DEF ProduceItem
<1>10. CASE ProduceNext
  BY <1>10 DEF ProduceNext, Resume, Close, Ends
<1>11. CASE ProduceEnd
  BY <1>11 DEF ProduceEnd, PutsNone
<1>12. CASE Consume
  BY <1>12 DEF Consume, Receive
<1>13. CASE Cancel
  BY <1>13 DEF Cancel
<1>14. CASE Leave
  BY <1>14 DEF Leave
<1>15. CASE UNCHANGED vars
  BY <1>15 DEF vars
<1> QED
  BY <1>1, <1>2, <1>3, <1>4, <1>5, <1>6, <1>7, <1>8, <1>9, <1>10, <1>11, <1>12,
     <1>13, <1>14, <1>15
     DEF Next, RunJob, Produce, Terminated

LEMMA NextInboxFollows ==
  StreamTypeOK /\ YieldsThePut /\ TasksFollow /\ InboxFollows /\ [Next]_vars => InboxFollows'
<1> SUFFICES ASSUME StreamTypeOK, YieldsThePut, TasksFollow, InboxFollows, [Next]_vars PROVE InboxFollows'
  OBVIOUS
<1> USE MarksAreNoTokens, MarksAreItems DEF StreamTypeOK, jobVars, catchVars,
      generatorVars, asyncVars, TasksFollow, InboxFollows, Produced, TokensReceived
<1>1. ASSUME NEW j \in JobIds, Token(j) PROVE InboxFollows'
  BY <1>1 DEF Token
<1>2. ASSUME NEW j \in JobIds, ForceToken(j) \/ Answered(j) PROVE InboxFollows'
  BY <1>2 DEF ForceToken, Answered
<1>3. ASSUME NEW j \in JobIds, Fail(j) PROVE InboxFollows'
  BY <1>3 DEF Fail
<1>4. CASE CatchResult
  BY <1>4 DEF CatchResult, CatchPuts
<1>5. CASE CatchEnd
  BY <1>5 DEF CatchEnd, CatchPuts
<1>6. CASE Take
  <2>1. /\ generator = "running" /\ UNCHANGED <<mode, asyncVars>>
        /\ \/ generator' # "suspended" /\ UNCHANGED yielded
           \/ /\ generator' = "suspended" /\ channel[1] \in Tokens
              /\ yielded' = Append(yielded, channel[1])
    BY <1>6, TakeItem
  <2>2. CASE generator' # "suspended" /\ UNCHANGED yielded
    BY <2>1, <2>2
  <2>3. CASE /\ generator' = "suspended" /\ channel[1] \in Tokens
             /\ yielded' = Append(yielded, channel[1])
    <3>1. Len(yielded) \in Nat /\ Len(received) \in Nat /\ Len(yielded') = Len(yielded) + 1
      BY <2>3
    <3>2. \A k \in 1 .. Len(yielded) : yielded'[k] = yielded[k]
      BY <2>3
    <3>3. producer \in {"none", "iterating"} /\ (mode = "async" => producer = "iterating")
      BY <2>1
    <3>4. mode = "async" => Produced' = Len(yielded) /\ Produced = Len(yielded)
      BY <2>1, <2>3, <3>1, <3>3
    <3>5. ASSUME NEW m \in 0 .. Len(inbox), mode = "async", TokensReceived(m)
          PROVE TokensReceived(m)'
      <4>1. /\ Len(received) + m = Len(yielded)
            /\ \A k \in 1 .. m : inbox[k] = yielded[Len(received) + k]
            /\ m = Len(inbox)
        BY <2>1, <3>3, <3>4, <3>5
      <4>2. \A k \in 1 .. m : yielded'[Len(received) + k] = yielded[Len(received) + k]
        <5> SUFFICES ASSUME NEW k \in 1 .. m
              PROVE  yielded'[Len(received) + k] = yielded[Len(received) + k]
          OBVIOUS
        <5>1. Len(received) + k \in 1 .. Len(yielded)
          BY <3>1, <4>1
        <5> QED
          BY <3>2, <5>1
      <4>3. UNCHANGED <<inbox, received, producer>>
        BY <2>1
      <4> HIDE DEF StreamTypeOK, TasksFollow, InboxFollows, Produced
      <4> QED
        BY <3>4, <3>5, <4>1, <4>2, <4>3
    <3>6. Len(received) <= Len(yielded) /\ received' = received
      BY <2>1
    <3>7. \A k \in 1 .. Len(received) : received[k] = yielded'[k]
      <4> SUFFICES ASSUME NEW k \in 1 .. Len(received) PROVE received[k] = yielded'[k]
        OBVIOUS
      <4>1. k \in 1 .. Len(yielded) /\ received[k] = yielded[k]
        BY <3>1, <3>6
      <4> QED
        BY <3>2, <4>1
    <3>8. mode' = "async" => \E m \in 0 .. Len(inbox') : TokensReceived(m)'
      <4>1. mode = "async" => \E m \in 0 .. Len(inbox) : TokensReceived(m)
        OBVIOUS
      <4> HIDE DEF StreamTypeOK, TasksFollow, InboxFollows, Produced, TokensReceived
      <4> QED
        BY <2>1, <3>5, <4>1
    <3> QED
      BY <3>1, <3>6, <3>7, <3>8
  <2> QED
    BY <2>1, <2>2, <2>3
<1>7. CASE Join
  BY <1>7 DEF Join, Ends
<1>8. CASE User
  BY <1>8 DEF User, Resume, Close, Ends
<1>9. CASE ProduceItem
  <2>1. /\ producer = "iterating" /\ generator = "suspended" /\ producer' = "asleep"
        /\ inbox' = Append(inbox, Last(yielded)) /\ UNCHANGED <<mode, generator, yielded, received>>
    BY <1>9 DEF ProduceItem
  <2>2. Len(yielded) \in Nat \ {0} /\ Len(received) \in Nat /\ Len(inbox) \in Nat
    BY <2>1
  <2>3. Last(yielded) = yielded[Len(yielded)] /\ yielded[Len(yielded)] \in Tokens
    BY <2>2 DEF Last
  <2>4. /\ Len(inbox') = Len(inbox) + 1 /\ inbox'[Len(inbox) + 1] = yielded[Len(yielded)]
        /\ \A k \in 1 .. Len(inbox) : inbox'[k] = inbox[k]
    BY <2>1, <2>3
  <2>5. Produced = Len(yielded) - 1 /\ Produced' = Len(yielded)
    BY <2>1
  <2>6. ASSUME NEW m \in 0 .. Len(inbox), TokensReceived(m)
        PROVE  m = Len(inbox) /\ m + 1 \in 0 .. Len(inbox') /\ TokensReceived(m + 1)'
    <3>1. m = Len(inbox) /\ Len(received) + m = Len(yielded) - 1
      BY <2>1, <2>5, <2>6
    <3>2. \A k \in 1 .. m : inbox[k] = yielded[Len(received) + k]
      BY <2>6
    <3> HIDE DEF StreamTypeOK, TasksFollow, InboxFollows, Produced
    <3>3. \A k \in 1 .. m + 1 : inbox'[k] = yielded'[Len(received') + k]
      <4>1. yielded' = yielded /\ received' = received
        BY <2>1
      <4>2. inbox'[m + 1] = yielded[Len(received) + (m + 1)]
        BY ONLY <2>2, <2>4, <3>1, m \in 0 .. Len(inbox)
      <4>3. \A k \in 1 .. m : inbox'[k] = yielded[Len(received) + k]
        BY ONLY <2>4, <3>1, <3>2, m \in 0 .. Len(inbox)
      <4>4. \A k \in 1 .. m + 1 : k \in 1 .. m \/ k = m + 1
        BY ONLY <2>2, m \in 0 .. Len(inbox)
      <4>5. \A k \in 1 .. m + 1 : inbox'[k] = yielded[Len(received) + k]
        BY ONLY <4>2, <4>3, <4>4
      <4> QED
        BY ONLY <4>1, <4>5
    <3>4. Len(received') + (m + 1) = Produced' /\ m + 1 = Len(inbox')
      BY <2>1, <2>2, <2>4, <2>5, <3>1
    <3>5. m + 1 \in 0 .. Len(inbox')
      BY <2>2, <2>4, <3>1
    <3>6. TokensReceived(m + 1)'
      BY <3>3, <3>4, Zenon
    <3> QED
      BY <3>1, <3>5, <3>6, Zenon
  <2> QED
    BY <2>1, <2>6
<1>10. CASE ProduceNext
  BY <1>10 DEF ProduceNext, Resume, Close, Ends
<1>11. CASE ProduceEnd
  BY <1>11 DEF ProduceEnd, PutsNone
<1>12. CASE Consume
  <2>1. UNCHANGED <<mode, generator, yielded, producer>>
    BY <1>12 DEF Consume
  <2>2. CASE UNCHANGED <<inbox, received>>
    BY <2>1, <2>2
  <2>3. CASE Receive
    <3>1. Len(yielded) \in Nat /\ Len(received) \in Nat /\ Len(inbox) \in Nat
      OBVIOUS
    <3>2. /\ Len(inbox) > 0 /\ Len(inbox') = Len(inbox) - 1
          /\ \A k \in 1 .. Len(inbox) - 1 : inbox'[k] = inbox[k + 1]
          /\ \/ inbox[1] = None /\ UNCHANGED received
             \/ inbox[1] \in Tokens /\ received' = Append(received, inbox[1])
      BY <2>3, ReceiveItem
    <3>3. mode = "async" /\ Produced' = Produced
      BY <2>1, <3>2
    <3>4. PICK m \in 0 .. Len(inbox) : TokensReceived(m)
      BY <3>3
    <3>5. CASE inbox[1] = None
      <4>1. m = 0
        <5>1. ASSUME m > 0 PROVE inbox[1] \in Tokens
          <6>1. inbox[1] = yielded[Len(received) + 1] /\ Len(received) + m = Produced
            BY <3>4, <5>1
          <6>2. Produced <= Len(yielded)
            BY <3>1
          <6>3. Len(received) + 1 \in 1 .. Len(yielded)
            BY <3>1, <5>1, <6>1, <6>2
          <6> QED
            BY <6>1, <6>3
        <5> QED
          BY <3>5, <5>1
      <4> QED
        BY <2>1, <3>1, <3>2, <3>3, <3>4, <3>5, <4>1
    <3>6. CASE inbox[1] \in Tokens /\ received' = Append(received, inbox[1])
      <4>1. /\ Len(received') = Len(received) + 1 /\ received'[Len(received) + 1] = inbox[1]
            /\ \A k \in 1 .. Len(received) : received'[k] = received[k]
        BY <3>6
      <4>2. m > 0
        BY <3>1, <3>2, <3>4, <3>6
      <4>3. inbox[1] = yielded[Len(received) + 1] /\ Len(received) + m = Produced
        BY <3>1, <3>4, <4>2
      <4>4. TokensReceived(m - 1)'
        <5>1. \A k \in 1 .. m : inbox[k] = yielded[Len(received) + k]
          BY <3>4
        <5>2. \/ m = Len(inbox)
              \/ m + 1 = Len(inbox) /\ inbox[m + 1] = None /\ producer = "ended"
          BY <3>4
        <5> HIDE DEF StreamTypeOK, TasksFollow, InboxFollows, Produced
        <5>3. ASSUME NEW k \in 1 .. m - 1 PROVE inbox'[k] = yielded'[Len(received') + k]
          <6>1. k \in 1 .. Len(inbox) - 1 /\ k + 1 \in 1 .. m
            BY <3>1, <3>4, <4>2
          <6>2. inbox'[k] = yielded[Len(received) + (k + 1)]
            BY <3>2, <5>1, <6>1
          <6>3. Len(received') + k = Len(received) + (k + 1)
            BY <3>1, <4>1
          <6> QED
            BY <2>1, <6>2, <6>3
        <5>4. Len(received') + (m - 1) = Produced'
          BY <3>1, <3>3, <4>1, <4>3
        <5>5. \/ m - 1 = Len(inbox')
              \/ (m - 1) + 1 = Len(inbox') /\ inbox'[(m - 1) + 1] = None /\ producer' = "ended"
          BY <2>1, <3>1, <3>2, <4>2, <5>2
        <5> QED
          BY <5>3, <5>4, <5>5
      <4>5. Len(received') <= Len(yielded') /\ yielded' = yielded
        <5>1. Produced <= Len(yielded)
          BY <3>1
        <5> HIDE DEF StreamTypeOK, TasksFollow, InboxFollows, Produced
        <5> QED
          BY <2>1, <3>1, <4>1, <4>2, <4>3, <5>1
      <4>6. \A k \in 1 .. Len(received') : received'[k] = yielded'[k]
        <5>1. \A k \in 1 .. Len(received) : received[k] = yielded[k]
          OBVIOUS
        <5> HIDE DEF StreamTypeOK, TasksFollow, InboxFollows, Produced
        <5> QED
          BY <3>1, <4>1, <4>3, <4>5, <5>1
      <4>7. m - 1 \in 0 .. Len(inbox')
        BY <3>1, <3>2, <4>2
      <4> QED
        BY <4>4, <4>5, <4>6, <4>7
    <3> QED
      BY <3>2, <3>5, <3>6
  <2> QED
    BY <1>12, <2>2, <2>3 DEF Consume
<1>13. CASE Cancel
  BY <1>13 DEF Cancel
<1>14. CASE Leave
  BY <1>14 DEF Leave
<1>15. CASE UNCHANGED vars
  BY <1>15 DEF vars
<1> QED
  BY <1>1, <1>2, <1>3, <1>4, <1>5, <1>6, <1>7, <1>8, <1>9, <1>10, <1>11, <1>12,
     <1>13, <1>14, <1>15
     DEF Next, RunJob, Produce, Terminated

-----------------------------------------------------------------------------
(* The strengthening of StreamIsComplete and JobsEndFirst is inductive.    *)
THEOREM StreamInvariant == Spec => []StreamInv
<1>1. Init => StreamInv
  <2> SUFFICES ASSUME Init PROVE StreamInv
    OBVIOUS
  <2>1. /\ channel = <<>> /\ put = <<>> /\ yielded = <<>> /\ received = <<>> /\ inbox = <<>>
        /\ Len(put) = 0 /\ Len(yielded) = 0 /\ Len(channel) = 0 /\ Len(inbox) = 0
        /\ Len(received) = 0
    BY DEF Init
  <2>2. /\ mode \in {"sync", "async"} /\ next = 1 /\ caught = FALSE /\ closed = FALSE
        /\ shutdown = FALSE /\ generator = "created" /\ outcome = "none"
        /\ \A j \in JobIds : job[j] = "none" /\ row[j] = 1 /\ alive[j] = BatchIds(j)
        /\ \A j \in JobIds : \A b \in BatchIds(j) : steps[j][b] = 0 /\ late[j][b] = 0
        /\ producer = (IF mode = "async" THEN "iterating" ELSE "none")
        /\ consumer = (IF mode = "async" THEN "ready" ELSE "none")
    BY DEF Init
  <2>3. StreamTypeOK
    <3>1. job \in [JobIds -> {"none", "running", "stop", "continue", "value", "error"}]
      BY DEF Init
    <3>2. RowsTypeOK
      <4>1. /\ DOMAIN row = JobIds /\ DOMAIN alive = JobIds /\ DOMAIN steps = JobIds
            /\ \A j \in JobIds : steps[j] \in [BatchIds(j) -> Nat]
            /\ late = steps
        BY DEF Init
      <4> QED
        BY <2>2, <4>1, BatchFacts DEF RowsTypeOK
    <3>3. <<>> \in Seq(Items) /\ <<>> \in Seq(Tokens) /\ <<>> \in Seq(Tokens \cup {None})
      OBVIOUS
    <3>4. producer \in {"none", "iterating"} /\ consumer \in {"none", "ready"}
      BY <2>2
    <3>5. caught \in BOOLEAN /\ closed \in BOOLEAN /\ shutdown \in BOOLEAN
      BY <2>2, Zenon
    <3>6. next \in Nat \ {0}
      BY <2>2
    <3>7. producer \in {"none", "iterating", "asleep", "failed", "ended"}
      BY <2>2
    <3> QED
      BY <2>1, <2>2, <3>1, <3>2, <3>3, <3>4, <3>5, <3>6, <3>7 DEF StreamTypeOK
  <2>4. ~(next <= Jobs) => AllValues
    BY <2>2, BatchFacts DEF AllValues
  <2>5. ResultsCaught
    <3>1. \A j \in JobIds : \A b \in BatchIds(j) : Called(j, b) = {}
      BY <2>2, BatchFacts DEF Called
    <3> QED
      BY <2>1, <2>2, <2>4, <3>1, BatchFacts DEF ResultsCaught
  <2>6. ChannelFollows
    BY <2>1, <2>2, <2>4, BatchFacts DEF ChannelFollows, Unmarked, TokensFirst
  <2>7. YieldsThePut /\ LateTokens
    BY <2>1, <2>2, BatchFacts DEF YieldsThePut, LateTokens
  <2>8. TasksFollow /\ InboxFollows
    BY <2>1, <2>2 DEF TasksFollow, InboxFollows, TokensReceived, Produced
  <2> QED
    BY <2>3, <2>5, <2>6, <2>7, <2>8 DEF StreamInv
<1>2. StreamInv /\ [Next]_vars => StreamInv'
  BY NextStreamTypeOK, NextResultsCaught, NextChannelFollows, NextYieldsThePut, NextLateTokens,
     NextTasksFollow, NextInboxFollows DEF StreamInv
<1> QED
  BY <1>1, <1>2, PTL DEF Spec

(* A sequence that agrees with the start of another is a prefix of it.     *)
LEMMA PrefixByElements ==
  ASSUME NEW S, NEW s \in Seq(S), NEW t \in Seq(S), Len(s) <= Len(t),
         \A k \in 1 .. Len(s) : s[k] = t[k]
  PROVE  IsPrefix(s, t) /\ (Len(s) = Len(t) => s = t)
<1>1. Len(s) \in Nat /\ Len(t) \in Nat
  OBVIOUS
<1>2. \A i \in 1 .. Len(s) : s[i] \in S /\ t[i] \in S
  BY <1>1
<1>3. /\ SubSeq(s, 1, Len(s)) \in Seq(S) /\ Len(SubSeq(s, 1, Len(s))) = Len(s)
      /\ \A i \in 1 .. Len(s) : SubSeq(s, 1, Len(s))[i] = s[i]
  BY <1>1, <1>2, SubSeqProperties
<1>4. /\ SubSeq(t, 1, Len(s)) \in Seq(S) /\ Len(SubSeq(t, 1, Len(s))) = Len(s)
      /\ \A i \in 1 .. Len(s) : SubSeq(t, 1, Len(s))[i] = t[i]
  BY <1>1, <1>2, SubSeqProperties
<1>5. SubSeq(s, 1, Len(s)) = SubSeq(t, 1, Len(s))
  BY <1>1, <1>3, <1>4, SeqEqual
<1>6. Len(s) = Len(t) => s = t
  BY <1>1, SeqEqual
<1> QED
  BY <1>5, <1>6 DEF IsPrefix

(* Whatever the order of the callbacks, of the thread that waits for the   *)
(* results and of the two tasks: the user of generate_tokens or            *)
(* async_generate_tokens gets the tokens in order, none lost or repeated,  *)
(* all of them when the iteration just ends, and all those of the job      *)
(* whose exception is raised.                                              *)
THEOREM StreamsAreComplete == Spec => []StreamIsComplete
<1>1. StreamInv => StreamIsComplete
  <2> SUFFICES ASSUME StreamInv PROVE StreamIsComplete
    OBVIOUS
  <2>1. /\ put \in Seq(Tokens) /\ yielded \in Seq(Tokens) /\ received \in Seq(Tokens)
        /\ Len(inbox) \in Nat
    BY DEF StreamInv, StreamTypeOK
  <2>2. Len(yielded) <= Len(put) /\ \A k \in 1 .. Len(yielded) : yielded[k] = put[k]
    BY DEF StreamInv, YieldsThePut
  <2>3. Len(received) <= Len(yielded) /\ \A k \in 1 .. Len(received) : received[k] = yielded[k]
    BY DEF StreamInv, InboxFollows
  <2>4. IsPrefix(yielded, put) /\ IsPrefix(received, yielded)
    BY <2>1, <2>2, <2>3, PrefixByElements
  <2>5. outcome = "exhausted" => yielded = put
    BY <2>1, <2>2, PrefixByElements DEF StreamInv, YieldsThePut
  <2>6. ASSUME outcome = "raised"
        PROVE  \E j \in JobIds :
                 job[j] = "error" /\ \A b \in BatchIds(j) : \A i \in Called(j, b) :
                                      <<j, b, i>> \in ToSet(yielded)
    <3>1. PICK j \in JobIds :
            /\ job[j] = "error"
            /\ \A b \in BatchIds(j) : \A i \in Called(j, b) :
                 \E k \in 1 .. Len(yielded) : put[k] = <<j, b, i>>
      BY <2>6 DEF StreamInv, YieldsThePut, ErrorAfter
    <3>2. \A b \in BatchIds(j) : \A i \in Called(j, b) :
            \E k \in 1 .. Len(yielded) : yielded[k] = <<j, b, i>>
      BY <2>2, <3>1
    <3>3. DOMAIN yielded = 1 .. Len(yielded)
      BY <2>1
    <3>4. \A b \in BatchIds(j) : \A i \in Called(j, b) : <<j, b, i>> \in ToSet(yielded)
      BY <3>2, <3>3, Zenon DEF ToSet
    <3> QED
      BY <3>1, <3>4
  <2>7. ASSUME producer = "ended", outcome = "exhausted", inbox = <<>> PROVE received = put
    <3>1. mode = "async" /\ Produced = Len(yielded) /\ Len(inbox) = 0
      BY <2>7 DEF StreamInv, StreamTypeOK, TasksFollow, Produced
    <3>2. PICK m \in 0 .. Len(inbox) : TokensReceived(m)
      BY <3>1 DEF StreamInv, InboxFollows
    <3>3. Len(received) = Len(yielded)
      BY <2>1, <3>1, <3>2 DEF TokensReceived
    <3> QED
      BY <2>1, <2>3, <2>5, <2>7, <3>3, PrefixByElements
  <2> QED
    BY <2>4, <2>5, <2>6, <2>7 DEF StreamIsComplete
<1> QED
  BY <1>1, StreamInvariant, PTL

(* Whatever the order of the threads and tasks, and for any batches: a     *)
(* generator ends after its jobs, unless one failed, and a prompt that     *)
(* goes on when the generator is closed gets one more token at most, while *)
(* the other prompts of its batch are stopped on their own.                *)
THEOREM JobsEndBeforeGenerator == Spec => []JobsEndFirst
<1>1. StreamInv => JobsEndFirst
  BY DEF StreamInv, YieldsThePut, LateTokens, AllValues, SomeError, JobsEndFirst
<1> QED
  BY <1>1, StreamInvariant, PTL
=============================================================================
