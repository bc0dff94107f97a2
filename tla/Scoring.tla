-------------------------------- MODULE Scoring --------------------------------
(***************************************************************************)
(* score_batch of generators and translators: sequences that are skipped,  *)
(* ids that are truncated, inputs that are shifted and padded, and layers  *)
(* that work on batches without their padding (Padder), which is added     *)
(* again around each attention. Hidden values are symbols: what a position *)
(* has seen. One layer of each kind; no sliding window.                    *)
(***************************************************************************)
EXTENDS Integers, Sequences, SequencesExt, FiniteSetsExt

CONSTANTS
  Requests,  \* calls of score_batch, see MCModels
  Eos,       \* the end token
  Bos,       \* the token that starts a source
  Start,     \* the decoder start token
  Pad        \* what the unused places of an input hold

VARIABLES
  request,  \* the call
  phase,    \* "called", "filtered", "encoded" or "scored"
  toRun,    \* index_to_run
  memory,   \* output of the encoder, padded
  results   \* by sequence: its tokens with their scores

vars == <<request, phase, toRun, memory, results>>

Init ==
  /\ request \in Requests
  /\ phase = "called"
  /\ toRun = <<>> /\ memory = <<>>
  /\ results = [i \in DOMAIN request.target |-> <<>>]

-----------------------------------------------------------------------------
(* Vocabulary::to_ids.                                                     *)

(* A sequence that is too long keeps its end token, and the code of a      *)
(* language after it.                                                      *)
Truncated(ids, n) ==
  LET size == Len(ids)
  IN  IF n = 0 \/ size <= n THEN ids
      ELSE IF ids[size] = Eos THEN [SubSeq(ids, 1, n) EXCEPT ![n] = Eos]
      ELSE IF ids[size - 1] = Eos /\ n >= 2
        THEN [SubSeq(ids, 1, n) EXCEPT ![n - 1] = Eos, ![n] = ids[size]]
      ELSE SubSeq(ids, 1, n)

Optional(condition, token) == IF condition THEN <<token>> ELSE <<>>

WholeSource(r, i) == Optional(r.sourceBos, Bos) \o r.source[i] \o Optional(r.sourceEos, Eos)

SourceIds(r, i) == Truncated(WholeSource(r, i), r.maxInput)

(* One token more for a target, since the decoder gets all but the last.   *)
TargetIds(r, i) ==
  IF r.translates
    THEN Truncated(Optional(r.start, Start) \o r.target[i] \o <<Eos>>,
                   IF r.maxInput = 0 THEN 0 ELSE r.maxInput + 1)
    ELSE Truncated(r.target[i], r.maxInput)

-----------------------------------------------------------------------------
(* make_sequence_inputs, Gather and Padder. A tensor is the sequence of    *)
(* its lines, row after row.                                               *)

Lengths(rows) == [b \in DOMAIN rows |-> Len(rows[b])]

(* The maximum length, rounded up to a multiple. *)
Time(rows, multiple) ==
  LET longest == Max({Len(rows[b]) : b \in DOMAIN rows})
  IN  ((longest + multiple - 1) \div multiple) * multiple

Padded(rows, time) ==
  FlattenSeq([b \in DOMAIN rows |->
                [t \in 1 .. time |-> IF t <= Len(rows[b]) THEN rows[b][t] ELSE Pad]])

Ascends(indices) == \A i \in 2 .. Len(indices) : indices[i - 1] < indices[i]

GatherInPlace(data, indices) ==
  LET Copy(acc, i) == SubSeq(acc, 1, i - 1) \o <<acc[indices[i]]>> \o SubSeq(acc, i + 1, Len(acc))
  IN  SubSeq(FoldLeftDomain(Copy, data, indices), 1, Len(indices))

Gather(data, indices) ==
  IF request.onCpu /\ Len(indices) <= Len(data) /\ Ascends(indices)
    THEN GatherInPlace(data, indices)
    ELSE [i \in DOMAIN indices |-> data[indices[i]]]

Removes(lengths, time) ==
  request.removesPadding /\ \E b \in DOMAIN lengths : lengths[b] # time

(* Mistake: the offset is set to the last length, not increased by it. *)
LastLength(lengths, b) == IF b = 1 THEN 0 ELSE lengths[b - 1]

FlatOffset(lengths, b) == FoldLeft(LAMBDA a, n : a + n, 0, SubSeq(lengths, 1, b - 1))

PaddedToFlat(lengths, time) ==
  FlattenSeq([b \in DOMAIN lengths |-> [t \in 1 .. lengths[b] |-> (b - 1) * time + t]])

(* A place of the padding is a copy of the last one of its row. *)
FlatToPadded(lengths, time) ==
  FlattenSeq([b \in DOMAIN lengths |->
                [t \in 1 .. time |-> FlatOffset(lengths, b) + Min({t, lengths[b]})]])

RemovePadding(x, lengths, time) ==
  IF Removes(lengths, time) THEN Gather(x, PaddedToFlat(lengths, time)) ELSE x

AddPadding(x, lengths, time) ==
  IF Removes(lengths, time) THEN Gather(x, FlatToPadded(lengths, time)) ELSE x

-----------------------------------------------------------------------------
(* The layers.                                                             *)

Row(x, time, b) == SubSeq(x, (b - 1) * time + 1, b * time)

(* prepare_length_mask: how many keys a query sees.                        *)
Seen(length, t, maskFuture) == IF maskFuture THEN Min({length, t}) ELSE length

(* Attention from padded queries to padded keys of as many rows.           *)
Attend(queries, time, keys, keyLengths, keyTime, maskFuture) ==
  [p \in DOMAIN queries |->
     LET b == (p - 1) \div time + 1
         t == ((p - 1) % time) + 1
     IN  <<queries[p], SubSeq(Row(keys, keyTime, b), 1, Seen(keyLengths[b], t, maskFuture))>>]

(* A layer of self attention, from lines without padding to such lines.    *)
SelfAttention(x, lengths, time, maskFuture) ==
  LET padded == AddPadding(x, lengths, time)
  IN  RemovePadding(Attend(padded, time, padded, lengths, time, maskFuture), lengths, time)

Encoder(rows) ==
  LET time == Time(rows, request.multiple)
      lens == Lengths(rows)
      x    == RemovePadding(Padded(rows, time), lens, time)
  IN  AddPadding(SelfAttention(x, lens, time, FALSE), lens, time)

CrossAttention(x, lengths, time, sources) ==
  LET keyTime == Time(sources, request.multiple)
      lens    == Lengths(sources)
      keys    == AddPadding(RemovePadding(memory, lens, keyTime), lens, keyTime)
  IN  RemovePadding(Attend(AddPadding(x, lengths, time), time, keys, lens, keyTime, FALSE),
                    lengths, time)

Decoder(rows, sources) ==
  LET time == Time(rows, request.multiple)
      lens == Lengths(rows)
      x    == RemovePadding(Padded(rows, time), lens, time)
      y    == SelfAttention(x, lens, time, TRUE)
      z    == IF request.translates THEN CrossAttention(y, lens, time, sources) ELSE y
  IN  AddPadding(z, lens, time)

-----------------------------------------------------------------------------

(* skip_scoring. A source with nothing to encode gives scores of zero.     *)
EmptySource(r, i) == r.translates /\ WholeSource(r, i) = <<>>

Skips(r, i) ==
  IF r.translates THEN (~r.start /\ r.target[i] = <<>>) \/ EmptySource(r, i)
  ELSE Len(r.target[i]) < 2

Skipped(r, i) ==
  IF EmptySource(r, i) /\ (r.start \/ r.target[i] # <<>>)
    THEN [t \in 1 .. Len(TargetIds(r, i)) - 1 |-> [token |-> TargetIds(r, i)[t + 1], score |-> <<>>]]
    ELSE <<>>

(* get_batch_results_helper. *)
Filter ==
  /\ phase = "called"
  /\ toRun' = SelectSeq([i \in DOMAIN request.target |-> i], LAMBDA i : ~Skips(request, i))
  /\ results' = [i \in DOMAIN request.target |-> Skipped(request, i)]
  /\ phase' = IF toRun' = <<>> THEN "scored" ELSE "filtered"
  /\ UNCHANGED <<request, memory>>

Sources == [b \in DOMAIN toRun |-> SourceIds(request, toRun[b])]
Targets == [b \in DOMAIN toRun |-> TargetIds(request, toRun[b])]

Encode ==
  /\ phase = "filtered"
  /\ memory' = IF request.translates THEN Encoder(Sources) ELSE <<>>
  /\ phase' = "encoded"
  /\ UNCHANGED <<request, toRun, results>>

(* score_sequences: the inputs are all the tokens but the last one, the    *)
(* outputs all but the first one, and the first scores are left out.       *)
ScoreSequences ==
  /\ phase = "encoded"
  /\ LET inputs  == [b \in DOMAIN toRun |-> Front(Targets[b])]
         outputs == [b \in DOMAIN toRun |-> Tail(Targets[b])]
         time    == Time(inputs, request.multiple)
         logits  == Decoder(inputs, Sources)
         Score(b, t) == [token |-> outputs[b][t],
                         score |-> <<logits[(b - 1) * time + t], outputs[b][t]>>]
         Scores(b) == [t \in 1 .. Max({0, Len(outputs[b]) - request.offset}) |->
                         Score(b, request.offset + t)]
     IN  results' = [i \in DOMAIN results |->
                       IF \E b \in DOMAIN toRun : toRun[b] = i
                         THEN Scores(CHOOSE b \in DOMAIN toRun : toRun[b] = i)
                         ELSE results[i]]
  /\ phase' = "scored"
  /\ UNCHANGED <<request, toRun, memory>>

Next == Filter \/ Encode \/ ScoreSequences

Spec == Init /\ [][Next]_vars

-----------------------------------------------------------------------------
(* Properties.                                                             *)

(* What one sequence gives alone: each of its tokens but the first one is  *)
(* scored after all the tokens before it and with its whole source.        *)
Whole(tokens) == [t \in DOMAIN tokens |-> <<tokens[t], tokens>>]

Alone(i) ==
  LET tokens == TargetIds(request, i)
      Before(t) == <<tokens[t], SubSeq(tokens, 1, t)>>
      Given(t) == IF request.translates THEN <<Before(t), Whole(SourceIds(request, i))>> ELSE Before(t)
  IN  [t \in 1 .. Len(tokens) - 1 |->
         [token |-> tokens[t + 1],
          score |-> IF EmptySource(request, i) THEN <<>> ELSE <<Given(t), tokens[t + 1]>>]]

(* A limit cuts the words, not the marks that end the text: its end token  *)
(* and, if it comes before the last token, the code of the language.       *)
KeepsItsEnd(ids, n) ==
  \A k \in {1, 2} :
    k <= Len(ids) /\ k <= n /\ ids[Len(ids) - k + 1] = Eos /\ (k = 2 => Last(ids) # Eos) =>
      LET end == SubSeq(ids, Len(ids) - k + 1, Len(ids))
      IN  IsSuffix(end, Truncated(ids, n)) /\ Len(Truncated(ids, n)) = Min({n, Len(ids)})

(* Batching, the removal of padding, sizes that are rounded up and other   *)
(* sequences that are skipped change no score: every sequence gets what it *)
(* would get alone, the tokens after the offset, nothing if it is too      *)
(* short; and a sequence that is truncated still ends as it did. (Without  *)
(* an offset for the sequences with an empty source, which ignore it.)     *)
ScoresAreIndependent ==
  phase = "scored" =>
    \A i \in DOMAIN results :
      LET scorable == IF request.translates THEN request.start \/ request.target[i] # <<>>
                      ELSE Len(request.target[i]) > 1
          first == IF EmptySource(request, i) THEN 1 ELSE request.offset + 1
      IN  /\ results[i] = IF scorable THEN SubSeq(Alone(i), first, Len(Alone(i))) ELSE <<>>
          /\ request.translates => KeepsItsEnd(WholeSource(request, i), request.maxInput)
=============================================================================
