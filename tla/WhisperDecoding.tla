---------------------------- MODULE WhisperDecoding ----------------------------
(***************************************************************************)
(* WhisperReplica::generate of src/models/whisper.cc: the prompts, the     *)
(* tokens forwarded before the search, the rules of the timestamps         *)
(* (ApplyTimestampRules) and the probability of silence (GetNoSpeechProbs).*)
(* The search is one step for all its rows: BeamSearch and GreedySearch    *)
(* say how it chooses among the tokens that are left, here it chooses any. *)
(* Tokens are numbers, compared as in the code: text, the end, the start,  *)
(* special tokens, <|notimestamps|>, timestamps.                           *)
(***************************************************************************)
EXTENDS Decoding

CONSTANTS
  EotId,           \* _eot_id: the first token after the text
  SotId,           \* _sot_id
  NoTimestampsId,  \* _no_timestamps_id: the last before the timestamps
  TimestampEndId,  \* the last timestamp
  WhisperRequests  \* prompts and options: see MCModels

VARIABLES
  options,      \* the call: the prompts and WhisperOptions
  stage,        \* "called", "refused", "decoding" or "answered"
  step,         \* step of the search
  batchOffset,  \* batch_offset: the hypothesis at each position, or the sentence
  sequences,    \* tokens of each row
  noSpeech      \* no_speech_probs: the sentence and the position they are read at

whisperVars == <<options, stage, step, batchOffset, sequences, noSpeech>>

Ids == 0 .. TimestampEndId

(* The order of the special tokens in the vocabularies of Whisper.         *)
ASSUME WhisperAssumption ==
  /\ {EotId, SotId, NoTimestampsId, TimestampEndId} \subseteq Nat
  /\ EotId < SotId /\ SotId < NoTimestampsId /\ NoTimestampsId < TimestampEndId
  /\ WhisperRequests \subseteq
       [prompts : Seq(Seq(Ids)) \ {<<>>}, beams : Nat \ {0}, samples : Nat \ {0},
        maxLength : Nat, onCpu : BOOLEAN, maxInitial : Nat,
        suppressed : SUBSET Ids, suppressedAtBegin : SUBSET Ids, returnNoSpeech : BOOLEAN]

TimestampBeginId == NoTimestampsId + 1
IsTimestamp(id) == id >= TimestampBeginId
Sentences == DOMAIN options.prompts

-----------------------------------------------------------------------------
(* The prompts.                                                            *)

SotIndex(prompt) == SelectInSeq(prompt, LAMBDA id : id = SotId)

(* get_prompt_length: the task tokens that follow the start token. *)
PromptLength(prompt) ==
  Max({n \in SotIndex(prompt) .. Len(prompt) :
         \A i \in SotIndex(prompt) .. n : prompt[i] \in SotId .. NoTimestampsId})

CheckPrompts ==
  /\ \A p \in Range(options.prompts) : SotIndex(p) # 0
  /\ \A p, q \in Range(options.prompts) :
       SotIndex(p) = SotIndex(q) /\ PromptLength(p) = PromptLength(q)

Task == PromptLength(options.prompts[1])
SotIsStartToken == SotIndex(options.prompts[1]) = Task
StartStep == Task - 1

Prefix(s) == SubSeq(options.prompts[s], Task + 1, Len(options.prompts[s]))

MaxLength == Min({options.maxLength \div 2, options.maxLength - StartStep})

HasRules == options.prompts[1][Task] # NoTimestampsId

-----------------------------------------------------------------------------
(* The rows of the logits.                                                 *)

(* Beam search on the CPU runs the first step without its beams. *)
BeamSize == IF options.onCpu /\ step = 0 THEN 1 ELSE options.beams

Rows == 1 .. BeamSize * Len(batchOffset)

(* Mistake: sentences that have left the batch are not skipped. *)
PositionInBatch(row) == SentenceOf(row, BeamSize)

(* get_batch_index. *)
BatchIndex(row) == batchOffset[SentenceOf(row, BeamSize)]

(* A hypothesis of greedy search is one of several samples of a sentence. *)
Sentence(row) == SentenceOf(BatchIndex(row), options.samples)

(* get_sample_begin. *)
SampleBegin(row) == Len(Prefix(Sentence(row)))

Tokens(row) == IF step = 0 THEN <<>> ELSE sequences[row]
Sampled(row) == SubSeq(Tokens(row), SampleBegin(row) + 1, step)

-----------------------------------------------------------------------------
(* The tokens that a row may not take.                                     *)

SuppressedTokens(row) ==
  options.suppressed
    \cup IF step = SampleBegin(row) THEN options.suppressedAtBegin ELSE {}

Penultimate(row) ==
  IF step - 1 > SampleBegin(row) THEN Tokens(row)[step - 1] ELSE Last(Tokens(row))

(* Whether the last token is the second timestamp of a pair, or the first  *)
(* one of the text; is the first of a pair; is text.                       *)
Sampling(row) == step > SampleBegin(row)
PairIsClosed(row) ==
  Sampling(row) /\ IsTimestamp(Last(Tokens(row))) /\ IsTimestamp(Penultimate(row))
PairIsOpen(row) ==
  Sampling(row) /\ IsTimestamp(Last(Tokens(row))) /\ ~IsTimestamp(Penultimate(row))
InText(row) == Sampling(row) /\ ~IsTimestamp(Last(Tokens(row)))

LastTimestamp(row) ==
  LET i == SelectLastInSeq(Sampled(row), IsTimestamp)
  IN  IF i = 0 THEN NoTimestampsId ELSE Sampled(row)[i]

Past(row) == {id \in Ids : IsTimestamp(id) /\ id <= LastTimestamp(row)}

RuledOut(row) ==
  {NoTimestampsId}
    \cup (IF step = 0 /\ SampleBegin(row) = 0
            THEN {id \in Ids : ~IsTimestamp(id) \/ id > TimestampBeginId + options.maxInitial}
            ELSE {})
    \cup (IF PairIsClosed(row) THEN {id \in Ids : IsTimestamp(id)} ELSE {})
    \cup (IF PairIsOpen(row)
            THEN {id \in Ids : id < EotId \/ (IsTimestamp(id) /\ id < Last(Tokens(row)))}
            ELSE {})
    \cup (IF InText(row) THEN Past(row) ELSE {})

(* Mistake: on a GPU the probabilities are read before the list of the     *)
(* disabled tokens is applied.                                             *)
CountedLate(row) ==
  IF options.onCpu THEN Ids \ (SuppressedTokens(row) \cup RuledOut(row)) ELSE Ids

(* The tokens that have a probability when should_sample_timestamp reads.  *)
Counted(row) == Ids \ (SuppressedTokens(row) \cup RuledOut(row))

(* The timestamps together may be more likely than any text. *)
MustBeTimestamp(row) ==
  {FALSE} \cup {likely \in {TRUE} :
                  /\ PairIsOpen(row) \/ InText(row)
                  /\ \E id \in Counted(row) : IsTimestamp(id)}

(* What is left, for each outcome of the comparison. *)
Allowed(row) ==
  LET left == Ids \ SuppressedTokens(row)
  IN  IF ~HasRules THEN {left}
      ELSE {{id \in left \ RuledOut(row) : likely => IsTimestamp(id)} :
              likely \in MustBeTimestamp(row)}

-----------------------------------------------------------------------------
(* The probabilities of silence.                                           *)

ReadNoSpeech(s, position) == [sentence |-> s, position |-> position]

(* Of the forwarded prompts, or nothing yet. *)
ForwardedNoSpeech ==
  IF options.returnNoSpeech /\ ~SotIsStartToken
    THEN [s \in Sentences |-> ReadNoSpeech(s, SotIndex(options.prompts[s]))]
    ELSE <<>>

(* Mistake: the rows of the beams are not skipped. *)
FirstRowsNoSpeech == [i \in DOMAIN batchOffset |-> ReadNoSpeech(Sentence(i), StartStep + 1)]

(* GetNoSpeechProbs, one for each position of the batch, in the first step.*)
FirstStepNoSpeech ==
  [i \in DOMAIN batchOffset |-> ReadNoSpeech(Sentence((i - 1) * BeamSize + 1), StartStep + 1)]

-----------------------------------------------------------------------------
WhisperInit ==
  /\ options \in WhisperRequests
  /\ stage = "called"
  /\ step = 0
  /\ batchOffset = <<>> /\ sequences = <<>> /\ noSpeech = <<>>

BeginGenerate ==
  /\ stage = "called"
  /\ IF CheckPrompts /\ MaxLength # 0
       THEN /\ stage' = "decoding"
            /\ batchOffset' = [h \in 1 .. options.samples * Len(options.prompts) |-> h]
            /\ noSpeech' = ForwardedNoSpeech
       ELSE stage' = "refused" /\ UNCHANGED <<batchOffset, noSpeech>>
  /\ UNCHANGED <<options, step, sequences>>

(* The tokens that may follow those of a row: the next one of the prefix,  *)
(* or one that the rules leave.                                            *)
Continuations(row) ==
  IF step < SampleBegin(row) THEN {Prefix(Sentence(row))[step + 1]} ELSE UNION Allowed(row)

(* The rows that go on at a position that stays in the batch: each from    *)
(* one of the rows it had.                                                 *)
RowsAt(position) == {row \in Rows : SentenceOf(row, BeamSize) = position}

GoingOn(position) ==
  {Append(Tokens(row), id) : row \in RowsAt(position), id \in Ids \ {EotId}}
    \cap UNION {{Append(Tokens(row), id) : id \in Continuations(row)} : row \in RowsAt(position)}

(* Any of them may have finished: a position leaves the batch.             *)
SearchStep ==
  /\ stage = "decoding" /\ step < MaxLength
  /\ noSpeech' = IF step = 0 /\ options.returnNoSpeech /\ SotIsStartToken
                   THEN FirstStepNoSpeech ELSE noSpeech
  /\ \E staying \in SUBSET DOMAIN batchOffset :
       LET kept == Ascending(staying)
       IN  /\ \A i \in DOMAIN batchOffset :
                i \notin staying => step + 1 = MaxLength
                                      \/ \E row \in RowsAt(i) : EotId \in Continuations(row)
           /\ step + 1 = MaxLength => staying = {}
           /\ batchOffset' = [n \in DOMAIN kept |-> batchOffset[kept[n]]]
           /\ \E next \in [1 .. Len(kept) * options.beams -> UNION {GoingOn(i) : i \in staying}] :
                /\ \A r \in DOMAIN next : next[r] \in GoingOn(kept[SentenceOf(r, options.beams)])
                /\ sequences' = next
           /\ stage' = IF staying = {} THEN "answered" ELSE stage
  /\ step' = step + 1
  /\ UNCHANGED options

(* A longer prompt than the maximum length: the loop has no step.          *)
NoStep ==
  /\ stage = "decoding" /\ MaxLength < 0
  /\ stage' = "answered"
  /\ UNCHANGED <<options, step, batchOffset, sequences, noSpeech>>

WhisperNext == BeginGenerate \/ SearchStep \/ NoStep

WhisperSpec == WhisperInit /\ [][WhisperNext]_whisperVars

-----------------------------------------------------------------------------
(* The texts that ApplyTimestampRules promises in its comments, over the   *)
(* whole of the tokens that a row has sampled.                             *)

TimestampsOf(text) == {i \in DOMAIN text : IsTimestamp(text[i])}

(* "Timestamps shouldn't decrease", and a segment has a duration           *)
(* (CHANGELOG.md:481): a timestamp after text is greater.                  *)
Increases(text) ==
  \A i, j \in TimestampsOf(text) : i < j =>
    text[i] <= text[j] /\ (j > i + 1 => text[i] < text[j])

(* "Timestamps have to appear in pairs, except directly before EOT", and   *)
(* except at the beginning: a run of them has one or two, and one only     *)
(* where the text begins or before a token that is no text.                *)
InPairs(text) ==
  \A i \in TimestampsOf(text) :
    LET Timestamp(j) == j \in TimestampsOf(text)
    IN  /\ ~(Timestamp(i + 1) /\ (i = 1 \/ Timestamp(i + 2)))
        /\ i < Len(text) /\ text[i + 1] < EotId => i = 1 \/ Timestamp(i - 1)

(* The tokens that a row has chosen keep the rules of the timestamps,      *)
(* whatever beams it comes from, whichever sentences have left the batch   *)
(* and however long the prefixes of the others are; the first one is a     *)
(* timestamp within the option when the row has no prefix.                 *)
TimestampsKeepTheRules ==
  stage = "decoding" /\ HasRules => \A row \in Rows :
    /\ Increases(Sampled(row)) /\ InPairs(Sampled(row))
    /\ step > 0 /\ SampleBegin(row) = 0 =>
         Tokens(row)[1] \in TimestampBeginId .. TimestampBeginId + options.maxInitial

(* Every step can be taken: rules that contradict each other leave no row  *)
(* without a token, whatever should_sample_timestamp answers, and the      *)
(* tokens fit: "Ensure the Whisper decoding does not continue past         *)
(* max_length" (CHANGELOG.md:579), the prompt included.                    *)
StepsArePossible ==
  /\ stage = "decoding" => \A row \in Rows : {} \notin Allowed(row)
  /\ step > 0 => StartStep + step <= options.maxLength

(* Each answer has the probability of silence of its own sentence, read    *)
(* after its start token, by either way, when a sentence has one           *)
(* hypothesis to run. With several random samples the code breaks it: the  *)
(* processor notes one probability for each sample, and generate takes     *)
(* them for those of the sentences.                                        *)
NoSpeechOfSingleSamples ==
  stage = "answered" /\ options.returnNoSpeech /\ options.samples = 1 /\ step > 0 =>
    \A s \in Sentences : noSpeech[s] = ReadNoSpeech(s, SotIndex(options.prompts[s]))
=============================================================================
