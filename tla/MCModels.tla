------------------------------- MODULE MCModels -------------------------------
(* Six components that share nothing, in one state graph: a behaviour     *)
(* loads a model (ModelLoading), splits models over ranks (TensorParallel),*)
(* decodes a recording (WhisperDecoding), aligns texts with one            *)
(* (WhisperAlignment), scores texts (Scoring) or draws random numbers      *)
(* (RandomSeeds), and the others stand still.                              *)
EXTENDS ModelLoading, RandomSeeds, WhisperDecoding

-----------------------------------------------------------------------------
(* The platforms of docs/quantization.md, some builds with fewer backends, *)
(* and a model with one layer of each kind and two aliases.                *)

Cpu(backends) ==
  [device |-> "CPU", backends |-> backends, packs |-> TRUE, bfloat16 |-> FALSE,
   float16 |-> FALSE, int8 |-> FALSE, flash |-> FALSE]

Gpu(bfloat16, float16, int8) ==
  [device |-> "CUDA", backends |-> <<>>, packs |-> FALSE, bfloat16 |-> bfloat16,
   float16 |-> float16, int8 |-> int8, flash |-> bfloat16]

Intel == Cpu(<<"MKL", "DNNL">>)
OtherX86 == Cpu(<<"DNNL">>)
Apple == Cpu(<<"ACCELERATE", "RUY">>)
OtherArm == Cpu(<<"OPENBLAS", "RUY">>)
Capability8 == Gpu(TRUE, TRUE, TRUE)
Capability7 == Gpu(FALSE, TRUE, TRUE)
Capability61 == Gpu(FALSE, FALSE, TRUE)
Capability62 == Gpu(FALSE, FALSE, FALSE)
Metal == [Gpu(FALSE, FALSE, FALSE) EXCEPT !.device = "METAL"]

MCPlatforms ==
  {Intel, OtherX86, Apple, OtherArm, Capability8, Capability7, Capability61, Capability62, Metal,
   Cpu(<<"MKL">>), [Cpu(<<"MKL">>) EXCEPT !.packs = FALSE], Cpu(<<"ACCELERATE">>)}

MCAliases == [projection |-> "embeddings", tied |-> "linear"]

(* The tables of docs/quantization.md:83-103: the type in which a model of *)
(* each saved type runs by default.                                        *)
Row(a, b, c, d, e, f) ==
  [int8_float32 |-> a, int8_float16 |-> b, int8_bfloat16 |-> c, int16 |-> d,
   float16 |-> e, bfloat16 |-> f]

Int8OnCpu == Row("int8_float32", "int8_float32", "int8_float32", "int8_float32", "float32", "float32")

DocumentedFallbacks ==
  { <<Intel, [Int8OnCpu EXCEPT !.int16 = "int16"]>>, <<OtherX86, Int8OnCpu>>,
    <<Apple, Int8OnCpu>>, <<OtherArm, Int8OnCpu>>,
    <<Capability8, Row("int8_float32", "int8_float16", "int8_bfloat16", "float16", "float16", "bfloat16")>>,
    <<Capability7, Row("int8_float32", "int8_float16", "int8_float32", "float16", "float16", "float32")>>,
    <<Capability62, Row("float32", "float32", "float32", "float32", "float32", "float32")>>,
    <<Capability61, Row("int8_float32", "int8_float32", "int8_float32", "float32", "float32", "float32")>> }

-----------------------------------------------------------------------------
(* Whisper: two sentences or one. Tokens: text 0, end 1, start 2, a task   *)
(* 3, <|notimestamps|> 4, timestamps from 5.                               *)

WhisperCall(prompts, beams, samples, maxLength) ==
  [prompts : prompts, beams : {beams}, samples : {samples}, maxLength : {maxLength},
   onCpu : BOOLEAN, maxInitial : {1}, suppressed : {{2, 3}}, suppressedAtBegin : {{1}},
   returnNoSpeech : BOOLEAN]

Prefixed ==
  { << <<2, 3>>, <<2, 3, 0>> >>,                 \* prefixes of different lengths
    << <<2, 3, 6, 0>>, <<2, 3, 0, 6, 6>> >> }    \* with timestamps

Context == << <<3, 0, 2, 3>> >>

RefusedPrompts ==
  { << <<0, 3>> >>, << <<2, 3>>, <<2>> >>, << <<2>>, <<0, 2>> >> }

(* Long texts, several beams or samples for each of two sentences, prompts *)
(* without timestamps, every maximum length, and prompts that are refused. *)
Transcriptions ==
  [prompts : {<< <<2>> >>, Context}, beams : {1}, samples : {1}, maxLength : {14},
   onCpu : BOOLEAN, maxInitial : {0, 1}, suppressed : {{}, {2, 3}}, suppressedAtBegin : {{1}},
   returnNoSpeech : {TRUE}]
    \cup WhisperCall(Prefixed, 1, 1, 10)
    \cup WhisperCall({<< <<2>>, <<2>> >>} \cup Prefixed, 2, 1, 6)
    \cup WhisperCall({<< <<2>>, <<2>> >>, << <<2, 3>>, <<2, 3, 0>> >>}, 1, 2, 6)
    \cup WhisperCall({<< <<3, 0, 2, 3, 4>>, <<3, 0, 2, 3, 4>> >>}, 1, 1, 7)
    \cup UNION {WhisperCall({Context}, 1, 1, n) : n \in 0 .. 8}
    \cup WhisperCall(RefusedPrompts, 1, 1, 6)

VARIABLE part   \* the component that runs

-----------------------------------------------------------------------------
(* Alignment: three frames. One text of two tokens or of one with every    *)
(* matrix of a few weights, and two texts of every length with numbers of  *)
(* frames that leave none, some or all.                                    *)

Speech(texts, frames, weights) ==
  [texts : texts, start : {1, 2}, frames : frames, time : {3}, width : {3, 7}, weights : weights]

AlignCalls ==
  Speech({<<2>>}, {<<6>>}, [1 .. 3 -> [1 .. 3 -> {-1, 1}]])
    \cup Speech({<<1>>}, {<<7>>}, [1 .. 2 -> [1 .. 3 -> -1 .. 1]])
    \cup Speech([1 .. 2 -> 0 .. 2], [1 .. 2 -> {1, 2, 4, 7}],
                {<< <<2, 0, -1>>, <<1, -3, 0>>, <<-1, 1, 2>> >>})

VARIABLES
  aligned, alignPhase, inputs, outputs, attention, alignments, probs   \* see WhisperAlignment

Aligner == INSTANCE WhisperAlignment WITH
  Calls <- AlignCalls, Infinity <- 100, call <- aligned, phase <- alignPhase

alignVars == <<aligned, alignPhase, inputs, outputs, attention, alignments, probs>>

-----------------------------------------------------------------------------
(* Two ranks: translation models with and without position biases,         *)
(* generators with fewer heads for the keys, with a bias, with slopes, and *)
(* with less hidden dimensions than queries; some cannot be divided.       *)

Splittable ==
  { m \in [generator : BOOLEAN, hasKvHeads : BOOLEAN, heads : 2 .. 4, kvHeads : 1 .. 4,
           headDim : {2}, hidden : {4, 6, 8}, neurons : {2}, bias : BOOLEAN, quantized : BOOLEAN,
           position : BOOLEAN, alibi : BOOLEAN, rows : 1 .. 2] :
      /\ m.kvHeads <= m.heads /\ m.heads % m.kvHeads = 0
      /\ m.kvHeads # m.heads => m.hasKvHeads
      /\ m.hidden = m.heads * m.headDim \/ (m.generator /\ m.heads = 4 /\ m.hidden = 4)
      /\ IF m.generator THEN ~m.position ELSE ~m.alibi }

VARIABLES
  splitModel, models, left, shards, dims, ranksPhase   \* see TensorParallel

Ranks == INSTANCE TensorParallel WITH
  WorldSize <- 2, Models <- Splittable, MaxModels <- 2, model <- splitModel, phase <- ranksPhase

ranksVars == <<splitModel, models, left, shards, dims, ranksPhase>>

-----------------------------------------------------------------------------
(* Scoring: up to three texts for a generator, two for a translator, on a  *)
(* CPU, on a GPU, and on a GPU with float16. Tokens: end 1, a mark at the  *)
(* start 2, words 3 and 4, a language 5.                                   *)

Texts == {<<>>, <<3>>, <<3, 4>>, <<4, 3, 4>>, <<3, 4, 3, 1>>}
Sources == {<<>>, <<3, 4>>, <<3, 4, 3, 1, 5>>}
Targets == {<<>>, <<3>>, <<4, 3, 3>>}
Places == {<<TRUE, TRUE>>, <<FALSE, TRUE>>, <<FALSE, FALSE>>}

Scored(translates, sources, targets, marks, limits) ==
  {[translates |-> translates, source |-> s, target |-> t, start |-> m[1], sourceBos |-> m[2],
    sourceEos |-> m[3], maxInput |-> n, offset |-> o, multiple |-> k, onCpu |-> p[1],
    removesPadding |-> p[2]] :
     s \in sources, t \in targets, m \in marks, n \in limits, o \in {0, 1}, k \in {1, 3}, p \in Places}

ScoringCalls ==
  Scored(FALSE, {<<>>}, UNION {[1 .. n -> Texts] : n \in {2, 3}}, {<<FALSE, FALSE, FALSE>>}, {0, 2, 3})
    \cup Scored(TRUE, [1 .. 2 -> Sources], [1 .. 2 -> Targets], BOOLEAN \X BOOLEAN \X BOOLEAN, {0, 1, 2})

VARIABLES
  scored, scoringPhase, toRun, memory, results   \* see Scoring

Scorer == INSTANCE Scoring WITH
  Requests <- ScoringCalls, Eos <- 1, Bos <- 2, Start <- 2, Pad <- 0,
  request <- scored, phase <- scoringPhase

scoringVars == <<scored, scoringPhase, toRun, memory, results>>

-----------------------------------------------------------------------------
(* Two threads that set seeds and two that draw numbers.                   *)

ASSUME MCModelsAssumption == DefaultSeed \in Seeds /\ Device \notin Seeds

Symmetry == Permutations(Setters) \cup Permutations(Workers)

-----------------------------------------------------------------------------
(* The components that stand still are in a state in which they may start. *)

MCInit ==
  /\ part \in {"loading", "whisper", "alignment", "ranks", "scoring", "random"}
  /\ part = "loading" \/ (platform = Intel /\ request = "default" /\ flash = FALSE /\ file = OldFile)
  /\ part = "whisper" \/ options = CHOOSE c \in Transcriptions : TRUE
  /\ part = "alignment" \/ aligned = CHOOSE c \in AlignCalls : TRUE
  /\ part = "ranks" \/ splitModel = CHOOSE m \in Splittable : TRUE
  /\ part = "scoring" \/ scored = CHOOSE c \in ScoringCalls : TRUE
  /\ LoadInit /\ WhisperInit /\ Aligner!Init /\ Ranks!Init /\ Scorer!Init /\ SeedInit

MCNext ==
  \/ part = "loading" /\ LoadNext /\ UNCHANGED <<part, whisperVars, alignVars, ranksVars, scoringVars, seedVars>>
  \/ part = "whisper" /\ WhisperNext /\ UNCHANGED <<part, loadVars, alignVars, ranksVars, scoringVars, seedVars>>
  \/ part = "alignment" /\ Aligner!Next
       /\ UNCHANGED <<part, loadVars, whisperVars, ranksVars, scoringVars, seedVars>>
  \/ part = "ranks" /\ Ranks!Next /\ UNCHANGED <<part, loadVars, whisperVars, alignVars, scoringVars, seedVars>>
  \/ part = "scoring" /\ Scorer!Next /\ UNCHANGED <<part, loadVars, whisperVars, alignVars, ranksVars, seedVars>>
  \/ part = "random" /\ SeedNext /\ UNCHANGED <<part, loadVars, whisperVars, alignVars, ranksVars, scoringVars>>

MCSpec == MCInit /\ [][MCNext]_<<part, loadVars, whisperVars, alignVars, ranksVars, scoringVars, seedVars>>

-----------------------------------------------------------------------------
(* Properties.                                                             *)

(* "By default, the runtime tries to use the type that is saved in the     *)
(* converted model" (docs/quantization.md:79), for the models whose other  *)
(* variables have one floating point type; and a model that the device     *)
(* cannot run in its saved type is converted to the type that the          *)
(* documentation announces for the device.                                 *)
DefaultIsDocumented ==
  request = "default" /\ phase \notin {"read", "refused"} =>
    /\ Cardinality(Range(file.other)) <= 1 => SavedTypeIsKept
    /\ \A row \in DocumentedFallbacks :
         platform = row[1] /\ saved \in DOMAIN row[2] => effective = row[2][saved]

(* The property of WhisperAlignment.                                       *)
AlignmentsFollowTheSpeech == Aligner!AlignmentsFollowTheSpeech

(* The properties of TensorParallel; the second one is documented, and the *)
(* code breaks it.                                                         *)
RanksComputeTheWhole == Ranks!RanksComputeTheWhole
SplitModelsComputeTheWhole == Ranks!SplitModelsComputeTheWhole

(* The property of Scoring.                                                *)
ScoresAreIndependent == Scorer!ScoresAreIndependent
=============================================================================
