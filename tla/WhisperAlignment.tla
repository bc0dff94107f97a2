--------------------------- MODULE WhisperAlignment ---------------------------
(***************************************************************************)
(* WhisperReplica::align of src/models/whisper.cc: which frames of the     *)
(* speech each token of each text of a batch is said in. The attention of  *)
(* the decoder gives a matrix of weights, with a row for each input token  *)
(* and a column for each frame, which is cut, normalized (over which rows  *)
(* and frames is what the model keeps), filtered, and searched for the     *)
(* best path (src/dtw.cc).                                                 *)
(***************************************************************************)
EXTENDS Integers, Sequences, SequencesExt, FiniteSetsExt

CONSTANTS
  Calls,     \* calls of align, see MCModels
  Infinity   \* more than the cost of any path

VARIABLES
  call,        \* the call: texts (their lengths), start (length of start_sequence),
               \* frames (num_frames), time (frames of the features), width (of the
               \* filter), weights (filtered, of each token of a text and frame)
  phase,       \* "called", "attended", "aligned" or "answered"
  inputs,      \* input_tokens
  outputs,     \* output_tokens
  attention,   \* of each text: the rows and frames of its weights, and those over
               \* which they are normalized
  alignments,  \* of each text
  probs        \* of each text: the tokens whose probabilities are returned

vars == <<call, phase, inputs, outputs, attention, alignments, probs>>

Texts == DOMAIN call.texts

Init ==
  /\ call \in Calls
  /\ phase = "called"
  /\ inputs = <<>> /\ outputs = <<>> /\ attention = <<>> /\ alignments = <<>> /\ probs = <<>>

-----------------------------------------------------------------------------
(* negative_dtw. Cells begin at 1, the border at 0.                        *)

(* Mistake: a diagonal better than the vertical step wins. *)
DiagonalFirst(c0, c1, c2) == IF c0 < c1 THEN 0 ELSE IF c1 < c2 THEN 1 ELSE 2

Predecessor(c0, c1, c2) ==
  CASE c0 < c1 /\ c0 < c2 -> 0
    [] c1 < c0 /\ c1 < c2 -> 1
    [] OTHER -> 2

Cost(x, n, m) ==
  LET cost[i \in 0 .. n, j \in 0 .. m] ==
        IF i = 0 /\ j = 0 THEN 0
        ELSE IF i = 0 \/ j = 0 THEN Infinity
        ELSE LET c == <<cost[i - 1, j - 1], cost[i - 1, j], cost[i, j - 1]>>
             IN  c[Predecessor(c[1], c[2], c[3]) + 1] - x[i][j]
  IN  cost

Trace(cost, i, j) ==
  CASE j = 0 -> 1
    [] i = 0 -> 2
    [] OTHER -> Predecessor(cost[i - 1, j - 1], cost[i - 1, j], cost[i, j - 1])

Backtrace(cost, n, m) ==
  LET path[i \in 0 .. n, j \in 0 .. m] ==
        IF i = 0 /\ j = 0 THEN <<>>
        ELSE LET t == Trace(cost, i, j)
             IN  Append(CASE t = 0 -> path[i - 1, j - 1] [] t = 1 -> path[i - 1, j] [] t = 2 -> path[i, j - 1],
                        <<i - 1, j - 1>>)
  IN  path[n, m]

NegativeDtw(x, n, m) == Backtrace(Cost(x, n, m), n, m)

-----------------------------------------------------------------------------
(* The steps of align.                                                     *)

Tokens(kind, b, n) == [i \in 1 .. n |-> <<kind, b, i>>]

Input(b) ==
  Tokens("start", 0, call.start) \o <<<<"notimestamps">>>> \o Tokens("text", b, call.texts[b]) \o <<<<"end">>>>

(* The decoder: a row for each input, up to the longest.                   *)
Attend ==
  /\ phase = "called"
  /\ inputs' = [b \in Texts |-> Input(b)]
  /\ outputs' = [b \in Texts |-> Append(Tail(Input(b)), <<"padding">>)]
  /\ LET rows == Max({Len(Input(b)) : b \in Texts})
     IN  attention' = [b \in Texts |-> [rows |-> rows, frames |-> call.time, overRows |-> 0, overFrames |-> 0]]
  /\ phase' = "attended"
  /\ UNCHANGED <<call, alignments, probs>>

(* "The second convolution layer uses a stride of 2." *)
NumFrames(b) == call.frames[b] \div 2

VariableNumFrames == \E b \in Texts : NumFrames(b) # NumFrames(1)

RemovePadding(weights, rows, frames) ==
  [weights EXCEPT !.rows = Min({@, rows}), !.frames = Min({@, frames})]

SoftMax(weights, frames) == [weights EXCEPT !.overFrames = Min({frames, weights.frames})]
LayerNorm(weights) == [weights EXCEPT !.overRows = weights.rows]

(* The weights of the row that predicts a token. *)
WeightsOf(token) ==
  CASE token[1] = "text" -> call.weights[token[3]]
    [] token[1] = "end" -> call.weights[Len(call.weights)]
    [] OTHER -> [j \in DOMAIN call.weights[1] |-> 0]

(* compute_alignments: a row for each token of the text and its end. *)
ComputeAlignment(weights, b) ==
  LET n == call.texts[b] + 1
  IN  NegativeDtw([i \in 1 .. n |-> WeightsOf(outputs[b][call.start + i])], n, weights.frames)

(* MedianFilter: the frames that it reads for frame j, reflected. *)
FilterReads(j, depth) ==
  LET rank == call.width \div 2
      Reflected(p) == IF p < 0 THEN -p ELSE p
      Read(p) == IF Reflected(p) >= depth THEN depth - (Reflected(p) - depth) - 2 ELSE Reflected(p)
  IN  IF depth <= rank THEN {j} ELSE {Read(j + k) : k \in -rank .. rank}

NoFrames ==
  /\ phase = "attended"
  /\ \A b \in Texts : NumFrames(b) = 0
  /\ alignments' = [b \in Texts |-> <<>>]
  /\ phase' = "aligned"
  /\ UNCHANGED <<call, inputs, outputs, attention, probs>>

(* Every text by itself, without its padding.                              *)
AlignVariableFrames ==
  /\ phase = "attended" /\ VariableNumFrames
  /\ attention' = [b \in Texts |->
       IF NumFrames(b) = 0 THEN attention[b]
       ELSE LayerNorm(RemovePadding(SoftMax(attention[b], NumFrames(b)), Len(inputs[b]), NumFrames(b)))]
  /\ alignments' = [b \in Texts |->
       IF NumFrames(b) = 0 THEN <<>> ELSE ComputeAlignment(attention'[b], b)]
  /\ phase' = "aligned"
  /\ UNCHANGED <<call, inputs, outputs, probs>>

(* All the texts at once, with the rows of the longest.                    *)
AlignEqualFrames ==
  /\ phase = "attended" /\ ~VariableNumFrames /\ NumFrames(1) # 0
  /\ attention' = [b \in Texts |->
       LET content == RemovePadding(attention[b], attention[b].rows, NumFrames(1))
       IN  LayerNorm(SoftMax(content, content.frames))]
  /\ alignments' = [b \in Texts |-> ComputeAlignment(attention'[b], b)]
  /\ phase' = "aligned"
  /\ UNCHANGED <<call, inputs, outputs, probs>>

Answer ==
  /\ phase = "aligned"
  /\ probs' = [b \in Texts |-> [t \in 1 .. call.texts[b] |-> outputs[b][call.start + t]]]
  /\ phase' = "answered"
  /\ UNCHANGED <<call, inputs, outputs, attention, alignments>>

Next == Attend \/ NoFrames \/ AlignVariableFrames \/ AlignEqualFrames \/ Answer

Spec == Init /\ [][Next]_vars

-----------------------------------------------------------------------------
(* Properties.                                                             *)

(* The paths from the first token and frame to token n and frame m. *)
Paths(n, m) ==
  LET paths[i \in 0 .. n, j \in 0 .. m] ==
        IF i = 0 \/ j = 0 THEN {}
        ELSE IF i = 1 /\ j = 1 THEN {<< <<0, 0>> >>}
        ELSE {Append(p, <<i - 1, j - 1>>) : p \in paths[i - 1, j - 1] \cup paths[i - 1, j] \cup paths[i, j - 1]}
  IN  paths[n, m]

(* What the tokens of text b and its end weigh in each frame. *)
TextWeights(b) ==
  [i \in 1 .. call.texts[b] + 1 |->
     IF i <= call.texts[b] THEN call.weights[i] ELSE call.weights[Len(call.weights)]]

Weight(x, path) == FoldLeft(LAMBDA sum, p : sum + x[p[1] + 1][p[2] + 1], 0, path)

(* A tie of the diagonal and the vertical step that are better than the    *)
(* horizontal one, which the search takes all the same.                    *)
HasTie(x, n, m) ==
  LET cost == Cost(x, n, m)
  IN  \E i \in 1 .. n, j \in 1 .. m :
        cost[i - 1, j - 1] = cost[i - 1, j] /\ cost[i - 1, j] < cost[i, j - 1]

(* Each text gets the probabilities of its own tokens, and an alignment if *)
(* it has frames: a path that neither goes back nor leaves out a token or  *)
(* a frame, of the largest weight (without ties). Neither the frames of    *)
(* the padding nor, if the numbers of frames differ, the tokens of longer  *)
(* texts have a part in it: in equal numbers of frames the code normalizes *)
(* over the rows of the longest text. The filter reads these frames only.  *)
AlignmentsFollowTheSpeech ==
  phase = "answered" => \A b \in Texts :
    LET n == call.texts[b] + 1
        m == Min({NumFrames(b), call.time})
    IN  /\ probs[b] = Tokens("text", b, call.texts[b])
        /\ m = 0 => alignments[b] = <<>>
        /\ m > 0 =>
             /\ alignments[b] \in Paths(n, m)
             /\ HasTie(TextWeights(b), n, m)
                  \/ \A p \in Paths(n, m) : Weight(TextWeights(b), p) <= Weight(TextWeights(b), alignments[b])
             /\ attention[b].overFrames = m
             /\ VariableNumFrames \/ (\A c \in Texts : call.texts[c] <= call.texts[b])
                  => attention[b].overRows = Len(inputs[b])
             /\ \A j \in 0 .. m - 1 : FilterReads(j, m) \subseteq 0 .. m - 1
=============================================================================
