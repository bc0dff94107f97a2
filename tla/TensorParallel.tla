---------------------------- MODULE TensorParallel ----------------------------
(***************************************************************************)
(* Tensor parallelism: every rank, a process of its own, reads the file of *)
(* the model and keeps its part of each variable (Model::load), computes   *)
(* its heads and its neurons, and all sum their outputs (ReduceAll).       *)
(* Values are symbols: the rows and columns of the weights have labels,    *)
(* and a rank computes on the labels that it holds. One layer is modelled. *)
(***************************************************************************)
EXTENDS Integers, Sequences, SequencesExt, FiniteSets, TLC

CONSTANTS
  WorldSize,  \* ScopedMPISetter::getNRanks
  Models,     \* records: the model that is loaded and the rows it is given
  MaxModels   \* bound on the models that a process loads

VARIABLES
  model,      \* the model that is loaded
  models,     \* history: the models that the process has begun to load
  left,       \* its variables that are not read yet, sorted by name
  shards,     \* what each rank keeps of those that are read
  dims,       \* the static variables model_dim and total_dim
  phase       \* "loading", "loaded" or "refused"

vars == <<model, models, left, shards, dims, phase>>

Ranks == 1 .. WorldSize

-----------------------------------------------------------------------------
(* The variables that the converter writes.                                *)

Labels(kind, n, size) == [i \in 1 .. n * size |-> <<kind, (i - 1) \div size + 1, ((i - 1) % size) + 1>>]

Units(kind, n) == Labels(kind, n, 1)

(* The lines and columns of the matrix of each linear layer.               *)
Outer(m, layer) ==
  CASE layer = "self_0" ->
         Labels("q", m.heads, m.headDim) \o Labels("k", m.kvHeads, m.headDim)
           \o Labels("v", m.kvHeads, m.headDim)
    [] layer = "cross_0" -> Labels("q", m.heads, m.headDim)
    [] layer = "cross_1" ->
         Labels("k", m.kvHeads, m.headDim) \o Labels("v", m.kvHeads, m.headDim)
    [] layer \in {"ffn_0", "ffn_gate"} -> Units("neuron", m.neurons)
    [] OTHER -> Units("hidden", m.hidden)

Inner(m, layer) ==
  CASE layer \in {"self_1", "cross_2"} -> Labels("out", m.heads, m.headDim)
    [] layer = "ffn_1" -> Units("neuron", m.neurons)
    [] OTHER -> Units("hidden", m.hidden)

Attention(m) == IF m.generator THEN <<>> ELSE <<"cross_0", "cross_1", "cross_2">>

Layers(m) ==
  Attention(m) \o <<"ffn_0", "ffn_gate", "ffn_1", "self_0", "self_1">>

Roles(m) ==
  (IF m.bias THEN <<"bias">> ELSE <<>>) \o <<"weight">>
    \o (IF m.quantized THEN <<"scale">> ELSE <<>>)

Variables(m) ==
  FlattenSeq([n \in DOMAIN Layers(m) |->
                [i \in DOMAIN Roles(m) |-> [layer |-> Layers(m)[n], role |-> Roles(m)[i]]]])

(* multi_query_attention of config.json: "num_heads_kv != num_heads", for  *)
(* decoders, where no num_heads_kv at all differs, too.                    *)
MultiQueryAttention(m) == m.generator /\ ~(m.hasKvHeads /\ m.kvHeads = m.heads)

-----------------------------------------------------------------------------
(* Model::load.                                                            *)

(* The layers whose outputs are summed keep their lines.                   *)
IsLayerOut(layer) == layer \in {"self_1", "cross_2", "ffn_1"}

Dim(v, axis) ==
  IF axis = -1 /\ v.role = "weight" THEN Len(Inner(model, v.layer)) ELSE Len(Outer(model, v.layer))

IsFused(v) == v.layer = "self_0"

NextDims(v) ==
  IF IsFused(v) /\ MultiQueryAttention(model) /\ dims.model = 0
    THEN [model |-> Dim(v, -1), total |-> Dim(v, 0)]
    ELSE dims

(* Mistake: the queries, keys and values are always as many.               *)
EqualParts(v, d) == [n \in 1 .. 3 * WorldSize |-> (Dim(v, 0) \div 3) \div WorldSize]

(* How the lines of the fused projection are cut, with static dimensions d.*)
FusedParts(v, d) ==
  [n \in 1 .. 3 * WorldSize |->
     IF ~MultiQueryAttention(model) THEN (Dim(v, 0) \div 3) \div WorldSize
     ELSE IF n <= WorldSize THEN d.model \div WorldSize
     ELSE (d.total - d.model) \div (2 * WorldSize)]

Divides(n, k) == n % k = 0

Parts(v, d) ==
  CASE IsFused(v) -> FusedParts(v, d)
    [] v.layer = "cross_1" ->
         [n \in 1 .. 2 * WorldSize |-> (Dim(v, 0) \div 2) \div WorldSize]
    [] OTHER -> [n \in Ranks |-> Dim(v, IF IsLayerOut(v.layer) THEN -1 ELSE 0) \div WorldSize]

Sum(sizes) == FoldLeft(LAMBDA a, b : a + b, 0, sizes)

(* SAFE_DIVIDE and Split throw.                                            *)
CannotSplit(v, d) ==
  LET cut == IF IsLayerOut(v.layer) THEN Dim(v, -1) ELSE Dim(v, 0)
  IN  \/ Sum(Parts(v, d)) # cut
      \/ IsFused(v) /\ MultiQueryAttention(model) /\ ~Divides(d.model, WorldSize)
      \/ IsFused(v) /\ MultiQueryAttention(model) /\ ~Divides(d.total - d.model, 2 * WorldSize)

(* The parts of rank r: one of each third, half or whole.                  *)
Share(labels, parts, r) ==
  LET Part(n) == LET first == Sum(SubSeq(parts, 1, n - 1))
                 IN  SubSeq(labels, first + 1, first + parts[n])
  IN  FlattenSeq([k \in 1 .. Len(parts) \div WorldSize |-> Part(r + (k - 1) * WorldSize)])

KeptWhole(v) == IsLayerOut(v.layer) /\ v.role # "weight"

Shard(v, d, r) ==
  LET outer == Outer(model, v.layer)
      inner == IF v.role = "weight" THEN Inner(model, v.layer) ELSE <<>>
  IN  CASE KeptWhole(v) -> [outer |-> outer, inner |-> inner]
        [] IsLayerOut(v.layer) -> [outer |-> outer, inner |-> Share(inner, Parts(v, d), r)]
        [] OTHER -> [outer |-> Share(outer, Parts(v, d), r), inner |-> inner]

LoadVariable ==
  /\ phase = "loading"
  /\ LET v == Head(left)
     IN  /\ dims' = NextDims(v)
         /\ IF ~KeptWhole(v) /\ CannotSplit(v, dims')
              THEN phase' = "refused" /\ UNCHANGED <<left, shards>>
              ELSE /\ shards' = (v :> [r \in Ranks |-> Shard(v, dims', r)]) @@ shards
                   /\ left' = Tail(left)
                   /\ phase' = IF Len(left) = 1 THEN "loaded" ELSE phase
  /\ UNCHANGED <<model, models>>

(* The process loads another model, and the static variables stay.         *)
LoadAnother ==
  /\ phase \in {"loaded", "refused"}
  /\ models < MaxModels
  /\ models' = models + 1
  /\ model' \in Models
  /\ left' = Variables(model')
  /\ shards' = <<>>
  /\ phase' = "loading"
  /\ UNCHANGED dims

Init ==
  /\ model \in Models
  /\ models = 1
  /\ left = Variables(model)
  /\ shards = <<>>
  /\ dims = [model |-> 0, total |-> 0]
  /\ phase = "loading"

Next == LoadVariable \/ LoadAnother

Spec == Init /\ [][Next]_vars

-----------------------------------------------------------------------------
(* What the ranks compute.                                                 *)

Weight(layer, r) == shards[[layer |-> layer, role |-> "weight"]][r]

(* AttentionLayer::AttentionLayer.                                         *)
NumHeads == model.heads \div WorldSize
NumHeadsKv == IF model.hasKvHeads THEN model.kvHeads \div WorldSize ELSE NumHeads

(* Part of a projection: head i of those from place first, of size d.      *)
HeadOf(lines, first, i, d) == SubSeq(lines, first + (i - 1) * d + 1, first + i * d)

(* relative_attention_bias: add_batch_broadcast repeats what the rank has  *)
(* of it, the whole on the first one, over the heads of all the batch.     *)
PositionBias(b, i, r) ==
  LET first == IF r = 1 THEN 0 ELSE NumHeads * (r - 1)
      size  == IF r = 1 THEN model.heads ELSE NumHeads
  IN  first + (((b - 1) * NumHeads + i - 1) % size) + 1

(* The slope of build_alibi for head i of n.                               *)
Slope(i, n) == <<i, n>>

AttentionHead(b, queries, keys, values, out, position, slope) ==
  [row |-> b, q |-> queries, k |-> keys, v |-> values, out |-> out,
   position |-> IF model.position THEN position ELSE 0,
   slope |-> IF model.alibi THEN slope ELSE <<>>]

(* The heads of an attention: queries, keys and values are lines of the    *)
(* projections, and keys of a group of heads are replicated.               *)
HeadsOf(b, r, qs, ks, vs, columns) ==
  {AttentionHead(b, HeadOf(qs, 0, i, model.headDim),
                 HeadOf(ks, 0, (i - 1) \div (NumHeads \div NumHeadsKv) + 1, model.headDim),
                 HeadOf(vs, 0, (i - 1) \div (NumHeads \div NumHeadsKv) + 1, model.headDim),
                 HeadOf(columns, 0, i, model.headDim),
                 PositionBias(b, i, r), Slope(i, NumHeads)) : i \in 1 .. NumHeads}

(* The split of the projections throws when the sizes do not match.        *)
KvSize == NumHeadsKv * model.headDim
QuerySize == NumHeads * model.headDim

Runs(r) ==
  /\ Divides(model.heads, WorldSize)
  /\ NumHeadsKv > 0
  /\ Len(Weight("self_0", r).outer) = QuerySize + 2 * KvSize

SelfAttention(r) ==
  LET lines == Weight("self_0", r).outer
  IN  UNION {HeadsOf(b, r, SubSeq(lines, 1, QuerySize),
                     SubSeq(lines, QuerySize + 1, QuerySize + KvSize),
                     SubSeq(lines, QuerySize + KvSize + 1, QuerySize + 2 * KvSize),
                     Weight("self_1", r).inner) : b \in 1 .. model.rows}

CrossAttention(r) ==
  LET lines == Weight("cross_1", r).outer
  IN  UNION {HeadsOf(b, r, Weight("cross_0", r).outer, SubSeq(lines, 1, KvSize),
                     SubSeq(lines, KvSize + 1, 2 * KvSize),
                     Weight("cross_2", r).inner) : b \in 1 .. model.rows}

FeedForward(r) ==
  LET up == Weight("ffn_0", r).outer
  IN  {<<up[n], Weight("ffn_gate", r).outer[n], Weight("ffn_1", r).inner[n]>> :
         n \in DOMAIN up}

(* Dense::operator(): the bias and the residual of a sum, for one rank.    *)
AddsBias(r) == r = 1

-----------------------------------------------------------------------------
(* The same layer on one device.                                           *)

Group(h) == (h - 1) \div (model.heads \div model.kvHeads) + 1
Line(kind, h) == [i \in 1 .. model.headDim |-> <<kind, h, i>>]

WholeHead(b, h) ==
  AttentionHead(b, Line("q", h), Line("k", Group(h)), Line("v", Group(h)), Line("out", h),
                h, Slope(h, model.heads))

WholeAttention == {WholeHead(b, h) : b \in 1 .. model.rows, h \in 1 .. model.heads}

WholeFeedForward == {<<n, n, n>> : n \in Range(Units("neuron", model.neurons))}

(* The terms of the sum are those of the whole, each from one rank.        *)
IsTheWhole(terms, whole) ==
  /\ UNION {terms[r] : r \in Ranks} = whole
  /\ \A r, s \in Ranks : r # s => terms[r] \cap terms[s] = {}

(* The lines of a projection have their own bias and their own scale.      *)
RolesAgree ==
  \A v \in DOMAIN shards : \A r \in Ranks : shards[v][r].outer = Weight(v.layer, r).outer

SumIsTheWhole ==
  /\ IsTheWhole([r \in Ranks |-> SelfAttention(r)], WholeAttention)
  /\ ~model.generator => IsTheWhole([r \in Ranks |-> CrossAttention(r)], WholeAttention)
  /\ IsTheWhole([r \in Ranks |-> FeedForward(r)], WholeFeedForward)
  /\ RolesAgree
  /\ Cardinality({r \in Ranks : AddsBias(r)}) = 1

(* What the splitting of the fused projection takes for granted: equal     *)
(* thirds for translation models; for generators that the first line read  *)
(* is a weight, and that the queries are as many as the hidden dimensions. *)
SplitsEvenly ==
  IF MultiQueryAttention(model)
    THEN /\ ~model.bias /\ model.hidden = model.heads * model.headDim
         /\ dims = [model |-> model.hidden, total |-> Len(Outer(model, "self_0"))]
    ELSE model.kvHeads = model.heads

HasHeadBiases == model.alibi \/ (model.position /\ model.rows > 1)

(* Together the ranks compute what one device computes: every head with    *)
(* its own keys, values and columns, and every neuron, on one rank, and    *)
(* the bias once; for the models that the loading is written for (without  *)
(* alibi, whose slopes depend on the number of heads). They are loaded     *)
(* when their heads can be divided by the number of ranks.                 *)
RanksComputeTheWhole ==
  SplitsEvenly /\ ~HasHeadBiases
    /\ Divides(model.heads, WorldSize) /\ Divides(model.kvHeads, WorldSize)
    /\ Divides(model.neurons, WorldSize)
  => /\ phase # "refused"
     /\ phase = "loaded" => (\A r \in Ranks : Runs(r)) /\ SumIsTheWhole

(* "Models used with Translator and Generator can be split into multiple   *)
(* GPUs" (docs/parallel.md:45): the ranks that load and run a model compute*)
(* the whole, if no bias or slope belongs to a head and the queries are as *)
(* many as the hidden dimensions. The code breaks it: a fused projection   *)
(* with a bias, which comes before its weight in the file, is not cut into *)
(* queries, keys and values at all.                                        *)
SplitModelsComputeTheWhole ==
  ~HasHeadBiases /\ model.hidden = model.heads * model.headDim
    /\ phase = "loaded" /\ (\A r \in Ranks : Runs(r))
  => SumIsTheWhole
=============================================================================
