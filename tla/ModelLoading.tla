----------------------------- MODULE ModelLoading -----------------------------
(***************************************************************************)
(* The variables of a model, from the converter (model_spec.py) to the     *)
(* layers: Model::load of src/models/model.cc, which resolves the compute  *)
(* type, converts the variables to it, registers the aliases and prepares  *)
(* the linear weights, then Model::copy_to and the look up of the layers   *)
(* of src/layers/common.cc.                                                *)
(* A variable is a name and a role: the weight of a layer, its scale, zero *)
(* point, compensation or packed form, or another variable of the model.   *)
(***************************************************************************)
EXTENDS ComputeTypes, Functions, FiniteSetsExt

CONSTANTS
  Platforms,   \* devices on which the model is loaded
  Embeddings,  \* layers whose name has "embeddings"
  Linears,     \* other layers with a matrix
  Convs,       \* layers whose name has "conv"
  Masked,      \* linear layers whose name has "projection"
  Others,      \* other variables: biases, norms
  Factors,     \* those that converters always write in float32
  Aliases      \* layers that have the same weight as another one

ASSUME ModelLoadingAssumption ==
  /\ \A p \in Platforms : IsPlatform(p)
  /\ Factors \subseteq Others
  /\ Aliases \in [DOMAIN Aliases -> Embeddings \cup Linears \cup Convs]
  /\ DOMAIN Aliases \cap (Embeddings \cup Linears \cup Convs) = {}   \* an alias is not saved
  /\ IsFiniteSet(Embeddings \cup Linears \cup Convs) /\ IsFiniteSet(DOMAIN Aliases)
  /\ IsFiniteSet(Others)
  /\ Masked \subseteq Linears \cup DOMAIN Aliases

VARIABLES
  platform,   \* where the model is loaded
  request,    \* requested compute type
  flash,      \* whether flash attention is requested
  file,       \* what the converter has written
  phase,      \* progress of the loading
  saved,      \* _saved_compute_type
  effective,  \* _effective_compute_type
  model       \* _variable_index: the object of each variable, and the objects

loadVars == <<platform, request, flash, file, phase, saved, effective, model>>

Saved == Embeddings \cup Linears \cup Convs
Layers == Saved \cup DOMAIN Aliases
Original(n) == IF n \in DOMAIN Aliases THEN Aliases[n] ELSE n
IsLinear(n) == n \in Linears \cup Convs \cup {a \in DOMAIN Aliases : a \notin Embeddings}
IsConv(n) == Original(n) \in Convs

IsFloat(dtype) == dtype \in FloatDataTypes

-----------------------------------------------------------------------------
(* The converter: LayerSpec._quantize.                                     *)

(* The data type of another variable, first in the original model. *)
OtherType(n, float, quantization) ==
  CASE quantization \in {"float16", "int8_float16"} -> "float16"
    [] quantization \in {"bfloat16", "int8_bfloat16"} -> "bfloat16"
    [] quantization \in {"float32", "int16", "int8_float32"} -> "float32"
    [] OTHER -> IF n \in Factors THEN "float32" ELSE float

(* A model whose type is float, and the quantization, which may be none. *)
Converted(float, quantization) ==
  LET type == IF quantization = "none" THEN float ELSE quantization
  IN  [weight |-> WeightType(type), scaled |-> ~IsFloat(WeightType(type)), awq |-> FALSE,
       other  |-> [n \in Others |-> OtherType(n, float, quantization)],
       meant  |-> IF type = "int8" THEN Int8With(float) ELSE type]

(* Files of int16 weights without a scale, and files of other tools. *)
OldFile ==
  [weight |-> "int16", scaled |-> FALSE, awq |-> FALSE,
   other |-> [n \in Others |-> "float32"], meant |-> "int16"]

AwqFile ==
  [weight |-> "int32", scaled |-> TRUE, awq |-> TRUE,
   other |-> [n \in Others |-> "float16"], meant |-> "float16"]

Files ==
  {Converted(float, quantization) : float \in FloatDataTypes,
                                    quantization \in SavedTypes \cup {"int8", "none"}}
    \cup {OldFile, AwqFile}

-----------------------------------------------------------------------------
(* The index of a model. Each value knows the quantization it comes from.  *)

Value(dtype, of) == [dtype |-> dtype, of |-> of]

Has(m, v) == v \in DOMAIN m.index
Get(m, v) == m.store[m.index[v]]

Extended(f, x, y) == [z \in DOMAIN f \cup {x} |-> IF z = x THEN y ELSE f[z]]

(* register_variable leaves a variable that exists alone. *)
Register(m, v, value) ==
  IF Has(m, v) THEN m
  ELSE [index |-> Extended(m.index, v, v), store |-> Extended(m.store, v, value)]

RegisterAlias(m, alias, v) ==
  IF ~Has(m, v) \/ Has(m, alias) THEN m
  ELSE [m EXCEPT !.index = Extended(@, alias, m.index[v])]

RemoveVariable(m, v) == [m EXCEPT !.index = Restrict(@, DOMAIN @ \ {v})]

SetVariable(m, v, value) == [m EXCEPT !.store[m.index[v]] = value]

(* The variables of the file. AWQ quantizes linear layers only.            *)
Read(f) ==
  LET quantized == IF f.awq THEN Linears ELSE Saved
      values == [v \in (Saved \X {"weight"}) \cup (Others \X {"other"})
                         \cup (IF f.scaled THEN quantized \X {"scale"} ELSE {})
                         \cup (IF f.awq THEN quantized \X {"zero"} ELSE {}) |->
                   CASE v[2] = "weight" /\ v[1] \notin quantized -> Value("float16", "none")
                     [] v[2] = "weight" /\ v[1] \in quantized ->
                          Value(f.weight, IF IsFloat(f.weight) THEN "none" ELSE "file")
                     [] v[2] = "scale" -> Value(IF f.awq THEN "float16" ELSE "float32", "file")
                     [] v[2] = "zero" -> Value("int32", "file")
                     [] OTHER -> Value(f.other[v[1]], "none")]
  IN  [index |-> [v \in DOMAIN values |-> v], store |-> values]

-----------------------------------------------------------------------------
(* ensure_dtype.                                                           *)

(* The scale of old files is global_int16_scale. *)
Scaled(m, n) ==
  IF Get(m, <<n, "weight">>).dtype = "int16"
    THEN Register(m, <<n, "scale">>, Value("float32", "file"))
    ELSE m

Dequantized(m, n, dtype) ==
  RemoveVariable(SetVariable(m, <<n, "weight">>, Value(dtype, "none")), <<n, "scale">>)

Quantized(m, n, dtype) ==
  Register(SetVariable(m, <<n, "weight">>, Value(dtype, "load")), <<n, "scale">>, Value("float32", "load"))

(* Mistake: the scale of the file stays, register_variable does not replace it. *)
RequantizedOver(m, n, dtype) == Quantized(m, n, dtype)

Requantized(m, n, dtype) == Quantized(RemoveVariable(m, <<n, "scale">>), n, dtype)

EnsureType(m, n, dtype) ==
  LET scaled == Scaled(m, n)
      from   == Get(m, <<n, "weight">>).dtype
  IN  IF from = dtype THEN scaled
      ELSE CASE IsFloat(from) /\ IsFloat(dtype) -> SetVariable(m, <<n, "weight">>, Value(dtype, "none"))
             [] ~IsFloat(from) /\ IsFloat(dtype) -> Dequantized(scaled, n, dtype)
             [] IsFloat(from) /\ ~IsFloat(dtype) -> Quantized(m, n, dtype)
             [] ~IsFloat(from) /\ ~IsFloat(dtype) -> Requantized(scaled, n, dtype)

(* It throws when the scale of an int8 weight is missing. *)
ScalesAreMissing(m) ==
  \E n \in Saved : Get(m, <<n, "weight">>).dtype = "int8" /\ ~Has(m, <<n, "scale">>)

-----------------------------------------------------------------------------
(* set_compute_type.                                                       *)

(* Mistake: the scales count as variables of the model. *)
ConvertibleOrScale(m) == {v \in DOMAIN m.index : v[2] \in {"other", "zero", "scale"}}

Convertible(m) == {v \in DOMAIN m.index : v[2] \in {"other", "zero"}}

(* infer_compute_type: the types of the variables that an unordered map    *)
(* visits last.                                                            *)
OtherTypes(m) ==
  IF Convertible(m) = {} THEN {"float32"} ELSE {Get(m, v).dtype : v \in Convertible(m)}

Inferred(m) ==
  {TypeOf(Get(m, <<n, "weight">>).dtype, float) : n \in Saved, float \in OtherTypes(m)}

(* Whether a convolution cannot be quantized. *)
ConvIsFloat(p) ==
  p.device \in {"CUDA", "METAL"} \/ \E i \in DOMAIN p.backends : p.backends[i] = "DNNL"

WeightTarget(n, type) ==
  IF n \in Convs /\ ConvIsFloat(platform) THEN FloatType(type) ELSE WeightType(type)

ConvertOther(m, v, dtype) ==
  IF IsFloat(Get(m, v).dtype) THEN SetVariable(m, v, Value(dtype, "none")) ELSE m

ConvertVariables(m, type) ==
  LET weights == FoldSet(LAMBDA n, acc : EnsureType(acc, n, WeightTarget(n, type)), m, Saved)
  IN  FoldSet(LAMBDA v, acc : ConvertOther(acc, v, FloatType(type)), weights, Convertible(weights))

(* The kernels of AWQ want float16, and the weights are left alone. *)
RequestOf(f) == IF f.awq THEN "float16" ELSE request

SetComputeType ==
  /\ phase = "read"
  /\ saved' \in Inferred(model)
  /\ LET type == Resolve(RequestOf(file), saved', platform)
     IN  IF \/ type = Refused
            \/ ~file.awq /\ flash /\ FloatType(type) = "float32"
            \/ ~file.awq /\ ScalesAreMissing(model)
           THEN phase' = "refused" /\ UNCHANGED <<effective, model>>
           ELSE /\ phase' = "typed" /\ effective' = type
                /\ model' = IF file.awq THEN model ELSE ConvertVariables(model, type)
  /\ UNCHANGED <<platform, request, flash, file>>

-----------------------------------------------------------------------------
(* The aliases, once the variables are on the device.                      *)

AliasedRoles == {"weight", "scale", "zero"}

RegisterAliases ==
  /\ phase = "typed"
  /\ model' = FoldSet(LAMBDA v, m : RegisterAlias(m, v, <<Aliases[v[1]], v[2]>>),
                      model, (DOMAIN Aliases) \X AliasedRoles)
  /\ phase' = "aliased"
  /\ UNCHANGED <<platform, request, flash, file, saved, effective>>

-----------------------------------------------------------------------------
(* process_linear_weights.                                                 *)

IsPacked(n) == IsLinear(n) /\ n \notin Masked /\ ~IsConv(n)

Compensated(m, n) ==
  IF Get(m, <<n, "weight">>).dtype = "int8" /\ PrefersU8(platform)
    THEN Register(m, <<n, "compensation">>, Value("int32", Get(m, <<n, "weight">>).of))
    ELSE m

Packed(m, n) ==
  IF PacksWeights(platform, effective) /\ IsPacked(n)
    THEN RemoveVariable(Register(m, <<n, "packed">>, Get(m, <<n, "weight">>)), <<n, "weight">>)
    ELSE m

ProcessLinearWeights ==
  /\ phase = "aliased"
  /\ model' = IF platform.device # "CPU" THEN model
              ELSE FoldSet(LAMBDA n, m : Packed(Compensated(m, n), n),
                           model, {n \in Layers : IsLinear(n)})
  /\ phase' = "loaded"
  /\ UNCHANGED <<platform, request, flash, file, saved, effective>>

-----------------------------------------------------------------------------
(* copy_to.                                                                *)

(* The copy of an object, known by the names that it has. *)
CopyOf(m, v) == {name \in DOMAIN m.index : m.index[name] = m.index[v]}

CopyTo ==
  /\ phase = "loaded"
  /\ LET index == [v \in DOMAIN model.index |-> CopyOf(model, v)]
     IN  model' = [index |-> index,
                   store |-> [names \in Range(index) |-> Get(model, CHOOSE v \in names : TRUE)]]
  /\ phase' = "copied"
  /\ UNCHANGED <<platform, request, flash, file, saved, effective>>

-----------------------------------------------------------------------------
LoadInit ==
  /\ platform \in Platforms
  /\ request \in Requests
  /\ flash \in {FALSE, platform.flash}
  /\ file \in Files
  /\ phase = "read"
  /\ saved = "none" /\ effective = "none"
  /\ model = Read(file)

LoadNext == SetComputeType \/ RegisterAliases \/ ProcessLinearWeights \/ CopyTo

LoadSpec == LoadInit /\ [][LoadNext]_loadVars

-----------------------------------------------------------------------------
(* What the layers find.                                                   *)

Loaded == phase \in {"loaded", "copied"}

(* get_linear_weight: the packed weight first. *)
DenseWeight(n) == IF Has(model, <<n, "packed">>) THEN <<n, "packed">> ELSE <<n, "weight">>

LayerWeight(n) == IF IsLinear(n) /\ ~IsConv(n) THEN DenseWeight(n) ELSE <<n, "weight">>

(* Every layer finds, under its own name, its weight, in the form it       *)
(* reads: never packed for the embeddings, the convolutions, and the       *)
(* projection, which may be masked; with the scale and the compensation of *)
(* the quantization that made it, and without a scale when it is a float   *)
(* and the layer would take it for quantized. The weight that layers share *)
(* is in memory once, in the copies too, except for the packed form, which *)
(* each linear layer has for itself. The weights and the other variables   *)
(* have the types of the effective type, for which the kernels are chosen, *)
(* but a convolution is a float where no kernel reads it quantized,        *)
(* whatever the file holds.                                                *)
LayersFindTheirVariables ==
  Loaded => \A n \in Layers :
    /\ Has(model, <<n, "weight">>) /\ Has(model, <<Original(n), "weight">>)
         => model.index[<<n, "weight">>] = model.index[<<Original(n), "weight">>]
    /\ Has(model, LayerWeight(n))
    /\ n \in Masked => ~Has(model, <<n, "packed">>)
    /\ LET weight == Get(model, LayerWeight(n))
           scale  == <<n, "scale">>
       IN  /\ IF IsFloat(weight.dtype) THEN ~Has(model, scale)
              ELSE Has(model, scale) /\ Get(model, scale).of = weight.of
           /\ weight.dtype = "int8" /\ IsLinear(n) /\ ~IsConv(n)
                /\ platform.device = "CPU" /\ PrefersU8(platform)
                => /\ Has(model, <<n, "compensation">>)
                   /\ Get(model, <<n, "compensation">>).of = weight.of
           /\ weight.dtype = "int32" => Has(model, <<n, "zero">>)
           /\ ~file.awq => weight.dtype =
                IF IsConv(n) /\ (platform.device # "CPU" \/ "DNNL" \in Range(platform.backends))
                  THEN FloatType(effective) ELSE WeightType(effective)
           /\ ~file.awq => \A v \in Others : Get(model, <<v, "other">>).dtype = FloatType(effective)

(* A type that the user asks for is the one that runs, or an error: plain  *)
(* int8 with the floating point type of the model if the device supports   *)
(* it, and never without quantization. auto and default always load the    *)
(* model, in a type that the device supports, and the types that           *)
(* get_supported_compute_types returns are those that load.                *)
RequestsAreHonoured ==
  phase \notin {"read"} /\ ~file.awq =>
    /\ request \in {"auto", "default"} => phase # "refused" \/ flash
    /\ ~flash /\ request \notin {"auto", "default"} =>
         (phase # "refused" <=> request \in SupportedTypes(platform))
    /\ phase # "refused" =>
         /\ effective \in SupportedTypes(platform) \ {"int8"}
         /\ request \in SavedTypes => effective = request
         /\ request = "int8" => WeightType(effective) = "int8"
         /\ request = "int8" /\ Int8With(FloatType(saved)) \in SupportedTypes(platform)
              => effective = Int8With(FloatType(saved))

(* "By default, the runtime tries to use the type that is saved in the     *)
(* converted model" (docs/quantization.md:79). The code keeps it for the   *)
(* models whose other variables have one type, and breaks it for others:   *)
(* infer_compute_type takes the type of the variable visited last, and the *)
(* rotary factors of some models are always in float32.                    *)
SavedTypeIsKept ==
  phase \notin {"read", "refused"} /\ request = "default"
    /\ file.meant \in SupportedTypes(platform) => effective = file.meant
=============================================================================
