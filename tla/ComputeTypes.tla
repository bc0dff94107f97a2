----------------------------- MODULE ComputeTypes -----------------------------
(***************************************************************************)
(* The compute types of src/types.cc: what a device supports, how a        *)
(* requested type is resolved, and the backends of src/cpu/backend.cc. A   *)
(* platform is a device, the matrix multiplication backends of the build   *)
(* that can run on it, in their order of preference, and what its GPU      *)
(* supports.                                                               *)
(***************************************************************************)
EXTENDS Sequences, Naturals, FiniteSetsExt

Int8Types == {"int8", "int8_float32", "int8_float16", "int8_bfloat16"}
SavedTypes == {"float32", "float16", "bfloat16", "int16"} \cup (Int8Types \ {"int8"})
Requests == SavedTypes \cup {"int8", "auto", "default"}

FloatDataTypes == {"float32", "float16", "bfloat16"}

(* The devices, and the backends that get_gemm_backend may choose.         *)
IsPlatform(p) ==
  /\ p.device \in {"CPU", "CUDA", "METAL"}
  /\ p.backends \in Seq({"MKL", "DNNL", "ACCELERATE", "OPENBLAS", "RUY"})
  /\ {p.bfloat16, p.float16, p.int8, p.packs, p.flash} \subseteq BOOLEAN

-----------------------------------------------------------------------------
(* src/cpu/backend.cc.                                                     *)

Multiplies(backend, type) ==
  CASE backend = "MKL" -> type \in {"float32", "int16"} \cup Int8Types
    [] backend \in {"DNNL", "RUY"} -> type \in {"float32"} \cup Int8Types
    [] OTHER -> type = "float32"

(* get_gemm_backend: the first one that can. *)
GemmBackend(platform, type) ==
  LET able == {n \in DOMAIN platform.backends : Multiplies(platform.backends[n], type)}
  IN  IF able = {} THEN "NONE" ELSE platform.backends[Min(able)]

PrefersU8(platform) == GemmBackend(platform, "int8") \in {"MKL", "DNNL"}

PacksWeights(platform, type) == GemmBackend(platform, type) = "MKL" /\ platform.packs

-----------------------------------------------------------------------------
(* The capabilities of a device: mayiuse_*.                                *)

Supports(platform, type) ==
  LET device == platform.device
  IN  CASE type = "bfloat16" -> device = "CUDA" /\ platform.bfloat16
        [] type = "float16"  -> device = "METAL" \/ (device = "CUDA" /\ platform.float16)
        [] type = "int16"    -> device = "CPU" /\ GemmBackend(platform, "int16") # "NONE"
        [] type = "int8"     -> \/ device = "METAL"
                                \/ device = "CUDA" /\ platform.int8
                                \/ device = "CPU" /\ GemmBackend(platform, "int8") # "NONE"

-----------------------------------------------------------------------------
(* The pairs of data types, of the weights and of the other variables.     *)

WeightType(type) ==
  CASE type \in Int8Types -> "int8"
    [] OTHER -> type

FloatType(type) ==
  CASE type \in FloatDataTypes -> type
    [] type = "int8_float16" -> "float16"
    [] type = "int8_bfloat16" -> "bfloat16"
    [] OTHER -> "float32"

Int8With(float) ==
  CASE float = "float16" -> "int8_float16"
    [] float = "bfloat16" -> "int8_bfloat16"
    [] OTHER -> "int8_float32"

(* data_type_to_compute_type. *)
TypeOf(weight, float) ==
  CASE weight = "int8" -> Int8With(float)
    [] weight \in {"int16", "float16", "bfloat16"} -> weight
    [] OTHER -> "float32"

-----------------------------------------------------------------------------
(* resolve_compute_type.                                                   *)

Refused == "refused"

(* The types in which a concrete one falls back, the best first. *)
Fallbacks(type, platform) ==
  CASE type = "int16" ->
         (IF platform.device = "CPU" THEN <<"int8_float32">> ELSE <<>>)
           \o (IF platform.device = "CUDA" THEN <<"float16">> ELSE <<>>)
    [] type = "int8_float32" ->
         (IF platform.device = "CPU" THEN <<"int16">> ELSE <<>>)
           \o (IF platform.device = "CUDA" THEN <<"float16">> ELSE <<>>)
    [] type = "int8_float16" -> <<"int8_float32", "float16", "int16">>
    [] type = "int8_bfloat16" -> <<"int8_float32", "bfloat16">>
    [] OTHER -> <<>>

(* Whether the device computes in a concrete type. *)
Runs(platform, type) ==
  CASE type = "float32" -> TRUE
    [] type = "int8_float32" -> Supports(platform, "int8")
    [] type = "int8_float16" -> Supports(platform, "int8") /\ Supports(platform, "float16")
    [] type = "int8_bfloat16" -> Supports(platform, "int8") /\ Supports(platform, "bfloat16")
    [] OTHER -> Supports(platform, type)

FirstThatRuns(types, platform) ==
  LET able == {n \in DOMAIN types : Runs(platform, types[n])}
  IN  IF able = {} THEN "float32" ELSE types[Min(able)]

(* A concrete type, with the fallback. *)
FallBack(type, platform) == FirstThatRuns(<<type>> \o Fallbacks(type, platform), platform)

(* Mistake: the result is taken as it comes. *)
ResolveInt8Quietly(saved, platform) == FallBack(Int8With(FloatType(saved)), platform)

(* A request of int8 takes the floating point type of the model; it falls  *)
(* back to another one, but not to other weights than int8.                *)
ResolveInt8(saved, platform) ==
  LET resolved == FallBack(Int8With(FloatType(saved)), platform)
  IN  IF WeightType(resolved) = "int8" THEN resolved ELSE Refused

AutoOrder(device) ==
  CASE device = "METAL" -> <<>>
    [] device = "CUDA" -> <<"int8_float16", "int8_float32", "float16">>
    [] OTHER -> <<"int8_float32", "int16">>

Resolve(request, saved, platform) ==
  CASE request = "int8" -> ResolveInt8(saved, platform)
    [] request = "auto" -> FirstThatRuns(AutoOrder(platform.device), platform)
    [] request = "default" -> FallBack(saved, platform)
    [] OTHER -> IF Runs(platform, request) THEN request ELSE Refused

(* get_supported_compute_types, of the Python bindings. *)
SupportedTypes(platform) ==
  {"float32"}
    \cup {type \in {"bfloat16", "float16", "int16"} : Supports(platform, type)}
    \cup IF ~Supports(platform, "int8") THEN {}
         ELSE {"int8", "int8_float32"}
                \cup (IF Supports(platform, "float16") THEN {"int8_float16"} ELSE {})
                \cup (IF Supports(platform, "bfloat16") THEN {"int8_bfloat16"} ELSE {})
=============================================================================
