---------------------------- MODULE MCReplicaPool ----------------------------
(* Small instances of ReplicaPool. *)
EXTENDS ReplicaPool, TLC

CONSTANTS a, b

TwoCallers == {a, b}
SomeInputs ==
  {(a :> <<1, 2, 1>>) @@ (b :> <<1>>),
   (a :> <<1, 2, 2, 3>>) @@ (b :> <<>>)}
=============================================================================
