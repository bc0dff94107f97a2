------------------------ MODULE MCBufferedTranslation ------------------------
(* Small instances of BufferedTranslation. *)
EXTENDS BufferedTranslation

CONSTANTS c1, c2
TwoClients == {c1, c2}
=============================================================================
