------------------------------- MODULE MCKVCache -------------------------------
(* A replica and another thread, capacities from 2 on. *)
EXTENDS KVCache

CONSTANTS replica, other

BothThreads == {replica, other}
NoCommands == {}
SomeWindows == {0, 2}
=============================================================================
