---------------------------- MODULE MCTaskHandle ----------------------------
(***************************************************************************)
(* Four shared pointers besides the task's: the loader or Plugin_Config    *)
(* and three transactions, so that any of them can be the last.            *)
(***************************************************************************)
EXTENDS TaskHandle
=============================================================================
