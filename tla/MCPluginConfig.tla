--------------------------- MODULE MCPluginConfig ---------------------------
(***************************************************************************)
(* Two reload tasks, so that one can act between the steps of the other,   *)
(* two transactions, so that one can hold a configuration that another     *)
(* does not get any more, and four configurations: the initial one and     *)
(* enough to replace it twice, with a failed load among them.              *)
(***************************************************************************)
EXTENDS PluginConfig
=============================================================================
