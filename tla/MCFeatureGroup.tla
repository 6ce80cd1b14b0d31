--------------------------- MODULE MCFeatureGroup ---------------------------
(***************************************************************************)
(* A directive that asks for two keys, one of them required, and every     *)
(* value with these and a third key: any of them missing, bad, a literal   *)
(* or with up to two references, to itself, each other or twice the same.  *)
(***************************************************************************)
EXTENDS FeatureGroup

CONSTANTS location, status, other

MCListed == <<location, status>>

MCExpr ==
  {[valid |-> FALSE, literal |-> FALSE, refs |-> <<>>],
   [valid |-> TRUE, literal |-> TRUE, refs |-> <<>>]}
  \union [valid : {TRUE}, literal : {FALSE},
          refs : UNION {[1 .. n -> Key] : n \in 0 .. 2}]

MCNodes ==
  [form : {"map"}, expr : UNION {[S -> MCExpr] : S \in SUBSET Key}]
  \union [form : {"list"}, expr : UNION {[{MCListed[i] : i \in 1 .. n} -> MCExpr] : n \in 0 .. 2}]
  \union [form : {"scalar"}, expr : [{location} -> MCExpr]]
=============================================================================
