---------------------------- MODULE MCCtxStorage ----------------------------
(***************************************************************************)
(* One configuration for the Context and two rules, so that one can be     *)
(* counted and the other not; a user of each kind, of two sizes.           *)
(***************************************************************************)
EXTENDS CtxStorage

CONSTANTS g, r1, r2, group, active, tcp

MCSize == [u \in {group, active, tcp} |-> IF u = group THEN 2 ELSE 1]
MCFinds == [u \in {group, active, tcp} |->
              IF u = group THEN "own" ELSE IF u = active THEN "base" ELSE "static"]

\* The first rule has the static user, the second the one that asks the Config.
MCLoads == [c \in {g, r1, r2} |->
              IF c = g THEN {active, tcp} ELSE IF c = r1 THEN {group, tcp} ELSE {group, active}]
=============================================================================
