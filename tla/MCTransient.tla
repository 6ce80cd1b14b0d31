---------------------------- MODULE MCTransient ----------------------------
(***************************************************************************)
(* Two blocks: a text can be cut by the end of one and be rendered again *)
(* in another, while a second waits in the buffer, a third is worked on    *)
(* and others are kept.                                                    *)
(***************************************************************************)
EXTENDS Transient

MCBlocks == {<<0, 2>>, <<2, 6>>}
=============================================================================
