---------------------------- MODULE MCTextBlock ----------------------------
(***************************************************************************)
(* Two transactions, so that one can have a view that another does not get *)
(* any more; the file is there at first and changes twice, which is enough *)
(* for a change between any two steps of a check and one to be found by    *)
(* the next check.                                                         *)
(***************************************************************************)
EXTENDS TextBlock
=============================================================================
