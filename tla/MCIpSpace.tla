----------------------------- MODULE MCIpSpace -----------------------------
(***************************************************************************)
(* Three versions of a file: two rows that overlap; a version that defines *)
(* a tag and fails in the next row; and one that is good up to an empty    *)
(* line and not after it, with a tag of the one that failed, and covers    *)
(* fewer addresses than the first.                                         *)
(***************************************************************************)
EXTENDS IpSpace

CONSTANTS a1, a2

Text(kind)    == [kind |-> kind, range |-> {}, tag |-> "red", num |-> 0, flagsOk |-> TRUE]
Columns(range, tag, num) ==
  [kind |-> "row", range |-> range, tag |-> tag, num |-> num, flagsOk |-> TRUE]

MCFile == <<
  <<Columns({a1}, "red", 0), Text("comment"), Columns({a1, a2}, "green", 1)>>,
  <<Columns({a2}, "blue", 0), [Columns({a1}, "red", 1) EXCEPT !.flagsOk = FALSE]>>,
  <<Columns({a1}, "blue", Junk), Text("empty"), Columns({}, "green", 1)>> >>

\* Without declared tags, any tag is valid.
MCKeys == <<>>
=============================================================================
