---------------------------- MODULE Comparisons ----------------------------
(***************************************************************************)
(* Comparisons of a feature with values that are already extracted, and    *)
(* what a comparison that succeeds leaves in the context: the groups and   *)
(* the text that did not match.                                            *)
(* Source: Comparison.cc, Rxp.cc, Context.cc, the captures.                *)
(*                                                                         *)
(* A context is a record: vars (the variables), active (the feature),      *)
(* src, ovec (the text and the offsets of the groups), n (the room for     *)
(* groups), remainder, how ("ok" while nothing went wrong).  An offset     *)
(* pair is <<>> if the group is unset, and missing if it was never         *)
(* written.  Comparing gives a record of hit and cx.                       *)
(***************************************************************************)
EXTENDS Features

CONSTANTS
  Match(_, _),   \* PCRE: the offset pairs of a pattern's match in a text, or <<>>
  Groups(_)      \* the number of groups of a pattern, with the whole

Hit(cx) == [hit |-> TRUE, cx |-> cx]
Miss(cx) == [hit |-> FALSE, cx |-> cx]

-----------------------------------------------------------------------------
(* Captures.                                                               *)

\* The last octet of the text is left out.
LiteralEnd(text) == IF text = <<>> THEN 0 ELSE Len(text) - 1

\* The other groups keep their offsets, now into another text.
set_literal_capture(cx, text) ==
  [cx EXCEPT !.src = text,
             !.ovec = <<<<0, LiteralEnd(text)>>>> \o (IF @ = <<>> THEN <<>> ELSE Tail(@))]

\* More room for groups drops the ones there are.
rxp_match_require(cx, n) ==
  IF cx.n >= n THEN cx ELSE [cx EXCEPT !.ovec = <<>>, !.n = Max({@ + 7, n, (3 * @) \div 2})]

rxp_commit_match(cx, src, pairs) ==
  [cx EXCEPT !.src = src, !.ovec = pairs \o [i \in 1 .. cx.n - Len(pairs) |-> <<>>]]

Unknown == <<"?">>

active_group(cx, i) ==
  IF i >= Len(cx.ovec) THEN Unknown
  ELSE IF cx.ovec[i + 1] = <<>> THEN <<>>
  ELSE SubSeq(cx.src, cx.ovec[i + 1][1] + 1, Min({cx.ovec[i + 1][2], Len(cx.src)}))

-----------------------------------------------------------------------------
(* Texts.                                                                  *)

LiteralHit(cx, capture, rest) == Hit([set_literal_capture(cx, capture) EXCEPT !.remainder = rest])

Same(nc, a, b) == IF nc THEN SameNoCase(a, b) ELSE a = b
Beginning(text, n) == SubSeq(text, 1, Min({n, Len(text)}))
Ending(text, n) == SubSeq(text, Max({0, Len(text) - n}) + 1, Len(text))
Without(text, n) == SubSeq(text, Min({n, Len(text)}) + 1, Len(text))
StartsWith(nc, active, text) == Len(text) <= Len(active) /\ Same(nc, Beginning(active, Len(text)), text)
EndsIn(nc, active, text) == Len(text) <= Len(active) /\ Same(nc, Ending(active, Len(text)), text)

Cmp_Match(nc, text, active, cx) == IF Same(nc, text, active) THEN LiteralHit(cx, active, <<>>) ELSE Miss(cx)

Cmp_Suffix(nc, text, active, cx) ==
  IF EndsIn(nc, active, text)
  THEN LiteralHit(cx, Ending(active, Len(text)), Beginning(active, Len(active) - Len(text))) ELSE Miss(cx)

Cmp_Prefix(nc, text, active, cx) ==
  IF StartsWith(nc, active, text)
  THEN LiteralHit(cx, Beginning(active, Len(text)), Without(active, Len(text))) ELSE Miss(cx)

\* The load has it the wrong way round: nc is the one that regards case.
Cmp_Contains(nc, text, active, cx) ==
  IF \E i \in 0 .. Len(active) - Len(text) : Same(~ nc, SubSeq(active, i + 1, i + Len(text)), text)
  THEN Hit([cx EXCEPT !.remainder = <<>>]) ELSE Miss(cx)

Cmp_TLD_NoDot(nc, text, active, cx) ==
  IF EndsIn(nc, active, text)
       /\ (Len(text) = Len(active) \/ active[Len(active) - Len(text)] = ".")
  THEN LiteralHit(cx, Ending(active, Len(text)), Beginning(active, Len(active) - Len(text) - 1)) ELSE Miss(cx)

\* The dot is in the capture.
Cmp_TLD(nc, text, active, cx) ==
  IF EndsIn(nc, active, text)
       /\ (Len(text) = Len(active) \/ active[Len(active) - Len(text)] = ".")
  THEN LET capture == Ending(active, Len(text) + 1)
       IN LiteralHit(cx, capture, Beginning(active, Len(active) - Len(capture)))
  ELSE Miss(cx)

\* Without regard to case the value keeps a slash at its end.
RTrimSlash(text) == Beginning(text, Max({0} \union {i \in DOMAIN text : text[i] # "/"}))

Cmp_Path(nc, text, active, cx) ==
  LET target == IF nc THEN text ELSE RTrimSlash(text)
  IN IF StartsWith(nc, active, target) /\ Without(active, Len(target)) \in {<<>>, <<"/">>}
     THEN LiteralHit(cx, active, <<>>) ELSE Miss(cx)

TextCmp(key, nc, text, active, cx) ==
  CASE key = "match" -> Cmp_Match(nc, text, active, cx)
    [] key = "suffix" -> Cmp_Suffix(nc, text, active, cx)
    [] key = "prefix" -> Cmp_Prefix(nc, text, active, cx)
    [] key = "contains" -> Cmp_Contains(nc, text, active, cx)
    [] key = "tld" -> Cmp_TLD(nc, text, active, cx)
    [] key = "path" -> Cmp_Path(nc, text, active, cx)

TextKeys == {"match", "suffix", "prefix", "contains", "tld", "path"}

\* One after the other, until one hits or until one misses.
OrElse(r, next) == IF r.hit THEN r ELSE next
AndThen(r, next) == IF r.hit THEN next ELSE r

\* A value that is a tuple: any of its texts.
Cmp_LiteralString(key, nc, value, f, cx) ==
  IF ~ Is(f, "STRING") THEN Miss(cx)
  ELSE Carry(LAMBDA r, g : OrElse(r, IF Is(g, "STRING") THEN TextCmp(key, nc, Val(g), Val(f), r.cx) ELSE Miss(r.cx)),
             Miss(cx), Items(value))

-----------------------------------------------------------------------------
(* Regular expressions: a pattern is an expression.  PCRE finds no match   *)
(* if there is no room.                                                    *)

RxpMatch(pattern, src, cx) ==
  Given(LAMBDA pairs :
          IF pairs # <<>> /\ Groups(pattern) <= cx.n
          THEN Hit([rxp_commit_match(cx, src, pairs) EXCEPT !.remainder = <<>>]) ELSE Miss(cx),
        Match(pattern, src))

-----------------------------------------------------------------------------
(* Comparisons that leave the context as it is.                            *)

Cmp_is_true(f) == as_bool(f)
Cmp_is_false(f) == ~ as_bool(f)
Cmp_is_null(f) == is_nil(f)
Cmp_is_empty(f) == is_empty(f) \/ f = Tup(<<>>)

Cmp_eq(f, value) == Equal(f, value)
Cmp_ne(f, value) == ~ Equal(f, value)
Cmp_lt(f, value) == Less(f, value)
Cmp_le(f, value) == LessEq(f, value)
Cmp_gt(f, value) == Less(value, f)
Cmp_ge(f, value) == LessEq(value, f)

Cmp_in(f, min, max) ==
  /\ Type(f) \in {"INTEGER", "IP_ADDR"}
  /\ Type(min) = Type(f) /\ Type(max) = Type(f)
  /\ Val(min) <= Val(f) /\ Val(f) <= Val(max)

\* What a comparison can be loaded for.
Active(base, tuple) == [base |-> base, tuple |-> tuple]

TypesOf(key) ==
  CASE key \in TextKeys \union {"rxp", "rxp-list"} -> Active({"STRING", "TUPLE"}, {"STRING"})
    [] key = "is-true" -> Active({"NIL", "STRING", "BOOLEAN", "INTEGER"}, {})
    [] key = "is-false" -> Active({"STRING", "BOOLEAN", "INTEGER"}, {})
    [] key = "is-null" -> Active({"NIL"}, {})
    [] key = "is-empty" -> Active({"NIL", "STRING", "TUPLE"}, {})
    [] key \in {"eq", "ne", "lt", "le", "gt", "ge"} -> Active({"INTEGER", "BOOLEAN", "IP_ADDR", "DURATION"}, {})
    [] key = "in" -> Active({"INTEGER", "IP_ADDR"}, {})
    [] OTHER -> Active(ValueType, {})
=============================================================================
