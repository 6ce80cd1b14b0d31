---------------------------- MODULE Expressions ----------------------------
(***************************************************************************)
(* Feature expressions and comparisons as a configuration has them, and    *)
(* what they give, with the modifiers and comparisons that have            *)
(* expressions in them.                                                    *)
(* Source: Context.cc, Ex_Base.cc, Comparison.cc, Modifier.cc, query.cc.   *)
(*                                                                         *)
(* An expression is a record with its kind and its modifiers, in order;    *)
(* the kind "text" is made of parts, "list" of expressions.  A comparison  *)
(* has a key and what it compares with; "none" is the one that is absent.  *)
(***************************************************************************)
EXTENDS Modifiers

-----------------------------------------------------------------------------
(* Direct extractors, and expressions in terms of the others.              *)

\* A direct extractor, or a group of the active capture.
Direct(e, cx) ==
  CASE e.kind = "lit" -> e.value
    [] e.kind = "active" -> cx.active
    [] e.kind = "unmatched" -> Str(cx.remainder)
    [] e.kind = "var" -> IF e.name \in DOMAIN cx.vars THEN cx.vars[e.name] ELSE NIL_FEATURE
    [] e.kind = "group" -> Str(active_group(cx, e.index))
    [] e.kind = "name" -> Str(cx.pair[1].name)
    [] e.kind = "value" -> Str(cx.pair[1].value)

Composite(parts, cx) == Carry(LAMBDA text, part : text \o Format(Direct(part, cx)), <<>>, parts)

\* There is no pair before the first of a query.
NoPair(e, cx) ==
  /\ cx.pair = <<>>
  /\ e.kind \in {"name", "value"} \/ (e.kind = "text" /\ \E i \in DOMAIN e.of : e.of[i].kind \in {"name", "value"})

\* Expressions have comparisons in their modifiers, and comparisons have expressions:
\* both are one recursive operator, and these are its two uses.
RECURSIVE Value(_, _, _, _)
Extract(e, cx) == Value("extract", e, NIL_FEATURE, cx)
Compare(c, f, cx) == Value("compare", c, f, cx)

-----------------------------------------------------------------------------
(* Regular expressions.                                                    *)

\* A literal pattern was counted when the configuration was loaded; another makes its
\* room when it is used, and its modifiers are not applied.
Rxp(pattern, src, cx) ==
  IF pattern.kind = "lit" THEN RxpMatch(Val(pattern.value), src, cx)
  ELSE LET e == Extract([pattern EXCEPT !.mods = <<>>], cx)
       IN IF ~ Is(e.val, "STRING") THEN Miss(e.cx)
          ELSE RxpMatch(Val(e.val), src, rxp_match_require(e.cx, Groups(Val(e.val))))

Cmp_RxpSingle(pattern, f, cx) == IF Is(f, "STRING") THEN Rxp(pattern, Val(f), cx) ELSE Miss(cx)

\* The patterns of a list are matched with an empty text, not the feature.
Cmp_RxpList(patterns, f, cx) ==
  IF Is(f, "STRING") THEN Carry(LAMBDA r, pattern : OrElse(r, Rxp(pattern, <<>>, r.cx)), Miss(cx), patterns)
  ELSE Miss(cx)

-----------------------------------------------------------------------------
(* Modifiers with arguments.                                               *)

\* The text before the match and the replacement are put out, the text after it is left.
ReplaceMatch(s, match, e, global) ==
  [out |-> s.out \o BeforeMatch(s.src, match) \o (IF Is(e.val, "STRING") THEN Val(e.val) ELSE <<>>),
   src |-> AfterMatch(s.src, match), cx |-> e.cx, more |-> global]

ReplaceOne(m, s) ==
  Given(LAMBDA r :
          IF r.hit THEN Given(LAMBDA e : ReplaceMatch(s, r.cx.ovec[1], e, m.global), Extract(m.arg, r.cx))
          ELSE [s EXCEPT !.cx = r.cx, !.more = FALSE],
        IF s.src = <<>> THEN Miss(s.cx) ELSE Rxp(m.pattern, s.src, s.cx))

\* Matches that are not empty use up the text; one that is empty is found again.
Mod_rxp_replace(m, text, cx) ==
  Given(LAMBDA s :
          IF s.more /\ s.src # <<>> THEN Fails(s.cx, "hung") ELSE Ret(Str(s.out \o s.src), s.cx),
        Carry(LAMBDA t, i : IF t.more THEN ReplaceOne(m, t) ELSE t,
              [out |-> <<>>, src |-> text, cx |-> cx, more |-> TRUE], [i \in 1 .. Len(text) + 1 |-> i]))

\* The first case that compares, and none is to drop.
NoCaseYet(cx) == [hit |-> FALSE, cx |-> cx, case |-> DROP]
TryCase(r, c, h) == IF h.hit THEN [hit |-> TRUE, cx |-> h.cx, case |-> c] ELSE [r EXCEPT !.cx = h.cx]

CaseForFeature(cases, f, cx) ==
  Carry(LAMBDA r, c : OrElse(r, Given(LAMBDA h : TryCase(r, c, h), Compare(c.cmp, f, r.cx))), NoCaseYet(cx), cases)

\* What an action leaves of a feature: nothing, or one.
FilterAction(c, f, cx) ==
  CASE c.action = "drop" -> Ret(<<>>, cx)
    [] c.action = "pass" -> Ret(<<f>>, cx)
    [] c.action = "replace" -> Given(LAMBDA e : Ret(<<e.val>>, e.cx), Extract(c.arg, cx))

FilterOne(m, f, cx) ==
  Given(LAMBDA r : FilterAction(r.case, f, r.cx), CaseForFeature(m.cases, f, cx))

FilterEach(m, fs, cx) ==
  Carry(LAMBDA r, f : Given(LAMBDA e : Ret(r.val \o e.val, e.cx), FilterOne(m, f, r.cx)), Ret(<<>>, cx), fs)

\* Of a tuple the elements that are not dropped; if it has none, what is past its
\* end is read.
Mod_filter(m, f, cx) ==
  CASE ~ Is(f, "TUPLE") ->
         Given(LAMBDA r : Ret(IF r.val = <<>> THEN NIL_FEATURE ELSE r.val[1], r.cx), FilterOne(m, f, cx))
    [] f = Tup(<<>>) -> Fails(cx, "undefined")
    [] OTHER -> Given(LAMBDA r : Ret(Tup(r.val), r.cx), FilterEach(m, Val(f), cx))

\* A comparison of a query-filter sees the pair before in "name" and "value", a
\* replacement the one it replaces.
PairHits(c, pair, cx) ==
  Given(LAMBDA r : IF r.hit THEN Compare(c.valueCmp, Str(pair.value), r.cx) ELSE r,
        Compare(c.cmp, Str(pair.name), cx))

OrAsItWas(e, text) == IF is_nil(e.val) THEN text ELSE Format(e.val)

EvalPair(c, pair, cx) ==
  LET name == Extract(c.arg, cx)
      value == Extract(c.valueArg, name.cx)
  IN [cx |-> value.cx,
      pair |-> [pair EXCEPT !.name = OrAsItWas(name, @), !.value = OrAsItWas(value, @)]]

CaseForPair(cases, pair, cx) ==
  Carry(LAMBDA r, c : OrElse(r, Given(LAMBDA h : TryCase(r, c, h), PairHits(c, pair, r.cx))), NoCaseYet(cx), cases)

\* The rest is passed or dropped after a case that says so; this is asked of the case
\* that compares, also if there is none.
FilterAs(pair, s, r) ==
  LET here == [r.cx EXCEPT !.pair = <<pair>>]
      took(cx, pairs) == [cx |-> cx, out |-> s.out \o pairs, taken |-> s.taken + 1, rest |-> r.case.rest]
  IN CASE ~ r.hit -> [s EXCEPT !.cx = [here EXCEPT !.how = "undefined"], !.rest = "fail"]
       [] r.hit /\ r.case.action = "drop" -> took(here, <<>>)
       [] r.hit /\ r.case.action = "pass" -> took(here, <<pair>>)
       [] r.hit /\ r.case.action = "replace" ->
            Given(LAMBDA e : took(e.cx, <<e.pair>>), EvalPair(r.case, pair, here))

FilterPair(m, pair, s) == Given(LAMBDA r : FilterAs(pair, s, r), CaseForPair(m.cases, pair, s.cx))

FilterPairs(m, pairs, cx) ==
  Carry(LAMBDA s, pair : IF s.rest = "none" THEN FilterPair(m, pair, s) ELSE s,
        [cx |-> cx, out |-> <<>>, taken |-> 0, rest |-> "none"], pairs)

Mod_query_filter(m, text, cx) ==
  Given(LAMBDA s :
          IF s.rest = "fail" THEN Fails(s.cx, "undefined")
          ELSE Ret(Str(Together(s.out) \o (IF s.rest = "pass" THEN RestOfQuery(text, s.taken) ELSE <<>>)), s.cx),
        Given(LAMBDA pairs : FilterPairs(m, pairs, cx), QPairs(text)))

Mod_else(m, f, cx) == IF is_empty(f) THEN Extract(m.arg, cx) ELSE Ret(f, cx)

Mod_join(m, f, cx) ==
  LET e == Extract(m.arg, cx)
  IN Ret(Str(join(f, IF Is(e.val, "STRING") THEN Val(e.val) ELSE <<>>)), e.cx)

Mod_concat(m, f, cx) ==
  IF Type(f) \notin {"STRING", "NIL"} THEN Ret(f, cx)
  ELSE LET e == Extract(m.arg, cx)
           text == IF is_nil(f) THEN <<>> ELSE Val(f)
       IN IF Is(e.val, "TUPLE") /\ Len(Val(e.val)) < 2 THEN Fails(e.cx, "undefined")
          ELSE Ret(Str(Concat(text, e.val)), e.cx)

\* The value that is configured for what is no number is extracted, and not used.
Mod_as_integer(m, f, cx) ==
  IF CanBeInteger(f) THEN Ret(Num(as_integer(f, 0)), cx) ELSE Ret(f, Extract(m.arg, cx).cx)

\* A modifier of texts only makes NIL of NIL and of an address, and nothing of the rest.
TextMods == {"hash", "rxp-replace", "query-filter", "query-sort", "url-encode", "url-decode"}

ModifyText(m, text, cx) ==
  CASE m.key = "hash" -> Mod_hash(m.n, text, cx)
    [] m.key = "rxp-replace" -> Mod_rxp_replace(m, text, cx)
    [] m.key = "query-filter" -> Mod_query_filter(m, text, cx)
    [] m.key = "query-sort" -> Mod_query_sort(m, text, cx)
    [] m.key = "url-encode" -> Mod_url_encode(text, cx)
    [] m.key = "url-decode" -> Mod_url_decode(text, cx)

Modify(m, f, cx) ==
  CASE m.key \in TextMods ->
         (CASE Is(f, "STRING") -> ModifyText(m, Val(f), cx)
            [] Type(f) \in {"NIL", "IP_ADDR"} -> Ret(NIL_FEATURE, cx)
            [] OTHER -> Ret(NO_VALUE, cx))
    [] m.key = "filter" -> Mod_filter(m, f, cx)
    [] m.key = "else" -> Mod_else(m, f, cx)
    [] m.key = "join" -> Mod_join(m, f, cx)
    [] m.key = "concat" -> Mod_concat(m, f, cx)
    [] m.key = "as-bool" -> Mod_as_bool(f, cx)
    [] m.key = "as-integer" -> Mod_as_integer(m, f, cx)
    [] m.key = "as-ip-addr" -> Mod_as_ip_addr(f, cx)
    [] m.key = "as-duration" -> Mod_As_Duration(f, cx)

\* Context::extract: the value, then the modifiers.
Extracted(e, cx) ==
  LET add(r, item) == LET v == Extract(item, r.cx) IN Ret(Append(r.val, v.val), v.cx)
      list == Carry(add, Ret(<<>>, cx), e.of)
      raw == CASE NoPair(e, cx) -> Fails(cx, "undefined")
               [] e.kind = "text" -> Ret(Str(Composite(e.of, cx)), cx)
               [] e.kind = "list" -> Ret(Tup(list.val), list.cx)
               [] OTHER -> Ret(Direct(e, cx), cx)
  IN Carry(LAMBDA r, m : Modify(m, r.val, r.cx), raw, e.mods)

-----------------------------------------------------------------------------
(* Comparisons.                                                            *)

BinaryKeys == {"eq", "ne", "lt", "le", "gt", "ge"}

\* Those that look at a feature and an extracted value, and change no captures.
BinaryHit(key, f, value) ==
  CASE key = "eq" -> Cmp_eq(f, value)
    [] key = "ne" -> Cmp_ne(f, value)
    [] key = "lt" -> Cmp_lt(f, value)
    [] key = "le" -> Cmp_le(f, value)
    [] key = "gt" -> Cmp_gt(f, value)
    [] key = "ge" -> Cmp_ge(f, value)

If(test, cx) == IF test THEN Hit(cx) ELSE Miss(cx)

\* A comparison of the elements.
Cmp_any_of(of, f, cx) == Carry(LAMBDA r, c : OrElse(r, Compare(c, f, r.cx)), Miss(cx), of)
Cmp_all_of(of, f, cx) == Carry(LAMBDA r, c : AndThen(r, Compare(c, f, r.cx)), Hit(cx), of)
Cmp_none_of(of, f, cx) == LET r == Cmp_any_of(of, f, cx) IN [r EXCEPT !.hit = ~ @]
Cmp_for_all(c, f, cx) == Carry(LAMBDA r, g : AndThen(r, Compare(c, g, r.cx)), Hit(cx), Items(f))
Cmp_for_any(c, f, cx) == Carry(LAMBDA r, g : OrElse(r, Compare(c, g, r.cx)), Miss(cx), Items(f))
\* It asks the same as for-all.
Cmp_for_none(c, f, cx) == Cmp_for_all(c, f, cx)

\* Elements and comparisons in pairs, as far as there are both.
Cmp_as_tuple(of, f, cx) ==
  LET n == IF Len(of) < Len(Items(f)) THEN Len(of) ELSE Len(Items(f))
  IN Carry(LAMBDA r, i : AndThen(r, Compare(of[i], Items(f)[i], r.cx)), Hit(cx), [i \in 1 .. n |-> i])

Compared(c, f, cx) ==
  CASE c.key \in {"none", "otherwise"} -> Hit(cx)
    [] c.key \in TextKeys ->
         IF ~ Is(f, "STRING") THEN Miss(cx)
         ELSE LET e == Extract(c.arg, cx) IN Cmp_LiteralString(c.key, c.nc, e.val, f, e.cx)
    [] c.key = "rxp" -> Cmp_RxpSingle(c.arg, f, cx)
    [] c.key = "rxp-list" -> Cmp_RxpList(c.of, f, cx)
    [] c.key = "is-true" -> If(Cmp_is_true(f), cx)
    [] c.key = "is-false" -> If(Cmp_is_false(f), cx)
    [] c.key = "is-null" -> If(Cmp_is_null(f), cx)
    [] c.key = "is-empty" -> If(Cmp_is_empty(f), cx)
    [] c.key \in BinaryKeys ->
         LET e == Extract(c.arg, cx) IN If(BinaryHit(c.key, f, e.val), e.cx)
    [] c.key = "in" ->
         IF Type(f) \notin {"INTEGER", "IP_ADDR"} THEN Miss(cx)
         ELSE LET min == Extract(c.min, cx)
                  max == Extract(c.max, min.cx)
              IN If(Cmp_in(f, min.val, max.val), max.cx)
    [] c.key = "any-of" -> Cmp_any_of(c.of, f, cx)
    [] c.key = "all-of" -> Cmp_all_of(c.of, f, cx)
    [] c.key = "none-of" -> Cmp_none_of(c.of, f, cx)
    [] c.key = "for-all" -> Cmp_for_all(c.of[1], f, cx)
    [] c.key = "for-any" -> Cmp_for_any(c.of[1], f, cx)
    [] c.key = "for-none" -> Cmp_for_none(c.of[1], f, cx)
    [] c.key = "as-tuple" -> Cmp_as_tuple(c.of, f, cx)

Value(of, x, f, cx) == IF of = "extract" THEN Extracted(x, cx) ELSE Compared(x, f, cx)
=============================================================================
