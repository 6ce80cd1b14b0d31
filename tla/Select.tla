------------------------------- MODULE Select -------------------------------
(***************************************************************************)
(* The directive "with" of With on the expressions and comparisons of a    *)
(* configuration: what is loaded, the context a hook starts with, and what *)
(* comparisons, modifiers and filters leave behind.                        *)
(* Source: Machinery.cc, Context.cc.                                       *)
(***************************************************************************)
EXTENDS Loading, With

CONSTANT LiteralPatterns   \* the patterns that are literals in the configuration

-----------------------------------------------------------------------------
(* Loading and the context at the start.                                   *)

\* Do_with::load: the cases are loaded for the type of the feature; what is in "do"
\* and in for-each too.
RECURSIVE LoadsAll(_, _)
LoadsAll(ds, active) ==
  \A i \in DOMAIN ds :
    LET d == ds[i]
        type == ExprType(d.expr, active)
    IN /\ LoadsExpr(d.expr, active)
       /\ d.do = "with" => /\ LoadsAll(d.body, type)
                           /\ \A k \in DOMAIN d.cases : /\ LoadsCmp(d.cases[k].cmp, type)
                                                        /\ LoadsAll(d.cases[k].body, type)

\* The directives may be in another "with": what they see first is of any type.
LoadsForAny(ds) == LoadsAll(ds, AnyType)

MaxOf(S) == CHOOSE n \in S : \A m \in S : m <= n
NoContext ==
  [vars |-> <<>>, active |-> NIL_FEATURE, src |-> <<>>, ovec |-> <<>>, n |-> 0, remainder |-> <<>>,
   pair |-> <<>>, how |-> "ok"]

\* Context::Context makes room for the groups of the literal patterns.
FirstContext(f) ==
  [rxp_match_require(NoContext, MaxOf({1} \union {Groups(p) : p \in LiteralPatterns})) EXCEPT !.active = f]

-----------------------------------------------------------------------------
(* Properties.                                                             *)

\* What a "with" has as its feature, and what the expression had before the modifier.
Modified(key, frame) ==
  /\ frame.kind = "with" /\ frame.phase # "each"
  /\ frame.d.expr.kind = "active" /\ Len(frame.d.expr.mods) = 1
  /\ frame.d.expr.mods[1].key = key
  /\ Is(frame.save, "STRING")

\* Whether a pattern matches at a place of a text, if its matches there are one token.
OneToken(p, text) ==
  \A i \in DOMAIN text : LET m == Match(p, Without(text, i - 1)) IN m # <<>> => m[1][2] = m[1][1] + 1
MatchesAt(p, text, i) ==
  LET m == Match(p, Without(text, i - 1)) IN m # <<>> /\ m[1][1] = 0

\* rxp-replace<g> puts the replacement in the place of every match and keeps the rest as
\* it is; without "g" only the first match is replaced.
EveryMatchReplaced ==
  \A i \in DOMAIN stack : Modified("rxp-replace", stack[i]) =>
    LET m == stack[i].d.expr.mods[1]
        text == Val(stack[i].save)
        p == Val(m.pattern.value)
        replaced == {k \in DOMAIN text : /\ MatchesAt(p, text, k)
                                         /\ m.global \/ \A j \in 1 .. k - 1 : ~ MatchesAt(p, text, j)}
    IN OneToken(p, text) /\ m.arg.kind = "lit" =>
         Val(stack[i].feature) =
           FoldLeft(LAMBDA out, k : out \o (IF k \in replaced THEN Val(m.arg.value) ELSE <<text[k]>>),
                    <<>>, [k \in DOMAIN text |-> k])

\* The pairs that a query-filter passes, one by one or as the rest, by the case for each.
PassedBy(cases, pairs) ==
  LET rest == {k \in DOMAIN cases : cases[k].rest # "none"}
      first_rest == {j \in rest : \A h \in rest : j <= h}
      passes(k) == IF \E j \in rest : j < k THEN \E j \in first_rest : cases[j].rest = "pass"
                   ELSE cases[k].action = "pass"
  IN SelectSeq([k \in DOMAIN pairs |-> [pair |-> pairs[k], passed |-> passes(k)]], LAMBDA p : p.passed)

Passed(m, pairs, c) ==
  Given(LAMBDA cases : PassedBy(cases, pairs), [k \in DOMAIN pairs |-> CaseForPair(m.cases, pairs[k], c).case])

NamesAndValues(pairs) == [k \in DOMAIN pairs |-> <<pairs[k].name, pairs[k].value>>]

\* A query-filter that only drops and passes leaves exactly the elements of the query
\* that it passes, in their order, whichever of them goes first now.  (A query with a
\* separator at its end gets one more element.)
FilterKeeps ==
  \A i \in DOMAIN stack :
    /\ Modified("query-filter", stack[i])
    /\ Val(stack[i].save) # <<>> /\ Val(stack[i].save)[Len(Val(stack[i].save))] \notin Separators
    /\ \A k \in DOMAIN stack[i].d.expr.mods[1].cases : stack[i].d.expr.mods[1].cases[k].action # "replace"
    /\ cx.how = "ok"
    => LET passed == Passed(stack[i].d.expr.mods[1], QPairs(Val(stack[i].save)), cx)
       IN NamesAndValues(QPairs(Val(stack[i].feature))) =
            [k \in DOMAIN passed |-> <<passed[k].pair.name, passed[k].pair.value>>]
=============================================================================
