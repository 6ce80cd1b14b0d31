------------------------------ MODULE MCSelect ------------------------------
(***************************************************************************)
(* Instances of Select for TLC: directives with one and two cases, nested  *)
(* ones, for-each, and modifiers; features of every type that matters.     *)
(***************************************************************************)
EXTENDS Select

MCNumber == 0 .. 9

\* Patterns: a token a or b; an a with a b after it in groups of their own; any number
\* of b; one with more groups than there is room for.
Class == <<"[ab]">>
Pairs == <<"(a)(b)?">>
Star == <<"b*">>
Wide == <<"((((((((a))))))))">>

At(text, S) == {i \in DOMAIN text : text[i] \in S}

First(text, S) == Min(At(text, S))
BEnd(text) == Min({i \in 0 .. Len(text) : i = Len(text) \/ text[i + 1] # "b"})
PairsMatch(text) ==
  Given(LAMBDA i : IF i < Len(text) /\ text[i + 1] = "b" THEN <<<<i - 1, i + 1>>, <<i - 1, i>>, <<i, i + 1>>>>
                   ELSE <<<<i - 1, i>>, <<i - 1, i>>, <<>>>>, First(text, {"a"}))

MCMatch(p, text) ==
  CASE p = Class /\ At(text, {"a", "b"}) # {} -> Given(LAMBDA i : <<<<i - 1, i>>>>, First(text, {"a", "b"}))
    [] p = Pairs /\ At(text, {"a"}) # {} -> PairsMatch(text)
    [] p = Star -> <<<<0, BEnd(text)>>>>
    [] p = Wide /\ At(text, {"a"}) # {} -> Given(LAMBDA i : [g \in 1 .. 9 |-> <<i - 1, i>>], First(text, {"a"}))
    [] OTHER -> <<>>

MCGroups(p) == CASE p = Class \/ p = Star -> 1 [] p = Pairs -> 3 [] p = Wide -> 9 [] OTHER -> 0
MCHash(text) == Len(text) - 2
MCLiteralPatterns == {Class, Pairs, Star}

\* Expressions.
Lit(f) == [kind |-> "lit", value |-> f, of |-> <<>>, mods |-> <<>>]
Act(mods) == [kind |-> "active", of |-> <<>>, mods |-> mods]
Var(name) == [kind |-> "var", name |-> name, of |-> <<>>, mods |-> <<>>]
Group(i) == [kind |-> "group", index |-> i]
TextFrom(parts) == [kind |-> "text", of |-> parts, mods |-> <<>>]
ListOf(es) == [kind |-> "list", of |-> es, mods |-> <<>>]
Part(kind) == [kind |-> kind]

\* What a case uses: the groups, what is unmatched and the feature.
Seen == TextFrom(<<Group(0), Part("unmatched"), Part("active"), Group(2)>>)
Use(name) == [do |-> "use", name |-> name, expr |-> Seen]
UseActive(name) == [do |-> "use", name |-> name, expr |-> Act(<<>>)]
SetVar(name, e) == [do |-> "var", name |-> name, expr |-> e]
With(e, each, body, cases, continue) ==
  [do |-> "with", expr |-> e, each |-> each, body |-> body, cases |-> cases, continue |-> continue]
Case(cmp, body) == [cmp |-> cmp, body |-> body]

\* Comparisons.
Txt(key, text) == [key |-> key, nc |-> FALSE, arg |-> Lit(Str(text))]
TxtNc(key, text) == [key |-> key, nc |-> TRUE, arg |-> Lit(Str(text))]
RxpOf(p) == [key |-> "rxp", arg |-> Lit(Str(p))]
RxpVar == [key |-> "rxp", arg |-> TextFrom(<<[kind |-> "lit", value |-> Str(Wide)]>>)]
Plain(key) == [key |-> key]
Binary(key, n) == [key |-> key, arg |-> Lit(Num(n))]
Combo(key, cs) == [key |-> key, of |-> cs]
InRange == [key |-> "in", min |-> Lit(Num(1)), max |-> Lit(Num(2))]

Cmps ==
  {Txt("match", <<"a", ".", "b">>), TxtNc("match", <<"A", ".", "B">>), Txt("prefix", <<"a">>), TxtNc("prefix", <<"A">>),
   Txt("suffix", <<"b">>), TxtNc("suffix", <<"B">>), Txt("tld", <<"b">>), TxtNc("tld", <<"B">>), Txt("contains", <<".">>),
   Txt("path", <<"a", "/">>), TxtNc("path", <<"A">>),
   [key |-> "suffix", nc |-> FALSE, arg |-> Lit(Tup(<<Str(<<"m">>), Str(<<"b">>)>>))],
   RxpOf(Pairs), RxpVar, [key |-> "rxp-list", of |-> <<Lit(Str(Class)), Lit(Str(Star))>>],
   Plain("is-true"), Plain("is-false"), Plain("is-null"), Plain("is-empty"), Plain("otherwise"), Plain("none"),
   InRange}
  \union {Binary(key, 1) : key \in BinaryKeys}
  \union {Combo(key, <<Txt("prefix", <<"a">>), Txt("tld", <<"b">>)>>) : key \in {"any-of", "all-of", "none-of", "as-tuple"}}
  \union {Combo(key, <<Txt("suffix", <<"b">>)>>) : key \in {"for-all", "for-any", "for-none"}}

\* Two cases and what follows.
CasePrograms ==
  {<<With(Act(<<>>), FALSE, <<>>, <<Case(c, <<Use("one")>>), Case(d, <<Use("two")>>)>>, continue), Use("after")>> :
     c \in Cmps, d \in {Txt("suffix", <<"b">>), RxpOf(Class), Plain("otherwise")}, continue \in BOOLEAN}

\* One "with" in another, in its case or in what is done first.
Inner(continue) ==
  With(Lit(Str(<<"b", "k">>)), FALSE, <<>>, <<Case(Txt("prefix", <<"b">>), <<UseActive("in")>>)>>, continue)
NestedPrograms ==
  {<<With(Act(<<>>), FALSE, body, <<Case(Txt("prefix", <<"a">>), <<Inner(c), UseActive("case")>>)>>, d), UseActive("after")>> :
     body \in {<<>>, <<Inner(TRUE), UseActive("do")>>, <<Inner(FALSE), UseActive("do")>>}, c \in BOOLEAN, d \in BOOLEAN}

\* For each element, with a variable that changes what the cases are for.
EachPrograms ==
  {<<SetVar("v", e), With(Var("v"), TRUE, body, cases, FALSE), UseActive("after")>> :
     e \in {Lit(NIL_FEATURE), Lit(Tup(<<Num(1), Num(2), Str(<<"a">>)>>)), ListOf(<<Act(<<>>), TextFrom(<<Part("active")>>)>>),
            Lit(Tup(<<>>)), Lit(Num(1)), Lit(Str(<<"a">>))},
     body \in {<<UseActive("each"), SetVar("v", Act(<<>>)), Inner(FALSE), UseActive("never")>>, <<UseActive("each")>>},
     cases \in {<<>>, <<Case(Plain("none"), <<UseActive("case")>>)>>}}

\* Modifiers.
Replace(p, global, text) == [key |-> "rxp-replace", pattern |-> Lit(Str(p)), global |-> global, arg |-> text]
Drop(cmp) == [cmp |-> cmp, valueCmp |-> Plain("none"), action |-> "drop", rest |-> "none"]
Pass(cmp, rest) == [cmp |-> cmp, valueCmp |-> Plain("none"), action |-> "pass", rest |-> rest]
ReplacePair(cmp) ==
  [cmp |-> cmp, valueCmp |-> Plain("none"), action |-> "replace", rest |-> "none", arg |-> Lit(NIL_FEATURE),
   valueArg |-> TextFrom(<<Part("name"), Part("value")>>)]
Filter(cases) == [key |-> "filter", cases |-> cases]
QueryFilter(cases) == [key |-> "query-filter", cases |-> cases]
WithArg(key, e) == [key |-> key, arg |-> e]

Mods ==
  {Replace(p, g, Lit(Str(<<"k">>))) : p \in {Class, Pairs, Star}, g \in BOOLEAN}
  \union {Replace(Pairs, TRUE, TextFrom(<<Group(2), Group(1)>>))}
  \union {[key |-> "hash", n |-> 3], WithArg("else", Lit(Str(<<"m">>))), WithArg("join", Lit(Str(<<"m">>))),
          WithArg("concat", Lit(Str(<<"m">>))), WithArg("concat", Lit(Tup(<<Str(<<"b">>), Str(<<"m">>)>>))),
          WithArg("as-integer", Lit(Num(7))), Plain("as-bool"), Plain("as-duration"), Plain("as-ip-addr"),
          Plain("url-encode"), Plain("url-decode"),
          Filter(<<[cmp |-> Txt("prefix", <<"a">>), action |-> "drop"], [cmp |-> Binary("gt", 1), action |-> "replace", arg |-> Act(<<>>)],
                   [cmp |-> Plain("none"), action |-> "pass"]>>)}
  \union {QueryFilter(<<Drop(Txt("match", <<"a">>)), Pass(Txt("match", <<"b">>), rest), Pass(Plain("none"), "none")>>) :
            rest \in {"none", "pass", "drop"}}
  \union {QueryFilter(<<ReplacePair(Txt("match", <<"a">>)), Pass(Plain("none"), "none")>>),
          QueryFilter(<<Drop(Txt("match", <<"a">>))>>)}
  \union {[key |-> "query-sort", nc |-> nc, reverse |-> reverse] : nc \in BOOLEAN, reverse \in BOOLEAN}

ModPrograms ==
  {<<With(Act(<<m>>), FALSE, <<UseActive("do")>>, <<Case(Plain("none"), <<UseActive("case")>>)>>, FALSE), UseActive("after")>> : m \in Mods}
    \union {<<With(Act(<<m, WithArg("join", Lit(Str(<<"b">>)))>>), FALSE, <<UseActive("do")>>, <<>>, FALSE)>> : m \in Mods}

MCPrograms == CasePrograms \union NestedPrograms \union EachPrograms \union ModPrograms

\* The directives of the programs, those in them and those in these.
InLists(lists) == UNION {{ds[i] : i \in DOMAIN ds} : ds \in lists}
Inside(ds) ==
  InLists(UNION {{d.body} \union {d.cases[k].body : k \in DOMAIN d.cases} : d \in {e \in ds : e.do = "with"}})
MCDirective ==
  LET tops == InLists(MCPrograms) IN tops \union Inside(tops) \union Inside(Inside(tops))

MCActives ==
  {NIL_FEATURE, Bool(TRUE), Num(1), Num(3), Str(<<>>), Str(<<"a">>), Str(<<"a", ".", "b">>), Str(<<"A", ".", "B">>),
   Str(<<"a", "/">>), Str(<<"a", "b", "k", "a">>), Str(<<"3">>), Str(<<"@", "3">>),
   Str(<<"b", "=", "1", "&", "a", "&", "k", "=", "2">>), Str(<<"a", "=", "1", ";", "b", "=", "&", "B">>), Str(<<"k", "&">>),
   Tup(<<Str(<<"a", ".", "b">>), Str(<<"b">>)>>), Tup(<<Num(2), Str(<<"a">>), Num(1)>>), Tup(<<>>), Addr(1), Time(2)}

ASSUME KeepActive(MCActives, {FirstContext(f) : f \in MCActives})
=============================================================================
