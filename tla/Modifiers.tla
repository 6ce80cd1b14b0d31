----------------------------- MODULE Modifiers -----------------------------
(***************************************************************************)
(* Modifiers: what each makes of the feature of an expression.             *)
(* Source: Modifier.cc, query.cc.                                          *)
(*                                                                         *)
(* A modifier is a record with its key and arguments; applied to a feature *)
(* in a context it gives a value and the context after it.  Those with     *)
(* expressions or comparisons as arguments are in Expressions.             *)
(***************************************************************************)
EXTENDS Comparisons, Queries

CONSTANT Hash(_)   \* std::hash of a text, a signed number

Ret(f, cx) == [val |-> f, cx |-> cx]
Fails(cx, how) == Ret(NO_VALUE, [cx EXCEPT !.how = how])

\* The remainder has the sign of the hash.
Bucket(hash, n) == IF hash >= 0 THEN hash % n ELSE -((-hash) % n)
Mod_hash(n, text, cx) == Ret(Num(Bucket(Hash(text), n)), cx)

-----------------------------------------------------------------------------
(* rxp-replace.                                                            *)

BeforeMatch_Through(src, match) == SubSeq(src, 1, match[2])
BeforeMatch(src, match) == SubSeq(src, 1, match[1])
AfterMatch(src, match) == SubSeq(src, match[2] + 1, Len(src))

-----------------------------------------------------------------------------
(* filter and query-filter: cases, each with a comparison and an action.   *)

DROP == [action |-> "drop"]

\* There is one separator less than pairs, also if there are no pairs.
Mod_query_sort(m, text, cx) ==
  IF text = <<>> THEN Fails(cx, "undefined") ELSE Ret(Str(query_sort(text, m.nc, m.reverse)), cx)

-----------------------------------------------------------------------------
(* The others.                                                             *)

\* What is added: a text, or the second of two with the first between.
EndsWith(text, sep) == Len(sep) <= Len(text) /\ Ending(text, Len(sep)) = sep

Concat(text, g) ==
  CASE Is(g, "STRING") -> text \o Val(g)
    [] Is(g, "TUPLE") /\ Is(Val(g)[1], "STRING") /\ Is(Val(g)[2], "STRING") ->
         LET sep == Val(Val(g)[1])
             added == Val(Val(g)[2])
         IN IF added = <<>> THEN text
            ELSE text \o (IF text # <<>> /\ ~ EndsWith(text, sep) THEN sep ELSE <<>>) \o added
    [] OTHER -> text

Mod_as_bool(f, cx) == Ret(Bool(as_bool(f)), cx)

AddrOf(text) == Len(text) = 2 /\ text[1] = "@" /\ IsNumber(<<text[2]>>)

Mod_as_ip_addr(f, cx) ==
  Ret(CASE Is(f, "IP_ADDR") -> f
        [] Is(f, "STRING") /\ AddrOf(Val(f)) -> Addr(Numeral[Val(f)[2]])
        [] OTHER -> NIL_FEATURE, cx)

\* What is no duration is one of no time.
Mod_As_Duration(f, cx) == Ret(Time(as_duration(f, 0)), cx)

\* Percent encoding of the tokens that an URL cannot have in its parts.
PercentCode == ("&" :> "%26") @@ ("=" :> "%3D") @@ ("/" :> "%2F")
Encoded(token) == IF token \in DOMAIN PercentCode THEN PercentCode[token] ELSE token
Decoded(token) ==
  IF \E t \in DOMAIN PercentCode : PercentCode[t] = token
  THEN CHOOSE t \in DOMAIN PercentCode : PercentCode[t] = token ELSE token

Mod_url_encode(text, cx) == Ret(Str([i \in DOMAIN text |-> Encoded(text[i])]), cx)
Mod_url_decode(text, cx) == Ret(Str([i \in DOMAIN text |-> Decoded(text[i])]), cx)

=============================================================================
