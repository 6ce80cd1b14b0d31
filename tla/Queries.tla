------------------------------- MODULE Queries -------------------------------
(***************************************************************************)
(* Query strings: elements separated by "&" or ";", each a name and maybe  *)
(* "=" and a value.  A name is one token.                                  *)
(* Source: query.cc, ts_util.cc.                                           *)
(***************************************************************************)
EXTENDS Features

Separators == {"&", ";"}

\* Where elements start, and where the one at position p ends.
Elements(q) == {p \in DOMAIN q : q[p] \notin Separators /\ (p = 1 \/ q[p - 1] \in Separators)}
EndOf(q, p) == Max({e \in p .. Len(q) : \A i \in p .. e : q[i] \notin Separators})

\* query_value_for finds the first element with the name; 0 if there is none.
FindName(q, name, nocase) ==
  LET found == {p \in Elements(q) : IF nocase THEN NoCase(q[p]) = NoCase(name) ELSE q[p] = name}
  IN IF found = {} THEN 0 ELSE Min(found)

HasEqual(q, p) == p < EndOf(q, p)
ValueAt(q, p) == SubSeq(q, p + 2, EndOf(q, p))

\* QueryValueExtractor: NIL also for a name alone.
query_value(q, name) ==
  LET p == FindName(q, name, TRUE)
  IN IF p = 0 THEN NIL_FEATURE ELSE IF HasEqual(q, p) THEN Str(ValueAt(q, p)) ELSE NIL_FEATURE

\* TextView::rtrim and ltrim of separators.
RTrim(q) == SubSeq(q, 1, Max({0} \union {i \in DOMAIN q : q[i] \notin Separators}))
LTrim(q) ==
  SubSeq(q, Min({Len(q) + 1} \union {i \in DOMAIN q : q[i] \notin Separators}), Len(q))

\* query_value_update of a name that is there, at position p, to a text or to NIL.
SetPair(q, p, value) ==
  SubSeq(q, 1, p)
    \o (IF (HasEqual(q, p) /\ ValueAt(q, p) = <<>>) \/ value # Str(<<>>)
        THEN <<"=">> \o Format(value) ELSE <<>>)
    \o SubSeq(q, EndOf(q, p) + 1, Len(q))

DropPair(q, p) ==
  LET prefix == RTrim(SubSeq(q, 1, p - 1))
      suffix == LTrim(SubSeq(q, EndOf(q, p) + 1, Len(q)))
  IN prefix \o (IF prefix # <<>> /\ suffix # <<>> THEN <<"&">> ELSE <<>>) \o suffix

query_value_update_First(q, name, value) ==
  LET p == FindName(q, name, FALSE)
  IN IF is_nil(value) THEN IF p = 0 THEN <<>> ELSE DropPair(q, p)
     ELSE IF q = <<>> THEN <<name, "=">> \o Format(value)
     ELSE IF p = 0 THEN q \o <<"&", name, "=">> \o Format(value)
     ELSE SetPair(q, p, value)

\* To remove a name that is not there leaves nothing of the query.
query_value_update(q, name, value) ==
  LET p == FindName(q, name, TRUE)
  IN IF is_nil(value) THEN IF p = 0 THEN <<>> ELSE DropPair(q, p)
     ELSE IF q = <<>> THEN <<name, "=">> \o Format(value)
     ELSE IF p = 0 THEN q \o <<"&", name, "=">> \o Format(value)
     ELSE SetPair(q, p, value)

-----------------------------------------------------------------------------
(* Queries taken apart: pairs, each with the separator before it ("NUL" if *)
(* there was none).                                                        *)

NUL == "NUL"
Pair(name, value, sep) == [name |-> name, value |-> value, sep |-> sep]

\* The elements in their order.
InOrder(q) == SelectSeq([p \in DOMAIN q |-> p], LAMBDA p : p \in Elements(q))

\* An element has an "=" when it is put together again.  Separators at the end are
\* one more pair, with nothing in it.
QPairs(q) ==
  LET Qpair(p) == Pair(<<q[p]>>, ValueAt(q, p), IF p = 1 THEN NUL ELSE q[p - 1])
      pairs == FoldLeft(LAMBDA taken, p : Append(taken, Qpair(p)), <<>>, InOrder(q))
  IN IF q # <<>> /\ q[Len(q)] \in Separators THEN Append(pairs, Pair(<<>>, <<>>, NUL)) ELSE pairs

\* The first pair has no separator, even if it was not the first before.
Together(pairs) ==
  FoldLeft(LAMBDA text, i : text \o (IF i = 1 THEN <<>> ELSE <<pairs[i].sep>>)
                              \o pairs[i].name \o <<"=">> \o pairs[i].value,
           <<>>, [i \in DOMAIN pairs |-> i])

RestOfQuery_WithLast(q, n) ==
  IF n > Len(InOrder(q)) THEN <<>> ELSE SubSeq(q, InOrder(q)[n], Len(q))

\* What is left of a query after its first n pairs.
RestOfQuery(q, n) ==
  IF n > Len(InOrder(q)) THEN <<>> ELSE SubSeq(q, EndOf(q, InOrder(q)[n]) + 1, Len(q))

\* The names in the order of their octets.
Letters == <<"", "A", "B", "K", "a", "b", "k", "m", "z">>
OrderOf(name, nocase) ==
  LET letter == IF name = <<>> THEN "" ELSE IF nocase THEN NoCase(name[1]) ELSE name[1]
  IN SelectInSeq(Letters, LAMBDA l : l = letter)

\* stable_sort, of the pairs of a query.
SortedPairs(pairs, nocase, reverse) ==
  LET order(i) == OrderOf(pairs[i].name, nocase) * (IF reverse THEN -1 ELSE 1)
      before(i, j) == order(i) < order(j) \/ (order(i) = order(j) /\ i < j)
  IN Given(LAMBDA sorted : [i \in DOMAIN pairs |-> pairs[sorted[i]]],
           SortSeq([i \in DOMAIN pairs |-> i], before))

query_sort(q, nocase, reverse) ==
  Given(LAMBDA pairs : Together(SortedPairs(pairs, nocase, reverse)), QPairs(q))
=============================================================================
