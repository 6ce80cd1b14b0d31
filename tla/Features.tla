------------------------------ MODULE Features ------------------------------
(***************************************************************************)
(* The values that expressions have, and their conversions.                *)
(* Source: common.h, util.cc.                                              *)
(*                                                                         *)
(* A feature is a pair of its type and its value.  A text is a sequence of *)
(* tokens, which are strings; "a:80" is <<"a", ":", "80">>.  The types     *)
(* FLOAT, TIMEPOINT, CONS and GENERIC are left out, and a duration is a    *)
(* number of seconds, as its text has it.                                  *)
(***************************************************************************)
EXTENDS Integers, Sequences, FiniteSets, SequencesExt, TLC

CONSTANT Number      \* bound: the numbers that a text can have digits of

ASSUME NumberAssumption == Number \subseteq Nat

\* The provers know of no literal that it is a string; so the tokens that are written in
\* these modules, which are strings, are named once more.
Token ==
  STRING \union
    {"", "true", "false", "NULL", "!NO_VALUE", "@", "s", ",", "[", "]", ":", "/", "://", "?", "#", "&", "=",
     "Host", "Location", "Content-Type", "text/html", "standard"}

Text == Seq(Token)

\* What op makes of a value, and a fold of a sequence from the left.  The value is bound
\* by a set: TLC would work out an operator's argument again wherever it is used.
Given(op(_), value) == CHOOSE r \in {op(v) : v \in {value}} : TRUE

Carry(op(_, _), base, seq) ==
  LET after[i \in 0 .. Len(seq)] == IF i = 0 THEN base ELSE Given(LAMBDA v : op(v, seq[i]), after[i - 1])
  IN after[Len(seq)]

ValueType == {"NO_VALUE", "NIL", "STRING", "INTEGER", "BOOLEAN", "IP_ADDR", "DURATION", "TUPLE"}

NO_VALUE == <<"NO_VALUE">>
NIL_FEATURE == <<"NIL">>
Str(text) == <<"STRING", text>>
Num(n) == <<"INTEGER", n>>
Bool(b) == <<"BOOLEAN", b>>
Addr(a) == <<"IP_ADDR", a>>
Time(s) == <<"DURATION", s>>
Tup(fs) == <<"TUPLE", fs>>

Type(f) == f[1]
Val(f) == f[2]
Is(f, type) == Type(f) = type

\* What is no tuple is its own element.
Items(f) == IF Is(f, "TUPLE") THEN Val(f) ELSE <<f>>

is_nil(f) == Is(f, "NIL")
is_empty(f) == is_nil(f) \/ f = Str(<<>>)

\* A number as a text, and back.  That ToString gives a string is in its definition here.
Digit(n) == IF ToString(n) \in Token THEN ToString(n) ELSE ""
Digits(n) == <<Digit(n)>>
Numeral == [s \in {Digit(n) : n \in Number} |-> CHOOSE n \in Number : Digit(n) = s]
IsNumber(text) == Len(text) = 1 /\ text[1] \in DOMAIN Numeral

\* Letters without regard to case.
Lower == [A |-> "a", B |-> "b", K |-> "k"]
NoCase(token) == IF token \in DOMAIN Lower THEN Lower[token] ELSE token
SameNoCase(a, b) == Len(a) = Len(b) /\ \A i \in DOMAIN a : NoCase(a[i]) = NoCase(b[i])

as_bool(f) ==
  \/ f = Bool(TRUE) \/ f = Str(<<"true">>)
  \/ Type(f) \in {"INTEGER", "DURATION"} /\ Val(f) # 0
  \/ Is(f, "IP_ADDR")
  \/ Is(f, "TUPLE") /\ Val(f) # <<>>

\* as_integer fails on what has no integer, and then is the value given.
CanBeInteger(f) ==
  \/ Type(f) \in {"INTEGER", "BOOLEAN", "TUPLE"}
  \/ Is(f, "STRING") /\ (Val(f) = <<>> \/ IsNumber(Val(f)))

as_integer(f, invalid) ==
  CASE ~ CanBeInteger(f) -> invalid
    [] Is(f, "INTEGER") -> Val(f)
    [] Is(f, "BOOLEAN") -> IF Val(f) THEN 1 ELSE 0
    [] Is(f, "TUPLE") -> Len(Val(f))
    [] OTHER -> IF Val(f) = <<>> THEN 0 ELSE Numeral[Val(f)[1]]

\* A duration is written as counts, each with a unit.
Units == [s |-> 1, m |-> 60, h |-> 3600]

DurationParser(text) ==
  LET n == Len(text) \div 2
  IN IF /\ Len(text) = 2 * n
        /\ \A i \in 1 .. n : text[2 * i - 1] \in DOMAIN Numeral /\ text[2 * i] \in DOMAIN Units
     THEN <<FoldLeft(LAMBDA sum, i : sum + Numeral[text[2 * i - 1]] * Units[text[2 * i]],
                     0, [i \in 1 .. n |-> i])>>
     ELSE <<>>

\* The duration of one that is not a tuple, in a sequence, empty if there is none.
DurationOf(f) ==
  IF Is(f, "DURATION") THEN <<Val(f)>>
  ELSE IF Is(f, "STRING") THEN DurationParser(Val(f)) ELSE <<>>

CanBeDuration(f) ==
  IF Is(f, "TUPLE") THEN \A i \in DOMAIN Val(f) : DurationOf(Val(f)[i]) # <<>>
  ELSE DurationOf(f) # <<>>

as_duration(f, invalid) ==
  IF ~ CanBeDuration(f) THEN invalid
  ELSE IF Is(f, "TUPLE")
  THEN FoldLeft(LAMBDA sum, g : sum + DurationOf(g)[1], 0, Val(f))
  ELSE DurationOf(f)[1]

\* The order of features: texts and tuples are never equal, nor ordered.
Equal(f, g) ==
  /\ Type(f) = Type(g)
  /\ \/ Type(f) \in {"NO_VALUE", "NIL"}
     \/ Type(f) \in {"BOOLEAN", "INTEGER", "IP_ADDR", "DURATION"} /\ Val(f) = Val(g)

Rank(f) == IF Is(f, "BOOLEAN") THEN IF Val(f) THEN 1 ELSE 0 ELSE Val(f)

Ordered(f, g) == Type(f) = Type(g) /\ Type(f) \in {"BOOLEAN", "INTEGER", "IP_ADDR", "DURATION"}

Less(f, g) == Ordered(f, g) /\ Rank(f) < Rank(g)
LessEq(f, g) == (is_nil(f) /\ is_nil(g)) \/ (Ordered(f, g) /\ Rank(f) <= Rank(g))

\* The text of a feature that is no tuple.
BoolText(b) == IF b THEN <<"true">> ELSE <<"false">>

Scalar(f) ==
  CASE is_nil(f) -> <<"NULL">>
    [] Is(f, "STRING") -> Val(f)
    [] Is(f, "INTEGER") -> Digits(Val(f))
    [] Is(f, "BOOLEAN") -> BoolText(Val(f))
    [] Is(f, "IP_ADDR") -> <<"@">> \o Digits(Val(f))
    [] Is(f, "DURATION") -> IF Val(f) = 0 THEN <<>> ELSE Digits(Val(f)) \o <<"s">>
    [] Is(f, "NO_VALUE") -> <<"!NO_VALUE">>
    [] OTHER -> <<>>

\* bwformat of a feature, also for a tuple of such.
Format(f) ==
  IF Is(f, "TUPLE")
  THEN FlattenSeq([i \in DOMAIN Val(f) |-> (IF i > 1 THEN <<",">> ELSE <<>>) \o Scalar(Val(f)[i])])
  ELSE Scalar(f)

\* Feature::join: nothing for NIL and for what has no text in a join, and no glue as
\* long as there is no text; a tuple in a tuple is bracketed.  What a feature gives is
\* a sequence with its text, or empty.
JoinOne(f) == IF Type(f) \in {"STRING", "INTEGER", "BOOLEAN", "DURATION"} THEN <<Scalar(f)>> ELSE <<>>

Glued(given, glue) ==
  FlattenSeq([i \in DOMAIN given |->
                IF given[i] = <<>> THEN <<>>
                ELSE (IF \E j \in 1 .. i - 1 : given[j] \notin {<<>>, <<<<>>>>} THEN glue ELSE <<>>)
                       \o given[i][1]])

JoinTuple(f, glue) == Glued([i \in DOMAIN Val(f) |-> JoinOne(Val(f)[i])], glue)

JoinItem(f, glue) ==
  IF Is(f, "TUPLE") THEN <<<<"[">> \o JoinTuple(f, glue) \o <<"]">>>> ELSE JoinOne(f)

join(f, glue) ==
  Glued(IF Is(f, "TUPLE") THEN [i \in DOMAIN Val(f) |-> JoinItem(Val(f)[i], glue)] ELSE <<JoinOne(f)>>, glue)

\* ActiveType: the types of an expression, and those of the elements if it is a tuple.
can_satisfy(has, wants) ==
  \E type \in has.base \intersect wants.base :
    type = "TUPLE" /\ wants.tuple # {} => has.tuple \intersect wants.tuple # {}
=============================================================================
