--------------------------- MODULE HttpTxnProofs ---------------------------
(***************************************************************************)
(* Proofs about HttpTxn, for any requests, responses and remap rule, and   *)
(* any values of the directives.                                           *)
(***************************************************************************)
EXTENDS HttpTxn, SequenceTheorems, FiniteSetTheorems, WellFoundedInduction, TLAPS

-----------------------------------------------------------------------------
(* Numbers.                                                                *)

\* A set of naturals that is not empty has a least element, and Min is it.
LEMMA LeastOf ==
  ASSUME NEW T, T \subseteq Nat, T # {}
  PROVE  \E x \in T : \A y \in T : x <= y
<1> DEFINE R == OpToRel(<, Nat)
<1>1. IsWellFoundedOn(R, Nat)
  BY NatLessThanWellFounded
<1>2. \A x, y \in Nat : y < x => <<y, x>> \in R
  BY DEF OpToRel
<1> HIDE DEF R
<1>3. PICK x \in T : \A y \in T : ~ (<<y, x>> \in R)
  BY <1>1, WFMin, Zenon
<1>4. \A y \in T : ~ (y < x)
  BY <1>2, <1>3
<1> QED BY <1>3, <1>4

LEMMA MinOf ==
  ASSUME NEW T, T \subseteq Nat, T # {}
  PROVE  Min(T) \in T /\ \A y \in T : Min(T) <= y
<1>1. \E x \in T : \A y \in T : x <= y
  BY LeastOf
<1>2. \E x \in T : \A y \in T : y >= x
  BY <1>1
<1> QED BY <1>1, <1>2 DEF Min

\* A set of naturals with a bound has a greatest element, and Max is it.
LEMMA MaxOf ==
  ASSUME NEW T, T \subseteq Nat, T # {}, NEW n \in Nat, \A y \in T : y <= n
  PROVE  Max(T) \in T /\ \A y \in T : y <= Max(T)
<1> DEFINE D == {n - y : y \in T}
<1>1. D \subseteq Nat /\ D # {}
  <2>1. \A y \in T : n - y \in Nat
    OBVIOUS
  <2> QED BY <2>1
<1>2. PICK d \in D : \A e \in D : d <= e
  BY <1>1, LeastOf
<1>3. PICK x \in T : d = n - x
  BY <1>2
<1>4. \A y \in T : n - x <= n - y
  BY <1>2, <1>3
<1>5. \A y \in T : y <= x
  BY <1>3, <1>4
<1>6. \E z \in T : \A y \in T : z >= y
  BY <1>3, <1>5
<1> QED BY <1>5, <1>6 DEF Max

\* What holds at 0 and is passed on up to n holds at n.
LEMMA UpTo ==
  ASSUME NEW n \in Nat, NEW T, 0 \in T, \A k \in 0 .. n - 1 : k \in T => k + 1 \in T
  PROVE  \A k \in 0 .. n : k \in T
<1> SUFFICES ASSUME NEW a \in 0 .. n, a \notin T PROVE FALSE
  OBVIOUS
<1> DEFINE Out == {k \in 0 .. n : k \notin T}
<1>1. Out \subseteq Nat /\ Out # {}
  OBVIOUS
<1>2. PICK k \in Out : \A j \in Out : k <= j
  BY <1>1, LeastOf
<1>3. k # 0 /\ k - 1 \in 0 .. n - 1 /\ k - 1 \in T
  BY <1>2
<1> QED BY <1>2, <1>3

-----------------------------------------------------------------------------
(* Texts and locations.                                                    *)

LEMMA DigitsText == \A n : Digits(n) \in Text
<1>1. \A x : (IF x \in Token THEN x ELSE "") \in Token
  BY DEF Token
<1>2. \A n : Digit(n) \in Token
  BY <1>1, Zenon DEF Digit
<1> QED BY <1>2 DEF Digits, Text

\* The first colon of a text.
LEMMA ColonOf ==
  ASSUME NEW text \in Text
  PROVE  /\ Colon(text) \in 0 .. Len(text)
         /\ \A i \in 1 .. Colon(text) - 1 : text[i] # ":"
         /\ Colon(text) = 0 => \A i \in 1 .. Len(text) : text[i] # ":"
         /\ Colon(text) # 0 => text[Colon(text)] = ":"
<1> DEFINE I == {i \in 1 .. Len(text) : text[i] = ":"}
<1>1. Len(text) \in Nat
  BY DEF Text
<1>2. Colon(text) = IF I # {} THEN Min(I) ELSE 0
  BY DEF Colon, SelectInSeq
<1>3. I \subseteq Nat
  OBVIOUS
<1>4. CASE I = {}
  BY <1>1, <1>2, <1>4
<1>5. CASE I # {}
  <2>1. Min(I) \in I /\ \A y \in I : Min(I) <= y
    BY <1>3, <1>5, MinOf
  <2>2. Colon(text) \in I /\ \A y \in I : Colon(text) <= y
    BY <1>2, <1>5, <2>1
  <2>3. \A i \in 1 .. Colon(text) - 1 : ~ (Colon(text) <= i) /\ i \in 1 .. Len(text)
    BY <1>1, <2>2
  <2> QED BY <1>1, <2>2, <2>3
<1> QED BY <1>4, <1>5

LEMMA SubText ==
  ASSUME NEW text \in Text, NEW m \in Nat \ {0}, NEW n \in 0 .. Len(text)
  PROVE  /\ SubSeq(text, m, n) \in Text
         /\ Len(SubSeq(text, m, n)) = IF m <= n THEN n - m + 1 ELSE 0
         /\ \A i \in 1 .. n - m + 1 : SubSeq(text, m, n)[i] = text[m + i - 1]
<1>1. \A i \in m .. n : text[i] \in Token
  BY DEF Text
<1> QED BY <1>1, SubSeqProperties DEF Text

LEMMA HostTokenText ==
  ASSUME NEW text \in Text
  PROVE  /\ HostToken(text) \in Text /\ Tail0(text) \in Text /\ PortToken(text) \in Text
         /\ Colon(HostToken(text)) = 0
<1>1. Colon(text) \in 0 .. Len(text) /\ \A i \in 1 .. Colon(text) - 1 : text[i] # ":"
  BY ColonOf
<1>2. Colon(text) = 0 => \A i \in 1 .. Len(text) : text[i] # ":"
  BY ColonOf
<1>3. Len(text) \in Nat /\ <<>> \in Text
  BY DEF Text
<1>4. CASE Colon(text) = 0
  BY <1>3, <1>4 DEF HostToken, Head0, Tail0, PortToken
<1>5. CASE Colon(text) # 0
  <2>1. /\ Head0(text) \in Text
        /\ \A i \in 1 .. Len(Head0(text)) : Head0(text)[i] # ":"
    <3>1. /\ SubSeq(text, 1, Colon(text) - 1) \in Text
          /\ Len(SubSeq(text, 1, Colon(text) - 1)) = Colon(text) - 1
          /\ \A i \in 1 .. Colon(text) - 1 - 1 + 1 : SubSeq(text, 1, Colon(text) - 1)[i] = text[1 + i - 1]
      BY <1>1, <1>5, SubText
    <3>2. Colon(text) - 1 - 1 + 1 = Colon(text) - 1 /\ Len(Head0(text)) = Colon(text) - 1
      BY <3>1, <1>1, <1>5 DEF Head0
    <3>3. \A i \in 1 .. Colon(text) - 1 : 1 + i - 1 = i /\ i \in 1 .. Colon(text) - 1
      BY <1>1, <1>5
    <3> QED BY <3>1, <3>2, <3>3, <1>1, <1>5 DEF Head0
  <2>2. Tail0(text) \in Text
    BY <1>1, <1>3, <1>5, SubText DEF Tail0
  <2>3. Colon(Head0(text)) = 0
    BY <2>1, ColonOf
  <2> QED BY <2>1, <2>2, <2>3, <1>3 DEF HostToken, PortToken
<1> QED BY <1>4, <1>5

\* A host without a colon is the host of the location made of it and a port.
LEMMA HostIsHost ==
  ASSUME NEW host \in Text, Colon(host) = 0
  PROVE  /\ HostToken(host) = host
         /\ \A digits \in Text : WithPort(host, digits) \in Text /\ HostToken(WithPort(host, digits)) = host
         /\ HostToken(host \o <<":">>) = host /\ host \o <<":">> \in Text
<1>1. HostToken(host) = host
  BY DEF HostToken, Head0
<1>2. ASSUME NEW rest \in Text
      PROVE  host \o <<":">> \o rest \in Text /\ HostToken(host \o <<":">> \o rest) = host
  <2> DEFINE text == host \o <<":">> \o rest
  <2>1. /\ text \in Text /\ Len(text) = Len(host) + 1 + Len(rest)
        /\ \A i \in 1 .. Len(host) : text[i] = host[i]
        /\ text[Len(host) + 1] = ":"
    <3>0. ":" \in Token
      BY DEF Token
    <3>1. host \o <<":">> \in Seq(Token) /\ <<":">> \in Seq(Token) /\ Len(<<":">>) = 1
      BY <3>0 DEF Text
    <3>2. /\ Len(host \o <<":">>) = Len(host) + 1
          /\ \A i \in 1 .. Len(host) + 1 :
                (host \o <<":">>)[i] = IF i <= Len(host) THEN host[i] ELSE <<":">>[i - Len(host)]
      BY <3>1, ConcatProperties DEF Text
    <3>3. /\ text \in Seq(Token) /\ Len(text) = Len(host \o <<":">>) + Len(rest)
          /\ \A i \in 1 .. Len(host \o <<":">>) + Len(rest) :
               text[i] = IF i <= Len(host \o <<":">>) THEN (host \o <<":">>)[i] ELSE rest[i - Len(host \o <<":">>)]
      BY <3>1, ConcatProperties DEF Text
    <3>4. Len(host) \in Nat /\ Len(rest) \in Nat
      BY DEF Text
    <3> HIDE DEF text
    <3>5. (host \o <<":">>)[Len(host) + 1] = ":"
      BY <3>2, <3>4
    <3> QED BY <3>2, <3>3, <3>4, <3>5 DEF Text
  <2>2. \A i \in 1 .. Len(host) : host[i] # ":"
    BY ColonOf
  <2>3. Len(host) \in Nat /\ Len(rest) \in Nat
    BY DEF Text
  <2> HIDE DEF text
  <2>4. Colon(text) = Len(host) + 1
    <3>1. /\ Colon(text) \in 0 .. Len(text)
          /\ \A i \in 1 .. Colon(text) - 1 : text[i] # ":"
          /\ Colon(text) = 0 => \A i \in 1 .. Len(text) : text[i] # ":"
          /\ Colon(text) # 0 => text[Colon(text)] = ":"
      BY <2>1, ColonOf
    <3>2. Colon(text) # 0
      BY <3>1, <2>1, <2>3
    <3>3. ~ (Colon(text) < Len(host) + 1)
      BY <3>1, <3>2, <2>1, <2>2, <2>3
    <3>4. ~ (Colon(text) > Len(host) + 1)
      BY <3>1, <2>1, <2>3
    <3> QED BY <3>1, <3>3, <3>4, <2>3
  <2>5. HostToken(text) = SubSeq(text, 1, Len(host))
    BY <2>4, <2>3 DEF HostToken, Head0
  <2>6. SubSeq(text, 1, Len(host)) = host
    <3>1. /\ SubSeq(text, 1, Len(host)) \in Text
          /\ Len(SubSeq(text, 1, Len(host))) = Len(host)
          /\ \A i \in 1 .. Len(host) : SubSeq(text, 1, Len(host))[i] = text[i]
      BY <2>1, <2>3, SubText
    <3> QED BY <3>1, <2>1, SeqEqual DEF Text
  <2> QED BY <2>1, <2>5, <2>6 DEF text
<1>3. host \o <<":">> = host \o <<":">> \o <<>>
  BY DEF Text
<1>4. <<>> \in Text
  BY DEF Text
<1> QED BY <1>1, <1>2, <1>3, <1>4 DEF WithPort

-----------------------------------------------------------------------------
(* Elements at some positions of a sequence.                               *)

\* The positions up to p, and position number i.
UpToPos(at, p) == {q \in at : q <= p}
Nth(at, i) == CHOOSE p \in at : Cardinality(UpToPos(at, p)) = i

\* The positions are numbered from 1 in their order.
LEMMA NthOf ==
  ASSUME NEW n \in Nat, NEW at \in SUBSET (1 .. n)
  PROVE  /\ IsFiniteSet(at) /\ Cardinality(at) \in 0 .. n
         /\ \A p \in at : Cardinality(UpToPos(at, p)) \in 1 .. Cardinality(at)
         /\ \A p, q \in at : p < q => Cardinality(UpToPos(at, p)) < Cardinality(UpToPos(at, q))
         /\ \A i \in 1 .. Cardinality(at) : Nth(at, i) \in at /\ Cardinality(UpToPos(at, Nth(at, i))) = i
         /\ \A p \in at : Nth(at, Cardinality(UpToPos(at, p))) = p
<1> DEFINE rank(p) == Cardinality(UpToPos(at, p))
<1>1. IsFiniteSet(1 .. n) /\ Cardinality(1 .. n) = n
  BY FS_Interval
<1>2. IsFiniteSet(at) /\ Cardinality(at) <= n
  BY <1>1, FS_Subset
<1>3. Cardinality(at) \in Nat
  BY <1>2, FS_CardinalityType
<1>4. \A p \in at : IsFiniteSet(UpToPos(at, p)) /\ rank(p) \in Nat /\ rank(p) <= Cardinality(at)
  <2>1. \A p \in at : UpToPos(at, p) \in SUBSET at
    BY DEF UpToPos
  <2>2. \A p \in at : IsFiniteSet(UpToPos(at, p)) /\ rank(p) <= Cardinality(at)
    BY <1>2, <2>1, FS_Subset
  <2> QED BY <2>2, FS_CardinalityType
<1>5. \A p \in at : rank(p) \in 1 .. Cardinality(at)
  <2>1. \A p \in at : UpToPos(at, p) # {}
    BY DEF UpToPos
  <2>2. \A p \in at : rank(p) # 0
    BY <2>1, <1>4, FS_EmptySet
  <2> QED BY <2>2, <1>3, <1>4
<1>6. ASSUME NEW p \in at, NEW q \in at, p < q
      PROVE  rank(p) < rank(q)
  <2>0. \A x \in at : x \in Nat
    OBVIOUS
  <2>1. UpToPos(at, p) \in SUBSET UpToPos(at, q) /\ q \in UpToPos(at, q) /\ q \notin UpToPos(at, p)
    <3>1. p \in Nat /\ q \in Nat /\ \A x \in at : x <= p => x <= q
      BY <1>6, <2>0
    <3>2. q <= q /\ ~ (q <= p)
      BY <1>6, <3>1
    <3> QED BY <3>1, <3>2, Zenon DEF UpToPos
  <2>2. rank(p) <= rank(q) /\ rank(p) # rank(q)
    <3>1. IsFiniteSet(UpToPos(at, q))
      BY <1>4
    <3>2. /\ rank(p) <= rank(q)
          /\ rank(q) = rank(p) => UpToPos(at, q) = UpToPos(at, p)
      BY <2>1, <3>1, FS_Subset
    <3> QED BY <2>1, <3>2
  <2> QED BY <2>2, <1>4
<1>7. \A p, q \in at : rank(p) = rank(q) => p = q
  <2> SUFFICES ASSUME NEW p \in at, NEW q \in at, p # q PROVE rank(p) # rank(q)
    OBVIOUS
  <2>1. p < q \/ q < p
    OBVIOUS
  <2>2. rank(p) < rank(q) \/ rank(q) < rank(p)
    BY <1>6, <2>1
  <2> QED BY <2>2, <1>4
<1>8. ASSUME NEW i \in 1 .. Cardinality(at)
      PROVE  \E p \in at : rank(p) = i
  <2> DEFINE r == [p \in at |-> rank(p)]
  <2>1. r \in Injection(at, 1 .. Cardinality(at))
    BY <1>5, <1>7 DEF Injection, IsInjective
  <2>2. IsFiniteSet(1 .. Cardinality(at)) /\ Cardinality(1 .. Cardinality(at)) = Cardinality(at)
    BY <1>3, FS_Interval
  <2>3. r \in Surjection(at, 1 .. Cardinality(at))
    BY <2>1, <2>2, FS_Injection
  <2> QED BY <2>3 DEF Surjection
<1>9. \A i \in 1 .. Cardinality(at) : Nth(at, i) \in at /\ rank(Nth(at, i)) = i
  BY <1>8 DEF Nth
<1>10. \A p \in at : Nth(at, rank(p)) = p
  BY <1>5, <1>7, <1>9
<1> QED BY <1>2, <1>3, <1>5, <1>6, <1>9, <1>10

LEMMA PickedOf ==
  ASSUME NEW S, NEW seq \in Seq(S), NEW at \in SUBSET DOMAIN seq
  PROVE  /\ Picked(seq, at) \in Seq(S) /\ Len(Picked(seq, at)) = Cardinality(at)
         /\ Cardinality(at) \in Nat
         /\ \A i \in 1 .. Cardinality(at) : Nth(at, i) \in at /\ Picked(seq, at)[i] = seq[Nth(at, i)]
<1>1. at \in SUBSET (1 .. Len(seq)) /\ Len(seq) \in Nat
  OBVIOUS
<1>2. /\ Cardinality(at) \in Nat
      /\ \A i \in 1 .. Cardinality(at) : Nth(at, i) \in at
  BY <1>1, NthOf
<1>3. Picked(seq, at) = [i \in 1 .. Cardinality(at) |-> seq[Nth(at, i)]]
  BY DEF Picked, Nth, UpToPos
<1>4. \A i \in 1 .. Cardinality(at) : seq[Nth(at, i)] \in S
  BY <1>1, <1>2
<1> QED BY <1>2, <1>3, <1>4

-----------------------------------------------------------------------------
(* Fields.                                                                 *)

LEMMA FieldOf ==
  ASSUME NEW fields \in Seq(Field), NEW name, HasField(fields, name)
  PROVE  /\ FirstField(fields, name) \in 1 .. Len(fields)
         /\ fields[FirstField(fields, name)].name = name
         /\ \A i \in 1 .. FirstField(fields, name) - 1 : fields[i].name # name
         /\ FieldValue(fields, name) \in Text
<1>1. Named(fields, name) \subseteq Nat /\ Named(fields, name) # {}
  BY DEF Named, HasField
<1>2. /\ FirstField(fields, name) \in Named(fields, name)
      /\ \A i \in Named(fields, name) : FirstField(fields, name) <= i
  BY <1>1, MinOf DEF FirstField
<1>3. FirstField(fields, name) \in 1 .. Len(fields) /\ fields[FirstField(fields, name)].name = name
  BY <1>2 DEF Named
<1>4. fields[FirstField(fields, name)] \in Field
  BY <1>3
<1>5. \A i \in 1 .. FirstField(fields, name) - 1 : i \in DOMAIN fields /\ ~ (FirstField(fields, name) <= i)
  BY <1>3
<1> QED BY <1>2, <1>3, <1>4, <1>5 DEF FieldValue, Field, Named

\* A field that is the first of its name.
LEMMA FirstIs ==
  ASSUME NEW fields \in Seq(Field), NEW i \in 1 .. Len(fields), NEW name, fields[i].name = name,
         \A j \in 1 .. i - 1 : fields[j].name # name
  PROVE  HasField(fields, name) /\ FirstField(fields, name) = i
<1>1. i \in Named(fields, name)
  BY DEF Named
<1>2. HasField(fields, name)
  BY <1>1 DEF HasField
<1>3. /\ FirstField(fields, name) \in 1 .. Len(fields)
      /\ fields[FirstField(fields, name)].name = name
      /\ \A j \in 1 .. FirstField(fields, name) - 1 : fields[j].name # name
  BY <1>2, FieldOf
<1> QED BY <1>2, <1>3

LEMMA FieldObtained ==
  ASSUME NEW fields \in Seq(Field), NEW name \in Token, NEW text \in Text
  PROVE  /\ field_obtain(fields, name, text) \in Seq(Field)
         /\ HasField(field_obtain(fields, name, text), name)
         /\ FieldValue(field_obtain(fields, name, text), name) = text
<1> DEFINE after == field_obtain(fields, name, text)
<1>1. CASE HasField(fields, name)
  <2> DEFINE i == FirstField(fields, name)
  <2>1. i \in 1 .. Len(fields) /\ fields[i].name = name /\ \A j \in 1 .. i - 1 : fields[j].name # name
    BY <1>1, FieldOf
  <2>2. after = [fields EXCEPT ![i] = [fields[i] EXCEPT !.value = text]]
    BY <1>1 DEF field_obtain, assign
  <2> HIDE DEF i
  <2>3. fields[i] \in Field
    BY <2>1
  <2>4. [fields[i] EXCEPT !.value = text] \in Field
    BY <2>3 DEF Field
  <2>5. /\ after \in Seq(Field) /\ Len(after) = Len(fields)
        /\ \A j \in 1 .. Len(fields) : after[j] = IF j = i THEN [fields[i] EXCEPT !.value = text] ELSE fields[j]
    BY <2>1, <2>2, <2>4, ExceptSeq
  <2>6. after[i].name = name /\ after[i].value = text
    BY <2>1, <2>3, <2>5 DEF Field
  <2>7. \A j \in 1 .. i - 1 : after[j].name # name
    BY <2>1, <2>5
  <2> HIDE DEF after
  <2>8. HasField(after, name) /\ FirstField(after, name) = i
    BY <2>1, <2>5, <2>6, <2>7, FirstIs
  <2> QED BY <2>5, <2>6, <2>8 DEF FieldValue, after
<1>2. CASE ~ HasField(fields, name)
  <2> DEFINE i == Len(fields) + 1
             new == [name |-> name, value |-> text]
  <2>1. after = Append(fields, new) /\ new \in Field
    BY <1>2 DEF field_obtain, field_create, Field
  <2> HIDE DEF new
  <2>2. /\ after \in Seq(Field) /\ Len(after) = Len(fields) + 1
        /\ \A j \in 1 .. Len(fields) : after[j] = fields[j]
        /\ after[i] = new
    BY <2>1, AppendProperties
  <2>3. \A j \in 1 .. Len(fields) : fields[j].name # name
    BY <1>2 DEF HasField, Named
  <2> HIDE DEF after
  <2>4. i \in 1 .. Len(after) /\ \A j \in 1 .. i - 1 : after[j].name # name
    BY <2>2, <2>3
  <2>5. after[i].name = name /\ after[i].value = text
    BY <2>2 DEF new
  <2>6. HasField(after, name) /\ FirstField(after, name) = i
    BY <2>2, <2>4, <2>5, FirstIs
  <2> QED BY <2>2, <2>5, <2>6 DEF FieldValue, after
<1> QED BY <1>1, <1>2

LEMMA FieldValuesText ==
  ASSUME NEW fields \in Seq(Field), NEW name
  PROVE  FieldValues(fields, name) \in Seq(Text)
<1> DEFINE named == Picked(fields, Named(fields, name))
<1>1. named \in Seq(Field)
  BY PickedOf DEF Named
<1> HIDE DEF named
<1>2. \A i \in DOMAIN named : named[i].value \in Text
  <2>1. \A i \in DOMAIN named : named[i] \in Field
    BY <1>1
  <2>2. \A f \in Field : f.value \in Text
    BY DEF Field
  <2> QED BY <2>1, <2>2, Zenon
<1> QED BY <1>1, <1>2 DEF FieldValues, named

-----------------------------------------------------------------------------
(* Functions that are defined step by step.                                *)

Follows(g, n, base, step) == g[0] = base /\ \A i \in 1 .. n : g[i] = step[i][g[i - 1]]

LEMMA Stepwise ==
  ASSUME NEW n \in Nat, NEW X, NEW base \in X, NEW step \in [1 .. n -> [X -> X]]
  PROVE  \E g \in [0 .. n -> X] : Follows(g, n, base, step)
<1> DEFINE Reaches(k) == \E g \in [0 .. k -> X] : g[0] = base /\ \A i \in 1 .. k : g[i] = step[i][g[i - 1]]
           T == {k \in 0 .. n : Reaches(k)}
<1>1. Reaches(0)
  <2> DEFINE g == [i \in 0 .. 0 |-> base]
  <2>1. g \in [0 .. 0 -> X] /\ g[0] = base
    OBVIOUS
  <2>2. \A i \in 1 .. 0 : FALSE
    OBVIOUS
  <2> HIDE DEF g
  <2> QED BY <2>1, <2>2
<1>2. ASSUME NEW k \in 0 .. n - 1, Reaches(k)
      PROVE  Reaches(k + 1)
  <2>1. PICK g \in [0 .. k -> X] : g[0] = base /\ \A i \in 1 .. k : g[i] = step[i][g[i - 1]]
    BY <1>2
  <2> DEFINE h == [i \in 0 .. k + 1 |-> IF i = k + 1 THEN step[k + 1][g[k]] ELSE g[i]]
  <2>2. k + 1 \in 1 .. n /\ g[k] \in X
    BY <2>1
  <2>3. step[k + 1][g[k]] \in X
    BY <2>2
  <2>4. h \in [0 .. k + 1 -> X]
    BY <2>1, <2>3
  <2>5. h[0] = base /\ \A i \in 1 .. k + 1 : h[i] = step[i][h[i - 1]]
    BY <2>1
  <2> QED BY <2>4, <2>5
<1> HIDE DEF Reaches
<1>3. \A k \in 0 .. n : k \in T
  <2>1. 0 \in T /\ \A k \in 0 .. n - 1 : k \in T => k + 1 \in T
    BY <1>1, <1>2
  <2> HIDE DEF T
  <2> QED BY <2>1, UpTo
<1> QED BY <1>3 DEF Reaches, Follows

\* The parts of a text put together are a text, and so for sequences of anything.
LEMMA FlatSeq ==
  ASSUME NEW S, NEW seqs \in Seq(Seq(S))
  PROVE  FlattenSeq(seqs) \in Seq(S)
<1> DEFINE n == Len(seqs)
           F(f) == [i \in 1 .. n |-> IF i = 1 THEN seqs[i] ELSE f[i - 1] \o seqs[i]]
           flat == CHOOSE f : f = F(f)
<1>1. n \in Nat /\ \A i \in 1 .. n : seqs[i] \in Seq(S)
  OBVIOUS
<1>2. FlattenSeq(seqs) = IF n = 0 THEN seqs ELSE flat[n]
  BY DEF FlattenSeq
<1>3. \E f : f = F(f)
  <2> DEFINE step == [i \in 1 .. n |-> [s \in Seq(S) |-> s \o seqs[i]]]
  <2>1. \A i \in 1 .. n : \A s \in Seq(S) : s \o seqs[i] \in Seq(S)
    BY <1>1
  <2>2. step \in [1 .. n -> [Seq(S) -> Seq(S)]]
    BY <2>1
  <2>3. \A i \in 1 .. n : \A s \in Seq(S) : step[i][s] = s \o seqs[i]
    OBVIOUS
  <2> HIDE DEF step
  <2>4. <<>> \in Seq(S) /\ \A s \in Seq(S) : <<>> \o s = s
    OBVIOUS
  <2>5. PICK g \in [0 .. n -> Seq(S)] : g[0] = <<>> /\ \A i \in 1 .. n : g[i] = step[i][g[i - 1]]
    <3> DEFINE X == Seq(S)
               base == <<>>
    <3>1. n \in Nat /\ base \in X /\ step \in [1 .. n -> [X -> X]]
      BY <1>1, <2>2, <2>4
    <3> HIDE DEF X, base, n
    <3>2. \E g \in [0 .. n -> X] : Follows(g, n, base, step)
      BY <3>1, Stepwise
    <3> QED BY <3>2 DEF X, base, Follows
  <2>6. ASSUME NEW i \in 1 .. n PROVE g[i] = g[i - 1] \o seqs[i]
    <3>1. i - 1 \in 0 .. n
      BY <1>1
    <3>2. g[i - 1] \in Seq(S)
      BY <2>5, <3>1
    <3> QED BY <2>3, <2>5, <3>2
  <2>7. n > 0 => g[1] = seqs[1]
    <3>1. n > 0 => 1 \in 1 .. n /\ 1 - 1 = 0
      BY <1>1
    <3>2. n > 0 => g[1] = <<>> \o seqs[1] /\ seqs[1] \in Seq(S)
      BY <1>1, <2>5, <2>6, <3>1
    <3> QED BY <2>4, <3>2
  <2> DEFINE f == [i \in 1 .. n |-> g[i]]
  <2>8. f = F(f)
    <3>1. \A i \in 1 .. n : f[i] = g[i] /\ (i # 1 => f[i - 1] = g[i - 1])
      BY <1>1
    <3>2. ASSUME NEW i \in 1 .. n
          PROVE  f[i] = IF i = 1 THEN seqs[i] ELSE f[i - 1] \o seqs[i]
      <4> HIDE DEF f
      <4>1. CASE i = 1
        BY <2>7, <3>1, <4>1
      <4>2. CASE i # 1
        BY <2>6, <3>1, <4>2
      <4> QED BY <4>1, <4>2
    <3> QED BY <3>2
  <2> QED BY <2>8
<1>4. flat = F(flat)
  BY <1>3
<1> HIDE DEF flat
<1>5. /\ \A i \in 1 .. n : i = 1 => flat[i] = seqs[i]
      /\ \A i \in 1 .. n : i # 1 => flat[i] = flat[i - 1] \o seqs[i]
  BY <1>4
<1> DEFINE T == {i \in 0 .. n : i > 0 => flat[i] \in Seq(S)}
<1>6. \A i \in 0 .. n : i \in T
  <2>1. 0 \in T
    BY <1>1
  <2>2. ASSUME NEW i \in 0 .. n - 1, i \in T
        PROVE  i + 1 \in T
    <3>1. i + 1 \in 1 .. n
      BY <1>1
    <3>2. i # 0 => flat[i] \in Seq(S)
      BY <2>2
    <3>3. flat[i + 1] \in Seq(S)
      <4>1. CASE i = 0
        BY <1>1, <1>5, <3>1, <4>1
      <4>2. CASE i # 0
        <5>0. i + 1 # 1 /\ i + 1 - 1 = i
          BY <4>2
        <5>1. PICK j \in 1 .. n : j = i + 1
          BY <3>1
        <5>2. j # 1 /\ j - 1 = i
          BY <5>0, <5>1
        <5>3. flat[j] = flat[j - 1] \o seqs[j]
          BY <1>5, <5>1, <5>2
        <5>4. flat[j] = flat[i] \o seqs[j]
          BY <5>2, <5>3
        <5>5. flat[j] \in Seq(S)
          BY <5>4, <1>1, <3>2, <4>2
        <5> QED BY <5>1, <5>5
      <4> QED BY <4>1, <4>2
    <3> QED BY <3>1, <3>3
  <2> HIDE DEF T
  <2> QED BY <1>1, <2>1, <2>2, UpTo
<1>7. CASE n = 0
  BY <1>2, <1>7
<1>8. CASE n # 0
  BY <1>1, <1>2, <1>6, <1>8
<1> QED BY <1>7, <1>8

-----------------------------------------------------------------------------
(* Features.                                                               *)

LEMMA PlainOf ==
  ASSUME NEW f \in Plain
  PROVE  /\ Is(f, "STRING") => Val(f) \in Text
         /\ Is(f, "INTEGER") \/ Is(f, "DURATION") => Val(f) \in Int
         /\ Is(f, "BOOLEAN") => Val(f) \in BOOLEAN
         /\ Is(f, "IP_ADDR") => Val(f) \in Nat
         /\ ~ Is(f, "TUPLE")
<1>1. CASE f = NO_VALUE \/ f = NIL_FEATURE
  BY <1>1 DEF NO_VALUE, NIL_FEATURE, Is, Type
<1>2. CASE f \in {"STRING"} \X Text
  BY <1>2 DEF Is, Type, Val
<1>3. CASE f \in {"INTEGER", "DURATION"} \X Int
  BY <1>3 DEF Is, Type, Val
<1>4. CASE f \in {"BOOLEAN"} \X BOOLEAN
  BY <1>4 DEF Is, Type, Val
<1>5. CASE f \in {"IP_ADDR"} \X Nat
  BY <1>5 DEF Is, Type, Val
<1> QED BY <1>1, <1>2, <1>3, <1>4, <1>5 DEF Plain

LEMMA FeatureOf ==
  ASSUME NEW f \in Feature
  PROVE  /\ Is(f, "STRING") => Val(f) \in Text
         /\ Is(f, "INTEGER") \/ Is(f, "DURATION") => Val(f) \in Int
         /\ Is(f, "BOOLEAN") => Val(f) \in BOOLEAN
         /\ Is(f, "IP_ADDR") => Val(f) \in Nat
         /\ Is(f, "TUPLE") => Val(f) \in Seq(Flat)
         /\ f \in Flat /\ Is(f, "TUPLE") => Val(f) \in Seq(Plain)
<1>1. CASE f \in Plain
  BY <1>1, PlainOf
<1>2. CASE f \in {"TUPLE"} \X Seq(Plain)
  <2>1. Is(f, "TUPLE") /\ Val(f) \in Seq(Plain)
    BY <1>2 DEF Is, Type, Val
  <2>2. Val(f) \in Seq(Flat)
    BY <2>1, SeqMonotonic DEF Flat
  <2> QED BY <2>1, <2>2 DEF Is
<1>3. CASE f \in {"TUPLE"} \X Seq(Flat)
  <2>1. Is(f, "TUPLE") /\ Val(f) \in Seq(Flat)
    BY <1>3 DEF Is, Type, Val
  <2>2. f \in Flat => f \in Plain \/ f \in {"TUPLE"} \X Seq(Plain)
    BY DEF Flat
  <2> QED BY <1>1, <1>2, <2>1, <2>2 DEF Is
<1> QED BY <1>1, <1>2, <1>3 DEF Feature, Flat

LEMMA FlatFeature == Plain \subseteq Flat /\ Flat \subseteq Feature
BY DEF Flat, Feature

LEMMA TokenTexts ==
  /\ <<>> \in Text /\ <<"NULL">> \in Text /\ <<"@">> \in Text /\ <<"s">> \in Text /\ <<"!NO_VALUE">> \in Text
  /\ <<"true">> \in Text /\ <<"false">> \in Text /\ <<",">> \in Text /\ <<"[">> \in Text /\ <<"]">> \in Text
  /\ <<":">> \in Text /\ <<"/">> \in Text /\ <<"&">> \in Text /\ <<"=">> \in Text
  /\ <<"text/html">> \in Text /\ <<"standard">> \in Text
BY DEF Text, Token

LEMMA ConcatText == \A s, t \in Text : s \o t \in Text
BY ConcatProperties DEF Text

LEMMA ScalarText ==
  ASSUME NEW f \in Feature
  PROVE  Scalar(f) \in Text
<1>1. Is(f, "STRING") => Val(f) \in Text
  BY FeatureOf
<1>2. /\ Digits(Val(f)) \in Text /\ BoolText(Val(f)) \in Text
      /\ <<"@">> \o Digits(Val(f)) \in Text /\ Digits(Val(f)) \o <<"s">> \in Text
  BY DigitsText, TokenTexts, ConcatText DEF BoolText
<1> QED BY <1>1, <1>2, TokenTexts DEF Scalar, is_nil

LEMMA FormatText ==
  ASSUME NEW f \in Feature
  PROVE  Format(f) \in Text
<1>1. CASE Is(f, "TUPLE")
  <2> DEFINE part(i) == (IF i > 1 THEN <<",">> ELSE <<>>) \o Scalar(Val(f)[i])
             parts == [i \in DOMAIN Val(f) |-> part(i)]
  <2>1. Val(f) \in Seq(Flat)
    BY <1>1, FeatureOf
  <2>2. \A i \in DOMAIN Val(f) : Scalar(Val(f)[i]) \in Text
    BY <2>1, FlatFeature, ScalarText
  <2>3. \A i \in DOMAIN Val(f) : part(i) \in Text
    BY <2>2, TokenTexts, ConcatText
  <2> HIDE DEF part
  <2>4. parts \in Seq(Text)
    BY <2>1, <2>3
  <2>5. Format(f) = FlattenSeq(parts)
    BY <1>1 DEF Format, part
  <2> HIDE DEF parts
  <2> QED BY <2>4, <2>5, FlatSeq DEF Text
<1>2. CASE ~ Is(f, "TUPLE")
  BY <1>2, ScalarText DEF Format
<1> QED BY <1>1, <1>2

LEMMA GluedText ==
  ASSUME NEW given \in Seq(Seq(Text)), NEW glue \in Text
  PROVE  Glued(given, glue) \in Text
<1> DEFINE lead(i) == IF \E j \in 1 .. i - 1 : given[j] \notin {<<>>, <<<<>>>>} THEN glue ELSE <<>>
           part(i) == IF given[i] = <<>> THEN <<>> ELSE lead(i) \o given[i][1]
           parts == [i \in DOMAIN given |-> part(i)]
<1>1. \A i : lead(i) \in Text
  BY TokenTexts
<1>2. Glued(given, glue) = FlattenSeq(parts)
  BY DEF Glued
<1> HIDE DEF lead
<1>3. ASSUME NEW i \in DOMAIN given
      PROVE  part(i) \in Text
  <2>1. given[i] \in Seq(Text)
    OBVIOUS
  <2>2. given[i] # <<>> => given[i][1] \in Text
    BY <2>1
  <2> QED BY <2>2, <1>1, TokenTexts, ConcatText
<1>4. parts \in Seq(Text)
  <2>1. \A i \in 1 .. Len(given) : part(i) \in Text
    BY <1>3
  <2> HIDE DEF part
  <2>2. parts = [i \in 1 .. Len(given) |-> part(i)] /\ Len(given) \in Nat
    OBVIOUS
  <2> QED BY <2>1, <2>2
<1> HIDE DEF parts
<1> QED BY <1>2, <1>4, FlatSeq DEF Text

LEMMA JoinOneText ==
  ASSUME NEW f \in Feature
  PROVE  JoinOne(f) \in Seq(Text)
BY ScalarText DEF JoinOne

LEMMA JoinText ==
  ASSUME NEW f \in Feature, NEW glue \in Text
  PROVE  join(f, glue) \in Text
<1>1. ASSUME NEW g \in Flat
      PROVE  JoinItem(g, glue) \in Seq(Text)
  <2>1. CASE Is(g, "TUPLE")
    <3> DEFINE given == [i \in DOMAIN Val(g) |-> JoinOne(Val(g)[i])]
    <3>1. Val(g) \in Seq(Plain)
      BY <2>1, FeatureOf, FlatFeature
    <3>2. \A i \in DOMAIN Val(g) : JoinOne(Val(g)[i]) \in Seq(Text)
      BY <3>1, FlatFeature, JoinOneText
    <3>3. given \in Seq(Seq(Text))
      BY <3>1, <3>2
    <3>4. JoinTuple(g, glue) \in Text
      BY <3>3, GluedText DEF JoinTuple
    <3>5. <<"[">> \o JoinTuple(g, glue) \o <<"]">> \in Text
      BY <3>4, TokenTexts, ConcatText
    <3> QED BY <2>1, <3>5 DEF JoinItem
  <2>2. CASE ~ Is(g, "TUPLE")
    BY <2>2, FlatFeature, JoinOneText DEF JoinItem
  <2> QED BY <2>1, <2>2
<1>2. CASE Is(f, "TUPLE")
  <2> DEFINE given == [i \in DOMAIN Val(f) |-> JoinItem(Val(f)[i], glue)]
  <2>1. Val(f) \in Seq(Flat)
    BY <1>2, FeatureOf
  <2>2. given \in Seq(Seq(Text))
    BY <2>1, <1>1
  <2>3. join(f, glue) = Glued(given, glue)
    BY <1>2 DEF join
  <2> HIDE DEF given
  <2> QED BY <2>2, <2>3, GluedText
<1>3. CASE ~ Is(f, "TUPLE")
  <2> DEFINE given == <<JoinOne(f)>>
  <2>1. given \in Seq(Seq(Text))
    BY JoinOneText
  <2>2. join(f, glue) = Glued(given, glue)
    BY <1>3 DEF join
  <2> HIDE DEF given
  <2> QED BY <2>1, <2>2, GluedText
<1> QED BY <1>2, <1>3

\* A number of a value.
LEMMA IntegerOf ==
  ASSUME NEW f \in Feature, NEW n \in Int
  PROVE  as_integer(f, n) \in Int
<1>1. \A s \in DOMAIN Numeral : Numeral[s] \in Int
  <2>1. \A s \in {Digit(k) : k \in Number} : \E k \in Number : Digit(k) = s
    OBVIOUS
  <2>2. \A s \in {Digit(k) : k \in Number} : (CHOOSE k \in Number : Digit(k) = s) \in Number
    BY <2>1
  <2>3. \A s \in DOMAIN Numeral : s \in {Digit(k) : k \in Number} /\ Numeral[s] = CHOOSE k \in Number : Digit(k) = s
    BY Zenon DEF Numeral
  <2> SUFFICES ASSUME NEW s \in DOMAIN Numeral PROVE Numeral[s] \in Int
    OBVIOUS
  <2>4. Numeral[s] \in Number
    BY <2>2, <2>3, Zenon
  <2>5. \A k \in Number : k \in Int
    BY NumberAssumption
  <2> QED BY <2>4, <2>5, Zenon
<1>2. Is(f, "TUPLE") => Len(Val(f)) \in Int
  BY FeatureOf
<1>3. Is(f, "INTEGER") => Val(f) \in Int
  BY FeatureOf
<1>4. CASE ~ CanBeInteger(f)
  <2>1. ~ Is(f, "INTEGER") /\ ~ Is(f, "BOOLEAN") /\ ~ Is(f, "TUPLE")
    BY <1>4 DEF CanBeInteger, Is
  <2> QED BY <1>4, <2>1 DEF as_integer
<1>5. CASE CanBeInteger(f)
  <2>1. IsNumber(Val(f)) => Numeral[Val(f)[1]] \in Int
    BY <1>1 DEF IsNumber
  <2>2. CASE Is(f, "INTEGER")
    BY <1>3, <1>5, <2>2 DEF as_integer
  <2>3. CASE Is(f, "BOOLEAN")
    BY <1>5, <2>3 DEF as_integer, Is
  <2>4. CASE Is(f, "TUPLE")
    BY <1>2, <1>5, <2>4 DEF as_integer, Is
  <2>5. CASE Is(f, "STRING")
    BY <1>5, <2>1, <2>5 DEF as_integer, CanBeInteger, Is
  <2> QED BY <1>5, <2>2, <2>3, <2>4, <2>5 DEF CanBeInteger, Is
<1> QED BY <1>4, <1>5

-----------------------------------------------------------------------------
(* Duplicates of a field.                                                  *)

MatchType(values) ==
  [at : 1 .. Len(values) + 1, kept : SUBSET (1 .. Len(values)), new : Seq(Text)]

NoMatch == [at |-> 1, kept |-> {}, new |-> <<>>]

LEMMA MatchDupType ==
  ASSUME NEW values \in Seq(Text), NEW match \in MatchType(values), NEW text \in Text
  PROVE  /\ MatchDup(values, match, text) \in MatchType(values)
         /\ \/ /\ \A k \in match.at .. Len(values) : values[k] # text
               /\ MatchDup(values, match, text).kept = match.kept
               /\ MatchDup(values, match, text).new = Append(match.new, text)
               /\ MatchDup(values, match, text).at = Len(values) + 1
            \/ \E k \in match.at .. Len(values) :
                 /\ values[k] = text
                 /\ MatchDup(values, match, text).kept = match.kept \union {k}
                 /\ MatchDup(values, match, text).new = match.new
                 /\ MatchDup(values, match, text).at = k + 1
<1> DEFINE found == {i \in match.at .. Len(values) : values[i] = text}
           next == CHOOSE i \in found : \A j \in found : i <= j
<1>1. /\ match.at \in 1 .. Len(values) + 1 /\ match.kept \in SUBSET (1 .. Len(values))
      /\ match.new \in Seq(Text) /\ Len(values) \in Nat
  BY DEF MatchType
<1>2. CASE found = {}
  <2>1. MatchDup(values, match, text) = [match EXCEPT !.at = Len(values) + 1, !.new = Append(@, text)]
    BY <1>2 DEF MatchDup
  <2>2. \A k \in match.at .. Len(values) : values[k] # text
    BY <1>2
  <2> DEFINE left == MatchDup(values, match, text)
  <2>3. Append(match.new, text) \in Seq(Text) /\ Len(values) + 1 \in 1 .. Len(values) + 1
    BY <1>1
  <2>4. left.at = Len(values) + 1 /\ left.kept = match.kept /\ left.new = Append(match.new, text)
    BY <2>1 DEF MatchType
  <2>5. left \in MatchType(values)
    BY <1>1, <2>1, <2>3 DEF MatchType
  <2> QED BY <2>2, <2>4, <2>5
<1>3. CASE found # {}
  <2>1. found \subseteq Nat
    BY <1>1
  <2> HIDE DEF found
  <2>2. next \in found
    BY <1>3, <2>1, LeastOf
  <2> HIDE DEF next
  <2>3. MatchDup(values, match, text) = [match EXCEPT !.at = next + 1, !.kept = @ \union {next}]
    BY <1>3 DEF MatchDup, found, next
  <2>4. next \in match.at .. Len(values) /\ values[next] = text
    BY <2>2 DEF found
  <2>5. next \in 1 .. Len(values) /\ next + 1 \in 1 .. Len(values) + 1
    BY <1>1, <2>4
  <2> QED BY <1>1, <2>3, <2>4, <2>5 DEF MatchType
<1> QED BY <1>2, <1>3

LEMMA MatchDupsSteps ==
  ASSUME NEW values \in Seq(Text), NEW texts \in Seq(Text)
  PROVE  \E after \in [0 .. Len(texts) -> MatchType(values)] :
           /\ after[0] = NoMatch
           /\ \A i \in 1 .. Len(texts) : after[i] = MatchDup(values, after[i - 1], texts[i])
           /\ MatchDups(values, texts) = after[Len(texts)]
<1> DEFINE n == Len(texts)
           X == MatchType(values)
           one(m, i) == CHOOSE r \in {MatchDup(values, v, texts[i]) : v \in {m}} : TRUE
           F(f) == [i \in 0 .. n |-> IF i = 0 THEN NoMatch ELSE one(f[i - 1], i)]
           after == CHOOSE f : f = F(f)
           step == [i \in 1 .. n |-> [m \in X |-> MatchDup(values, m, texts[i])]]
<1>1. n \in Nat /\ \A i \in 1 .. n : texts[i] \in Text
  OBVIOUS
<1>2. \A m, i : one(m, i) = MatchDup(values, m, texts[i])
  OBVIOUS
<1>3. MatchDups(values, texts) = after[n]
  BY DEF MatchDups, Carry, Given, NoMatch
<1>4. NoMatch \in X
  BY DEF NoMatch, MatchType
<1>5. step \in [1 .. n -> [X -> X]]
  <2>1. \A i \in 1 .. n : \A m \in X : MatchDup(values, m, texts[i]) \in X
    BY <1>1, MatchDupType
  <2> HIDE DEF X
  <2> QED BY <2>1
<1>6. \A i \in 1 .. n : \A m \in X : step[i][m] = MatchDup(values, m, texts[i])
  OBVIOUS
<1> HIDE DEF step, n, X, one
<1>7. PICK g \in [0 .. n -> X] : Follows(g, n, NoMatch, step)
  BY <1>1, <1>4, <1>5, Stepwise
<1>8. /\ g[0] = NoMatch
      /\ \A i \in 1 .. n : g[i] = MatchDup(values, g[i - 1], texts[i])
  <2>1. \A i \in 1 .. n : i - 1 \in 0 .. n
    BY <1>1
  <2>2. \A i \in 1 .. n : g[i - 1] \in X
    BY <1>7, <2>1
  <2> QED BY <1>6, <1>7, <2>2 DEF Follows
<1>9. g = F(g)
  <2>1. \A i \in 0 .. n : g[i] = IF i = 0 THEN NoMatch ELSE one(g[i - 1], i)
    <3> SUFFICES ASSUME NEW i \in 0 .. n, i # 0 PROVE g[i] = one(g[i - 1], i)
      BY <1>8
    <3>1. i \in 1 .. n
      BY <1>1
    <3> QED BY <1>2, <1>8, <3>1
  <2> QED BY <1>7, <2>1
<1>10. after = F(after)
  BY <1>9
<1> HIDE DEF after
<1>11. /\ after[0] = NoMatch
       /\ \A i \in 1 .. n : after[i] = MatchDup(values, after[i - 1], texts[i])
  <2>1. 0 \in 0 .. n /\ \A i \in 1 .. n : i \in 0 .. n /\ i # 0
    BY <1>1
  <2> QED BY <1>2, <1>10, <2>1
<1> DEFINE T == {i \in 0 .. n : after[i] \in X}
<1>12. \A i \in 0 .. n : i \in T
  <2>1. 0 \in T
    BY <1>1, <1>4, <1>11
  <2>2. ASSUME NEW i \in 0 .. n - 1, i \in T PROVE i + 1 \in T
    <3>1. PICK j \in 1 .. n : j = i + 1
      BY <1>1
    <3>2. after[j] = MatchDup(values, after[i], texts[j])
      <4>1. j - 1 = i
        BY <3>1
      <4> QED BY <1>11, <4>1
    <3>3. after[j] \in X
      BY <1>1, <2>2, <3>2, MatchDupType DEF X
    <3> QED BY <1>1, <3>1, <3>3
  <2> HIDE DEF T
  <2> QED BY <1>1, <2>1, <2>2, UpTo
<1>13. after \in [0 .. n -> X]
  BY <1>10, <1>12
<1> QED BY <1>3, <1>11, <1>13 DEF n, X

LEMMA MatchDupsType ==
  ASSUME NEW values \in Seq(Text), NEW texts \in Seq(Text)
  PROVE  MatchDups(values, texts) \in MatchType(values)
<1>1. Len(texts) \in 0 .. Len(texts)
  OBVIOUS
<1>2. PICK after \in [0 .. Len(texts) -> MatchType(values)] : MatchDups(values, texts) = after[Len(texts)]
  BY MatchDupsSteps
<1> QED BY <1>1, <1>2

LEMMA KeepOnlyType ==
  ASSUME NEW fields \in Seq(Field), NEW name, NEW kept
  PROVE  KeepOnly(fields, name, kept) \in Seq(Field)
BY PickedOf DEF KeepOnly

LEMMA AddAllType ==
  ASSUME NEW fields \in Seq(Field), NEW name \in Token, NEW texts \in Seq(Text)
  PROVE  AddAll(fields, name, texts) \in Seq(Field)
<1> DEFINE new == [i \in DOMAIN texts |-> [name |-> name, value |-> texts[i]]]
<1>1. \A i \in DOMAIN texts : [name |-> name, value |-> texts[i]] \in Field
  BY DEF Field
<1>2. new \in Seq(Field)
  BY <1>1
<1> HIDE DEF new
<1> QED BY <1>2, ConcatProperties DEF AddAll, new

-----------------------------------------------------------------------------
(* Queries.                                                                *)

\* An element ends before the next separator.
LEMMA EndOfElement ==
  ASSUME NEW q \in Text, NEW p \in Elements(q)
  PROVE  /\ p \in 1 .. Len(q) /\ q[p] \notin Separators /\ EndOf(q, p) \in p .. Len(q)
         /\ \A i \in p .. EndOf(q, p) : q[i] \notin Separators
         /\ EndOf(q, p) < Len(q) => q[EndOf(q, p) + 1] \in Separators
<1> DEFINE E == {e \in p .. Len(q) : \A i \in p .. e : q[i] \notin Separators}
<1>1. p \in 1 .. Len(q) /\ q[p] \notin Separators /\ Len(q) \in Nat
  BY DEF Elements, Text
<1>2. E \subseteq Nat /\ p \in E /\ \A e \in E : e <= Len(q)
  BY <1>1
<1>3. EndOf(q, p) = Max(E)
  BY DEF EndOf
<1> HIDE DEF E
<1>4. Max(E) \in E /\ \A e \in E : e <= Max(E)
  BY <1>1, <1>2, MaxOf
<1>5. /\ EndOf(q, p) \in p .. Len(q)
      /\ \A i \in p .. EndOf(q, p) : q[i] \notin Separators
  BY <1>3, <1>4 DEF E
<1>6. ASSUME EndOf(q, p) < Len(q), q[EndOf(q, p) + 1] \notin Separators
      PROVE  FALSE
  <2>1. EndOf(q, p) + 1 \in E
    BY <1>1, <1>5, <1>6 DEF E
  <2> QED BY <2>1, <1>1, <1>3, <1>4, <1>5
<1> QED BY <1>1, <1>5, <1>6

LEMMA FoundName ==
  ASSUME NEW q \in Text, NEW name, NEW nocase \in BOOLEAN, FindName(q, name, nocase) # 0
  PROVE  /\ FindName(q, name, nocase) \in Elements(q)
         /\ nocase => NoCase(q[FindName(q, name, nocase)]) = NoCase(name)
         /\ \A p \in Elements(q) :
              nocase /\ NoCase(q[p]) = NoCase(name) => FindName(q, name, nocase) <= p
<1> DEFINE found == {p \in Elements(q) : IF nocase THEN NoCase(q[p]) = NoCase(name) ELSE q[p] = name}
<1>1. FindName(q, name, nocase) = IF found = {} THEN 0 ELSE Min(found)
  BY DEF FindName
<1>2. found \subseteq Nat
  BY DEF Elements, Text
<1> HIDE DEF found
<1>3. FindName(q, name, nocase) \in found /\ \A p \in found : FindName(q, name, nocase) <= p
  BY <1>1, <1>2, MinOf
<1> QED BY <1>3 DEF found

LEMMA TrimText ==
  ASSUME NEW q \in Text
  PROVE  RTrim(q) \in Text /\ LTrim(q) \in Text
<1> DEFINE R == {0} \union {i \in DOMAIN q : q[i] \notin Separators}
           L == {Len(q) + 1} \union {i \in DOMAIN q : q[i] \notin Separators}
<1>1. Len(q) \in Nat /\ R \subseteq Nat /\ R # {} /\ \A i \in R : i <= Len(q)
  BY DEF Text
<1>2. L \subseteq Nat \ {0} /\ L # {}
  BY DEF Text
<1>3. RTrim(q) = SubSeq(q, 1, Max(R)) /\ LTrim(q) = SubSeq(q, Min(L), Len(q))
  BY DEF RTrim, LTrim
<1> HIDE DEF R, L
<1>4. Max(R) \in 0 .. Len(q)
  <2>1. Max(R) \in R
    <3>1. R \subseteq Nat /\ R # {} /\ Len(q) \in Nat /\ \A i \in R : i <= Len(q)
      BY <1>1
    <3> QED BY <3>1, MaxOf
  <2>2. Max(R) \in Nat /\ Max(R) <= Len(q)
    BY <1>1, <2>1
  <2> QED BY <1>1, <2>2
<1>5. Min(L) \in Nat \ {0}
  <2>1. L \subseteq Nat
    BY <1>2
  <2>2. Min(L) \in L
    BY <1>2, <2>1, MinOf
  <2> QED BY <1>2, <2>2
<1>6. 1 \in Nat \ {0} /\ Len(q) \in 0 .. Len(q)
  BY <1>1
<1>7. SubSeq(q, 1, Max(R)) \in Text
  BY <1>4, <1>6, SubText
<1>8. SubSeq(q, Min(L), Len(q)) \in Text
  BY <1>5, <1>6, SubText
<1> QED BY <1>3, <1>7, <1>8

LEMMA QueryText ==
  ASSUME NEW q \in Text, NEW name \in Token, NEW value \in Feature
  PROVE  query_value_update(q, name, value) \in Text
<1> DEFINE p == FindName(q, name, TRUE)
<1>1. Format(value) \in Text /\ Len(q) \in Nat
  BY FormatText DEF Text
<1>2. <<name, "=">> \in Text /\ <<"&", name, "=">> \in Text
  <2>1. "=" \in Token /\ "&" \in Token
    BY DEF Token
  <2> QED BY <2>1 DEF Text
<1>3. ASSUME NEW at \in Elements(q)
      PROVE  DropPair(q, at) \in Text /\ SetPair(q, at, value) \in Text
  <2> DEFINE e == EndOf(q, at)
  <2>1. at \in 1 .. Len(q) /\ e \in at .. Len(q)
    BY EndOfElement
  <2> HIDE DEF e
  <2>2. /\ at - 1 \in 0 .. Len(q) /\ at \in 0 .. Len(q) /\ e + 1 \in Nat \ {0} /\ Len(q) \in 0 .. Len(q)
        /\ 1 \in Nat \ {0}
    BY <1>1, <2>1
  <2>3. SubSeq(q, 1, at) \in Text /\ SubSeq(q, 1, at - 1) \in Text /\ SubSeq(q, e + 1, Len(q)) \in Text
    BY <2>2, SubText
  <2>4. RTrim(SubSeq(q, 1, at - 1)) \in Text /\ LTrim(SubSeq(q, e + 1, Len(q))) \in Text
    BY <2>3, TrimText
  <2>5. DropPair(q, at) \in Text
    BY <2>4, TokenTexts, ConcatText DEF DropPair, e
  <2>6. SetPair(q, at, value) \in Text
    BY <1>1, <2>3, TokenTexts, ConcatText DEF SetPair, e
  <2> QED BY <2>5, <2>6
<1>4. p # 0 => DropPair(q, p) \in Text /\ SetPair(q, p, value) \in Text
  BY <1>3, FoundName
<1>5. <<name, "=">> \o Format(value) \in Text /\ q \o <<"&", name, "=">> \o Format(value) \in Text
  BY <1>1, <1>2, ConcatText
<1> HIDE DEF p
<1> QED BY <1>4, <1>5, TokenTexts DEF query_value_update, p

-----------------------------------------------------------------------------
(* URLs and requests.                                                      *)

LEMMA PortType == \A n \in Int : AsPort(n) \in 0 .. MaxPort
BY DEF AsPort, MaxPort

LEMMA UrlSet ==
  ASSUME NEW url \in Url, NEW host \in Text, NEW port \in Int
  PROVE  host_set(url, host) \in Url /\ port_set(url, port) \in Url
BY PortType DEF Url, host_set, port_set

LEMMA MappedPathText ==
  ASSUME NEW path \in Text
  PROVE  MappedPath(path) \in Text
<1>1. ASSUME NEW text \in Text PROVE Slashless(text) \in Text
  <2> DEFINE L == {Len(text) + 1} \union {i \in DOMAIN text : text[i] # "/"}
  <2>1. L \subseteq Nat \ {0} /\ L # {} /\ Len(text) \in 0 .. Len(text)
    BY DEF Text
  <2>2. Slashless(text) = SubSeq(text, Min(L), Len(text))
    BY DEF Slashless
  <2> HIDE DEF L
  <2>3. Min(L) \in L
    <3>1. L \subseteq Nat /\ L # {}
      BY <2>1
    <3> QED BY <3>1, MinOf
  <2>4. Min(L) \in Nat \ {0}
    BY <2>1, <2>3
  <2> QED BY <2>1, <2>2, <2>4, SubText
<1>2. Target.path \in Text /\ Replacement.path \in Text
  BY RuleAssumption DEF Url
<1>3. SubSeq(path, Len(Target.path) + 1, Len(path)) \in Text
  <2>1. Len(Target.path) + 1 \in Nat \ {0} /\ Len(path) \in 0 .. Len(path)
    BY <1>2 DEF Text
  <2> QED BY <2>1, SubText
<1>4. Replacement.path
        \o (IF Replacement.path # <<>> /\ Replacement.path[Len(Replacement.path)] # "/" THEN <<"/">> ELSE <<>>)
        \o Slashless(SubSeq(path, Len(Target.path) + 1, Len(path))) \in Text
  BY <1>1, <1>2, <1>3, TokenTexts, ConcatText
<1> QED BY <1>1, <1>2, <1>4 DEF MappedPath

LEMMA RequestOf ==
  ASSUME NEW req \in Request
  PROVE  /\ req.valid /\ req.url \in Url /\ req.fields \in Seq(Field) /\ req.method \in Text
         /\ \A url \in Url : [req EXCEPT !.url = url] \in Request
         /\ \A fields \in Seq(Field) : [req EXCEPT !.fields = fields] \in Request
         /\ \A url \in Url, fields \in Seq(Field) : [req EXCEPT !.url = url, !.fields = fields] \in Request
BY DEF Request

LEMMA ResponseOf ==
  ASSUME NEW rsp \in Response
  PROVE  /\ rsp.valid /\ rsp.fields \in Seq(Field) /\ rsp.status \in Nat /\ rsp.reason \in Text
         /\ \A fields \in Seq(Field) : [rsp EXCEPT !.fields = fields] \in Response
         /\ \A status \in Nat : [rsp EXCEPT !.status = status] \in Response
         /\ \A reason \in Text : [rsp EXCEPT !.reason = reason] \in Response
BY DEF Response

LEMMA HostFieldText ==
  ASSUME NEW text \in Text, NEW host \in Text
  PROVE  HostFieldFor(text, host) \in Text
BY HostTokenText, TokenTexts, ConcatText DEF HostFieldFor, WithPort

LEMMA RequestHostSetType ==
  ASSUME NEW req \in Request, NEW host \in Text
  PROVE  RequestHostSet(req, host) \in Request
<1> DEFINE fields == IF HasField(req.fields, "Host")
                     THEN field_obtain(req.fields, "Host", HostFieldFor(FieldValue(req.fields, "Host"), host))
                     ELSE IF req.url.host = <<>> THEN field_create(req.fields, "Host", host)
                     ELSE req.fields
           url == IF req.url.host # <<>> THEN host_set(req.url, host) ELSE req.url
<1>1. req.url \in Url /\ req.fields \in Seq(Field)
  BY RequestOf
<1>2. url \in Url
  BY <1>1, UrlSet
<1>3. "Host" \in Token
  BY DEF Token
<1>4. fields \in Seq(Field)
  <2>1. CASE HasField(req.fields, "Host")
    BY <1>1, <1>3, <2>1, FieldOf, HostFieldText, FieldObtained
  <2>2. CASE ~ HasField(req.fields, "Host")
    <3>1. [name |-> "Host", value |-> host] \in Field
      BY <1>3 DEF Field
    <3> QED BY <1>1, <2>2, <3>1 DEF field_create
  <2> QED BY <2>1, <2>2
<1>5. RequestHostSet(req, host) = [req EXCEPT !.url = url, !.fields = fields]
  BY DEF RequestHostSet
<1> HIDE DEF url, fields
<1> QED BY <1>2, <1>4, <1>5 DEF Request

LEMMA RequestPortSetType ==
  ASSUME NEW req \in Request, NEW port \in Int
  PROVE  RequestPortSet(req, port) \in Request
<1> DEFINE text == FieldValue(req.fields, "Host")
           host == HostToken(text) \o (IF AsPort(port) > 0 THEN <<":">> ELSE <<>>)
           fields == IF HasField(req.fields, "Host") /\ Tokenizes(text)
                     THEN field_obtain(req.fields, "Host", host) ELSE req.fields
           url == IF req.url.host # <<>> THEN port_set(req.url, port) ELSE req.url
<1>1. req.url \in Url /\ req.fields \in Seq(Field)
  BY RequestOf
<1>2. url \in Url
  <2>1. <<>> \in Text
    BY TokenTexts
  <2> QED BY <1>1, <2>1, UrlSet
<1>3. "Host" \in Token
  BY DEF Token
<1>4. fields \in Seq(Field)
  <2> SUFFICES ASSUME HasField(req.fields, "Host") PROVE field_obtain(req.fields, "Host", host) \in Seq(Field)
    BY <1>1
  <2>1. text \in Text
    BY <1>1, FieldOf
  <2> HIDE DEF text
  <2>2. host \in Text
    BY <2>1, HostTokenText, TokenTexts, ConcatText
  <2> HIDE DEF host
  <2> QED BY <1>1, <1>3, <2>2, FieldObtained
<1>5. RequestPortSet(req, port) = [req EXCEPT !.url = url, !.fields = fields]
  BY DEF RequestPortSet
<1> HIDE DEF url, fields
<1> QED BY <1>2, <1>4, <1>5 DEF Request

-----------------------------------------------------------------------------
(* The invariants.                                                         *)

Messages == {"ua", "preq", "ursp", "prsp"}

MsgType ==
  [ua : Request, preq : Request \union {NoMessage},
   ursp : Response \union {NoMessage}, prsp : Response \union {NoMessage}]

ReplyType ==
  [status : {0} \union 100 .. 599, reason : Text, location : Text, moved : Text,
   fixups : Seq({"proxy-reply", "redirect"})]

TypeOK ==
  /\ hook \in TxnHook \union {"FIXUP", "DONE"}
  /\ msgs \in MsgType /\ pristine \in Url \union {NoUrl}
  /\ reply \in ReplyType /\ asked \in [reason : Text, location : Text]
  /\ end \in {"none", "ok", "error", "throws", "hangs"} /\ count \in Nat

\* A response is there where directives on it are allowed.
Present ==
  /\ hook = "URSP" => msgs.ursp.valid
  /\ hook \in {"PRSP", "FIXUP", "DONE"} => msgs.prsp.valid

Scheduled(which) == \E i \in DOMAIN reply.fixups : reply.fixups[i] = which

\* What replies and redirects asked for is in their state, and is scheduled, or done.
ReplyInv ==
  /\ asked.location = reply.location /\ asked.reason \in {reply.reason, reply.moved}
  /\ hook \notin {"FIXUP", "DONE"} =>
       /\ reply.location # <<>> \/ reply.moved # <<>> => Scheduled("redirect")
       /\ reply.reason # <<>> => Scheduled("proxy-reply")
  /\ hook \in {"FIXUP", "DONE"} =>
       /\ \/ reply.location = <<>> \/ Scheduled("redirect")
          \/ /\ HasField(msgs.prsp.fields, "Location")
             /\ FieldValue(msgs.prsp.fields, "Location") = reply.location
       /\ reply.reason = <<>> /\ reply.moved # <<>> => Scheduled("redirect") \/ msgs.prsp.reason = reply.moved
       /\ reply.moved = <<>> /\ reply.reason # <<>> => Scheduled("proxy-reply") \/ msgs.prsp.reason = reply.reason
  /\ hook = "DONE" => reply.fixups = <<>>

IInv == TypeOK /\ Present /\ ReplyInv

\* A directive that is about one message, and what it leaves.
Entered(name) ==
  /\ Running /\ hook \in TxnHook /\ UNCHANGED <<hook, pristine, conn>>
  /\ count' = count + 1 /\ did' = [name |-> name, value |-> did'.value]

Changed(which) ==
  /\ UNCHANGED <<reply, asked>> /\ end' \in {"ok", "error", "throws", "hangs"}
  /\ \/ msgs' = msgs
     \/ /\ which \in Messages /\ msgs[which].valid
        /\ \E m \in IF which \in {"ua", "preq"} THEN Request ELSE Response : msgs' = [msgs EXCEPT ![which] = m]

Directive(name) == Entered(name) /\ Changed(About(name))

LEMMA MessageOf ==
  ASSUME TypeOK
  PROVE  /\ msgs.ua \in Request /\ msgs.ua.valid
         /\ \A which \in {"ua", "preq"} : msgs[which].valid => msgs[which] \in Request
         /\ \A which \in {"ursp", "prsp"} : msgs[which].valid => msgs[which] \in Response
<1>1. msgs \in MsgType /\ ~ NoMessage.valid
  BY DEF TypeOK, NoMessage
<1>2. msgs.ua \in Request
  BY <1>1 DEF MsgType
<1> HIDE DEF NoMessage
<1> QED BY <1>1, <1>2, RequestOf DEF MsgType

LEMMA EnteredAt ==
  ASSUME NEW name, NEW hooks, hooks \subseteq TxnHook, NEW v, At(name, hooks, v) \/ AtReply(name, hooks, v)
  PROVE  Entered(name) /\ hook \in hooks /\ did' = [name |-> name, value |-> v]
BY DEF Entered, At, AtReply, Enter

LEMMA ChangedNot ==
  ASSUME NEW which, \/ Skip \/ Fail \/ Throw \/ Hang \/ \E setting, value : Set(setting, value)
  PROVE  Changed(which)
BY DEF Changed, Skip, Fail, Throw, Hang, Set, Leave

LEMMA ChangedBy ==
  ASSUME NEW which \in Messages, NEW m, Change(which, m),
         msgs[which].valid => m \in IF which \in {"ua", "preq"} THEN Request ELSE Response
  PROVE  Changed(which)
BY ChangedNot DEF Change, Changed, Leave

LEMMA UrlChanged ==
  ASSUME TypeOK, NEW which \in {"ua", "preq"}, NEW url, SetUrl(which, url),
         msgs[which].valid => url \in Url
  PROVE  Changed(which)
<1> DEFINE m == [msgs[which] EXCEPT !.url = url]
<1>1. msgs[which].valid => m \in Request
  BY MessageOf, RequestOf
<1>2. Change(which, m)
  BY DEF SetUrl
<1> HIDE DEF m
<1> QED BY <1>1, <1>2, ChangedBy DEF Messages

LEMMA PartChanged ==
  ASSUME TypeOK, NEW which \in {"ua", "preq"}, NEW part \in {"scheme", "host", "path", "query", "fragment"},
         NEW text \in Text, SetPart(which, part, text)
  PROVE  Changed(which)
<1> DEFINE m == [msgs[which] EXCEPT !.url[part] = text]
<1>1. ASSUME msgs[which].valid PROVE m \in Request
  <2>1. msgs[which] \in Request
    BY <1>1, MessageOf
  <2>2. m = [msgs[which] EXCEPT !.url = [msgs[which].url EXCEPT ![part] = text]]
    BY <2>1 DEF Request
  <2>3. [msgs[which].url EXCEPT ![part] = text] \in Url
    <3> DEFINE url == msgs[which].url
    <3>1. url \in Url
      BY <2>1, RequestOf
    <3> HIDE DEF url
    <3>2. /\ [url EXCEPT !["scheme"] = text] \in Url /\ [url EXCEPT !["host"] = text] \in Url
          /\ [url EXCEPT !["path"] = text] \in Url /\ [url EXCEPT !["query"] = text] \in Url
          /\ [url EXCEPT !["fragment"] = text] \in Url
      BY <3>1 DEF Url
    <3>3. [url EXCEPT ![part] = text] \in Url
      BY <3>2, Zenon
    <3> QED BY <3>3 DEF url
  <2> QED BY <2>1, <2>2, <2>3, RequestOf
<1>2. Change(which, m)
  BY DEF SetPart
<1> HIDE DEF m
<1> QED BY <1>1, <1>2, ChangedBy DEF Messages

LEMMA PartOfChanged ==
  ASSUME TypeOK, NEW which \in {"ua", "preq"}, NEW part \in {"scheme", "host", "path", "query", "fragment"},
         NEW v \in Feature, SetPartOf(which, part, v) \/ (Is(v, "STRING") /\ SetPart(which, part, Val(v)))
  PROVE  Changed(which)
<1>1. CASE Is(v, "STRING")
  BY <1>1, FeatureOf, PartChanged DEF SetPartOf
<1>2. CASE ~ Is(v, "STRING")
  BY <1>2, ChangedNot DEF SetPartOf
<1> QED BY <1>1, <1>2

\* The location that a value gives.
LEMMA LocType ==
  ASSUME NEW v \in Feature
  PROVE  /\ Is(v, "STRING") => Loc_String_Parse(Val(v)) \in [host : Text, port : Int]
         /\ Is(v, "TUPLE") => \A lone \in Int : LocOfTuple(Val(v), lone) \in [host : Text, port : Int]
         /\ URL_Loc(v) \in [host : Text, port : Int]
<1>1. NoLoc \in [host : Text, port : Int]
  <2>1. -1 \in Int
    OBVIOUS
  <2> QED BY <2>1, TokenTexts DEF NoLoc
<1>2. ASSUME Is(v, "STRING") PROVE Loc_String_Parse(Val(v)) \in [host : Text, port : Int]
  <2>1. Val(v) \in Text
    BY <1>2, FeatureOf
  <2> DEFINE port == PortOfToken(PortToken(Val(v)))
  <2>2. AllTokens(Val(v)) /\ (PortToken(Val(v)) = <<>> \/ port \in 1 .. MaxPort) => port \in Int
    BY DEF PortOfToken
  <2>3. HostToken(Val(v)) \in Text
    BY <2>1, HostTokenText
  <2> HIDE DEF port
  <2> QED BY <1>1, <2>2, <2>3 DEF Loc_String_Parse, port
<1>3. ASSUME Is(v, "TUPLE"), NEW lone \in Int PROVE LocOfTuple(Val(v), lone) \in [host : Text, port : Int]
  <2>1. Val(v) \in Seq(Feature)
    BY <1>3, FeatureOf, FlatFeature, SeqMonotonic
  <2>2. Val(v) # <<>> /\ Is(Val(v)[1], "STRING") => Val(Val(v)[1]) \in Text
    BY <2>1, FeatureOf
  <2>3. Val(v) # <<>> /\ Len(Val(v)) # 1 => as_integer(Val(v)[2], -1) \in Int
    <3>1. Val(v) # <<>> /\ Len(Val(v)) # 1 => Val(v)[2] \in Feature
      <4> SUFFICES ASSUME Val(v) # <<>>, Len(Val(v)) # 1 PROVE Val(v)[2] \in Feature
        OBVIOUS
      <4>1. Len(Val(v)) \in Nat /\ Len(Val(v)) # 0
        BY <2>1, EmptySeq
      <4>2. \A n \in Nat : n # 0 /\ n # 1 => 2 \in 1 .. n
        OBVIOUS
      <4>3. 2 \in 1 .. Len(Val(v))
        BY <4>1, <4>2, Zenon
      <4> QED BY <2>1, <4>3, ElementOfSeq
    <3>2. -1 \in Int
      OBVIOUS
    <3> QED BY <3>1, <3>2, IntegerOf
  <2>4. Val(v) # <<>> =>
          (IF Len(Val(v)) = 1 THEN lone ELSE IF is_empty(Val(v)[2]) THEN 0 ELSE as_integer(Val(v)[2], -1)) \in Int
    BY <2>3
  <2> QED BY <1>1, <2>2, <2>4 DEF LocOfTuple
<1> QED BY <1>1, <1>2, <1>3 DEF URL_Loc

LEMMA UrlPortChanged ==
  ASSUME TypeOK, NEW which \in {"ua", "preq"}, NEW v \in Feature, SetUrlPort(which, v)
  PROVE  Changed(which)
<1>1. msgs[which].valid => port_set(msgs[which].url, as_integer(v, -1)) \in Url
  <2>1. -1 \in Int
    OBVIOUS
  <2>2. as_integer(v, -1) \in Int
    BY <2>1, IntegerOf
  <2> QED BY <2>2, MessageOf, RequestOf, UrlSet, TokenTexts
<1> QED BY <1>1, UrlChanged, ChangedNot DEF SetUrlPort

LEMMA UrlLocChanged ==
  ASSUME TypeOK, NEW which \in {"ua", "preq"}, NEW v \in Feature, URL_Loc_Set(which, v)
  PROVE  Changed(which)
<1>1. URL_Loc(v).host \in Text /\ URL_Loc(v).port \in Int
  BY LocType
<1>2. msgs[which].valid => port_set(host_set(msgs[which].url, URL_Loc(v).host), URL_Loc(v).port) \in Url
  BY <1>1, MessageOf, RequestOf, UrlSet
<1> QED BY <1>2, UrlChanged, ChangedNot DEF URL_Loc_Set

LEMMA ReqLocChanged ==
  ASSUME TypeOK, NEW which \in {"ua", "preq"}, NEW v \in Feature, Req_Loc_Set(which, v)
  PROVE  Changed(which)
<1> DEFINE isText == Is(v, "STRING") /\ Loc_String_Parse(Val(v)).port >= 0
           isTuple == Is(v, "TUPLE") /\ Val(v) # <<>> /\ Is(Val(v)[1], "STRING")
           loc == IF isText THEN Loc_String_Parse(Val(v)) ELSE LocOfTuple(Val(v), 0)
           req == msgs[which]
           texts == IF isText THEN {Val(v)} ELSE HostTexts(loc)
           now(text) == [req EXCEPT !.fields = field_obtain(@, "Host", text),
                                    !.url = IF loc.port >= 0 /\ @.host # <<>>
                                            THEN port_set(host_set(@, loc.host), loc.port) ELSE @]
<1>1. CASE ~ isText /\ ~ isTuple
  BY <1>1, ChangedNot DEF Req_Loc_Set
<1>2. CASE isText \/ isTuple
  <2>1. PICK text \in texts : Change(which, now(text))
    BY <1>2 DEF Req_Loc_Set
  <2>2. loc.host \in Text /\ loc.port \in Int
    BY <1>2, LocType
  <2>3. text \in Text
    <3>1. isText => Val(v) \in Text
      BY FeatureOf
    <3>2. \A n : WithPort(loc.host, Digits(n)) \in Text
      BY <2>2, DigitsText, TokenTexts, ConcatText DEF WithPort
    <3>3. HostTexts(loc) \subseteq Text
      BY <2>2, <3>2 DEF HostTexts
    <3> HIDE DEF loc
    <3> QED BY <2>1, <3>1, <3>3
  <2> HIDE DEF loc, isText, isTuple
  <2>4. ASSUME req.valid PROVE now(text) \in Request
    <3>1. req \in Request
      BY <2>4, MessageOf
    <3> HIDE DEF req
    <3>2. req.url \in Url /\ req.fields \in Seq(Field)
      BY <3>1, RequestOf
    <3> DEFINE fields == field_obtain(req.fields, "Host", text)
               url == IF loc.port >= 0 /\ req.url.host # <<>>
                      THEN port_set(host_set(req.url, loc.host), loc.port) ELSE req.url
    <3>3. fields \in Seq(Field)
      <4>1. "Host" \in Token
        BY DEF Token
      <4> QED BY <2>3, <3>2, <4>1, FieldObtained
    <3>4. url \in Url
      BY <2>2, <3>2, UrlSet
    <3>5. now(text) = [req EXCEPT !.fields = fields, !.url = url]
      OBVIOUS
    <3> HIDE DEF fields, url
    <3> QED BY <3>1, <3>3, <3>4, <3>5 DEF Request
  <2> HIDE DEF now
  <2> QED BY <2>1, <2>4, ChangedBy DEF Messages
<1> QED BY <1>1, <1>2

LEMMA RequestHostChanged ==
  ASSUME TypeOK, NEW which \in {"ua", "preq"}, NEW v \in Feature, Is(v, "STRING"),
         Change(which, RequestHostSet(msgs[which], Val(v)))
  PROVE  Changed(which)
<1>1. msgs[which].valid => RequestHostSet(msgs[which], Val(v)) \in Request
  BY MessageOf, FeatureOf, RequestHostSetType
<1> QED BY <1>1, ChangedBy DEF Messages

LEMMA RequestPortChanged ==
  ASSUME TypeOK, NEW which \in {"ua", "preq"}, NEW v \in Feature, SetRequestPort(which, v)
  PROVE  Changed(which)
<1>1. -1 \in Int
  OBVIOUS
<1>2. as_integer(v, -1) \in Int
  BY <1>1, IntegerOf
<1>3. msgs[which].valid => RequestPortSet(msgs[which], as_integer(v, -1)) \in Request
  BY <1>2, MessageOf, RequestPortSetType
<1> QED BY <1>3, ChangedBy, ChangedNot DEF SetRequestPort, Messages

LEMMA WholeUrlChanged ==
  ASSUME TypeOK, NEW which \in {"ua", "preq"}, NEW v, SetWholeUrl(which, v)
  PROVE  Changed(which)
<1>1. msgs[which].valid => url_set(msgs[which], Val(v)) \in Request
  BY MessageOf, RequestOf, UrlAssumption DEF url_set
<1> QED BY <1>1, ChangedBy, ChangedNot DEF SetWholeUrl, Messages

LEMMA QueryChanged ==
  ASSUME TypeOK, NEW which \in {"ua", "preq"}, NEW name \in Token, NEW v \in Feature, UpdateQuery(which, name, v)
  PROVE  Changed(which)
<1> DEFINE query == query_value_update(msgs[which].url.query, name, v)
           now == [msgs EXCEPT ![which].url.query = query]
<1>1. CASE Fail \/ Throw
  BY <1>1, ChangedNot
<1>2. CASE msgs[which].valid /\ Leave("error", now, out)
  <2>1. msgs[which] \in Request
    BY <1>2, MessageOf
  <2>2. msgs[which].url \in Url /\ msgs[which].url.query \in Text
    BY <2>1, RequestOf DEF Url
  <2>3. query \in Text
    BY <2>2, QueryText
  <2> HIDE DEF query
  <2> DEFINE m == [msgs[which] EXCEPT !.url = [msgs[which].url EXCEPT !.query = query]]
  <2>4. m \in Request
    <3>1. [msgs[which].url EXCEPT !.query = query] \in Url
      BY <2>2, <2>3 DEF Url
    <3> QED BY <2>1, <3>1, RequestOf
  <2>5. now = [msgs EXCEPT ![which] = m]
    OBVIOUS
  <2> HIDE DEF m, now
  <2> QED BY <1>2, <2>4, <2>5 DEF Changed, Leave, Messages
<1> QED BY <1>1, <1>2 DEF UpdateQuery

LEMMA JoinedTexts ==
  ASSUME NEW v \in Feature, Is(v, "TUPLE")
  PROVE  [i \in DOMAIN Val(v) |-> join(Val(v)[i], <<",">>)] \in Seq(Text)
<1> DEFINE text(i) == join(Val(v)[i], <<",">>)
<1>1. Val(v) \in Seq(Flat)
  BY FeatureOf
<1>2. ASSUME NEW i \in 1 .. Len(Val(v)) PROVE text(i) \in Text
  <2>1. Val(v)[i] \in Feature
    BY <1>1, FlatFeature
  <2>2. <<",">> \in Text
    BY TokenTexts
  <2> QED BY <2>1, <2>2, JoinText
<1>3. \A i \in 1 .. Len(Val(v)) : text(i) \in Text
  BY <1>2
<1> HIDE DEF text
<1>4. Len(Val(v)) \in Nat /\ DOMAIN Val(v) = 1 .. Len(Val(v))
  BY <1>1
<1>5. [i \in 1 .. Len(Val(v)) |-> text(i)] \in Seq(Text)
  BY <1>3, <1>4
<1> QED BY <1>4, <1>5 DEF text

LEMMA FieldChanged ==
  ASSUME TypeOK, NEW which \in Messages, NEW name \in Token, NEW v \in Feature, FieldDirective(which, name, v)
  PROVE  Changed(which)
<1> DEFINE fields == msgs[which].fields
           values == FieldValues(fields, name)
           texts == IF Is(v, "TUPLE") THEN [i \in DOMAIN Val(v) |-> join(Val(v)[i], <<",">>)] ELSE <<>>
           match == MatchDups(values, texts)
           kept == AddAll(KeepOnly(fields, name, match.kept), name, match.new)
           one == IF is_nil(v) THEN KeepOnly(fields, name, {}) ELSE field_obtain(fields, name, Format(v))
           Now(fs) == Change(which, [msgs[which] EXCEPT !.fields = fs])
<1>1. CASE Fail \/ Hang
  BY <1>1, ChangedNot
<1>2. ASSUME msgs[which].valid, NEW fs \in Seq(Field), Now(fs)
      PROVE  Changed(which)
  <2> DEFINE m == [msgs[which] EXCEPT !.fields = fs]
  <2>1. m \in IF which \in {"ua", "preq"} THEN Request ELSE Response
    BY <1>2, MessageOf, RequestOf, ResponseOf DEF Messages
  <2>2. Change(which, m)
    BY <1>2
  <2> HIDE DEF m
  <2> QED BY <2>1, <2>2, ChangedBy
<1>3. msgs[which].valid => fields \in Seq(Field)
  BY MessageOf, RequestOf, ResponseOf DEF Messages
<1> HIDE DEF fields
<1>4. CASE msgs[which].valid /\ Is(v, "TUPLE") /\ Now(kept)
  <2>1. values \in Seq(Text)
    BY <1>3, <1>4, FieldValuesText
  <2>2. texts \in Seq(Text)
    BY <1>4, JoinedTexts
  <2> HIDE DEF values, texts
  <2>3. match.new \in Seq(Text)
    BY <2>1, <2>2, MatchDupsType DEF MatchType
  <2> HIDE DEF match
  <2>4. kept \in Seq(Field)
    BY <1>3, <1>4, <2>3, KeepOnlyType, AddAllType
  <2> HIDE DEF kept
  <2> QED BY <1>2, <1>4, <2>4
<1>5. CASE msgs[which].valid /\ Now(one)
  <2>1. one \in Seq(Field)
    BY <1>3, <1>5, FormatText, KeepOnlyType, FieldObtained
  <2> HIDE DEF one
  <2> QED BY <1>2, <1>5, <2>1
<1> QED BY <1>1, <1>4, <1>5 DEF FieldDirective, fields

LEMMA StatusChanged ==
  ASSUME TypeOK, Present, NEW which \in {"ursp", "prsp"}, msgs[which].valid, NEW v \in Feature, SetStatus(which, v)
  PROVE  Changed(which)
<1> DEFINE n == IF Is(v, "INTEGER") THEN Val(v) ELSE IF Is(v, "TUPLE") THEN Val(Val(v)[1]) ELSE 0
           rsp == IF Is(v, "TUPLE") /\ Len(Val(v)) = 2
                  THEN [msgs[which] EXCEPT !.reason = Val(Val(v)[2])] ELSE msgs[which]
<1>1. CASE Is(v, "TUPLE") /\ ~ StatusTuple(Val(v))
  BY <1>1, ChangedNot DEF SetStatus
<1>2. CASE ~ (Is(v, "TUPLE") /\ ~ StatusTuple(Val(v)))
  <2>1. rsp \in Response
    <3>1. msgs[which] \in Response
      BY MessageOf
    <3>2. ASSUME Is(v, "TUPLE"), Len(Val(v)) = 2 PROVE Val(Val(v)[2]) \in Text
      <4>1. Is(Val(v)[2], "STRING")
        BY <1>2, <3>2 DEF StatusTuple
      <4>2. Val(v) \in Seq(Flat)
        BY <3>2, FeatureOf
      <4>3. Val(v)[2] \in Feature
        BY <3>2, <4>2, FlatFeature
      <4> QED BY <4>1, <4>3, FeatureOf
    <3> QED BY <3>1, <3>2, ResponseOf
  <2> HIDE DEF rsp
  <2>2. CASE ValidStatus(n)
    <3> HIDE DEF n
    <3>1. n \in Nat
      BY <2>2 DEF ValidStatus
    <3>2. [rsp EXCEPT !.status = n] \in Response
      BY <2>1, <3>1, ResponseOf
    <3>3. Change(which, [rsp EXCEPT !.status = n])
      BY <1>2, <2>2 DEF SetStatus, n, rsp
    <3> QED BY <3>2, <3>3, ChangedBy DEF Messages
  <2>3. CASE ~ ValidStatus(n)
    <3>1. Leave("error", [msgs EXCEPT ![which] = rsp], out)
      BY <1>2, <2>3 DEF SetStatus, rsp
    <3> QED BY <2>1, <3>1 DEF Changed, Leave, Messages
  <2> QED BY <2>2, <2>3
<1> QED BY <1>1, <1>2

LEMMA ReasonChanged ==
  ASSUME TypeOK, NEW which \in {"ursp", "prsp"}, NEW v \in Feature, SetReason(which, v)
  PROVE  Changed(which)
<1>1. Is(v, "STRING") /\ msgs[which].valid => [msgs[which] EXCEPT !.reason = Val(v)] \in Response
  BY MessageOf, FeatureOf, ResponseOf
<1>2. CASE Is(v, "STRING")
  <2>1. Change(which, [msgs[which] EXCEPT !.reason = Val(v)])
    BY <1>2 DEF SetReason
  <2> QED BY <1>1, <1>2, <2>1, ChangedBy DEF Messages
<1>3. CASE ~ Is(v, "STRING")
  BY <1>3, ChangedNot DEF SetReason
<1> QED BY <1>2, <1>3

-----------------------------------------------------------------------------
(* The directives.                                                         *)

LEMMA Disjoint ==
  /\ OfUa \intersect OfPreq = {} /\ OfUa \intersect OfUrsp = {} /\ OfUa \intersect OfPrsp = {}
  /\ OfPreq \intersect OfUrsp = {} /\ OfPreq \intersect OfPrsp = {} /\ OfUrsp \intersect OfPrsp = {}
BY DEF OfUa, OfPreq, OfUrsp, OfPrsp

LEMMA Abouts ==
  /\ \A name \in OfUa : About(name) = "ua"
  /\ \A name \in OfPreq : About(name) = "preq"
  /\ \A name \in OfUrsp : About(name) = "ursp"
  /\ \A name \in OfPrsp : About(name) = "prsp"
BY Disjoint DEF About

\* The values of the arguments.
LEMMA Arguments ==
  /\ \A v \in HostArg \union LocArg \union PortArg \union TextArg \union UrlArg \union FieldArg : v \in Feature
  /\ \A v \in StatusArg \union FlagArg \union BodyArg \union QueryArg \union ValueArg : v \in Feature
  /\ FieldName \subseteq Token /\ QueryName \subseteq Token
BY ArgAssumption

LEMMA HostsChanged ==
  ASSUME TypeOK, OnHosts
  PROVE  Directive(did'.name)
<1>1. ASSUME NEW v \in HostArg, Do_ua_req_url_host(v) \/ Do_proxy_req_url_host(v) \/ Do_ua_req_host(v) \/
             Do_proxy_req_host(v)
      PROVE  Directive(did'.name)
  <2>0. v \in Feature
    BY Arguments
  <2>1. CASE Do_ua_req_url_host(v)
    <3>1. Entered(did'.name) /\ did'.name \in OfUa
      BY <2>1 DEF Do_ua_req_url_host, At, Enter, Entered, UaHooks, LocHooks, TxnHook, OfUa
    <3>2. Changed("ua")
      BY <2>0, <2>1, PartOfChanged, ChangedNot DEF Do_ua_req_url_host
    <3> QED BY <3>1, <3>2, Abouts DEF Directive
  <2>2. CASE Do_proxy_req_url_host(v)
    <3>1. Entered(did'.name) /\ did'.name \in OfPreq
      BY <2>2 DEF Do_proxy_req_url_host, At, Enter, Entered, UaHooks, LocHooks, TxnHook, OfPreq
    <3>2. Changed("preq")
      BY <2>0, <2>2, PartOfChanged, ChangedNot DEF Do_proxy_req_url_host
    <3> QED BY <3>1, <3>2, Abouts DEF Directive
  <2>3. CASE Do_ua_req_host(v)
    <3>1. Entered(did'.name) /\ did'.name \in OfUa
      BY <2>3 DEF Do_ua_req_host, At, Enter, Entered, UaHooks, LocHooks, TxnHook, OfUa
    <3>2. Changed("ua")
      BY <2>0, <2>3, RequestHostChanged, ChangedNot DEF Do_ua_req_host
    <3> QED BY <3>1, <3>2, Abouts DEF Directive
  <2>4. CASE Do_proxy_req_host(v)
    <3>1. Entered(did'.name) /\ did'.name \in OfPreq
      BY <2>4 DEF Do_proxy_req_host, At, Enter, Entered, UaHooks, LocHooks, TxnHook, OfPreq
    <3>2. Changed("preq")
      BY <2>0, <2>4, RequestHostChanged, ChangedNot DEF Do_proxy_req_host
    <3> QED BY <3>1, <3>2, Abouts DEF Directive
  <2> QED BY <1>1, <2>1, <2>2, <2>3, <2>4
<1>2. ASSUME NEW v \in PortArg, Do_ua_req_url_port(v) \/ Do_proxy_req_url_port(v) \/ Do_ua_req_port(v) \/
             Do_proxy_req_port(v)
      PROVE  Directive(did'.name)
  <2>0. v \in Feature
    BY Arguments
  <2>1. CASE Do_ua_req_url_port(v)
    <3>1. Entered(did'.name) /\ did'.name \in OfUa
      BY <2>1 DEF Do_ua_req_url_port, At, Enter, Entered, UaHooks, LocHooks, TxnHook, OfUa
    <3>2. Changed("ua")
      BY <2>0, <2>1, UrlPortChanged, ChangedNot DEF Do_ua_req_url_port
    <3> QED BY <3>1, <3>2, Abouts DEF Directive
  <2>2. CASE Do_proxy_req_url_port(v)
    <3>1. Entered(did'.name) /\ did'.name \in OfPreq
      BY <2>2 DEF Do_proxy_req_url_port, At, Enter, Entered, UaHooks, LocHooks, TxnHook, OfPreq
    <3>2. Changed("preq")
      BY <2>0, <2>2, UrlPortChanged, ChangedNot DEF Do_proxy_req_url_port
    <3> QED BY <3>1, <3>2, Abouts DEF Directive
  <2>3. CASE Do_ua_req_port(v)
    <3>1. Entered(did'.name) /\ did'.name \in OfUa
      BY <2>3 DEF Do_ua_req_port, At, Enter, Entered, UaHooks, LocHooks, TxnHook, OfUa
    <3>2. Changed("ua")
      BY <2>0, <2>3, RequestPortChanged, ChangedNot DEF Do_ua_req_port
    <3> QED BY <3>1, <3>2, Abouts DEF Directive
  <2>4. CASE Do_proxy_req_port(v)
    <3>1. Entered(did'.name) /\ did'.name \in OfPreq
      BY <2>4 DEF Do_proxy_req_port, At, Enter, Entered, UaHooks, LocHooks, TxnHook, OfPreq
    <3>2. Changed("preq")
      BY <2>0, <2>4, RequestPortChanged, ChangedNot DEF Do_proxy_req_port
    <3> QED BY <3>1, <3>2, Abouts DEF Directive
  <2> QED BY <1>2, <2>1, <2>2, <2>3, <2>4
<1>3. ASSUME NEW v \in LocArg, Do_ua_req_url_loc(v) \/ Do_proxy_req_url_loc(v) \/ Do_ua_req_loc(v) \/
             Do_proxy_req_loc(v)
      PROVE  Directive(did'.name)
  <2>0. v \in Feature
    BY Arguments
  <2>1. CASE Do_ua_req_url_loc(v)
    <3>1. Entered(did'.name) /\ did'.name \in OfUa
      BY <2>1 DEF Do_ua_req_url_loc, At, Enter, Entered, UaHooks, LocHooks, TxnHook, OfUa
    <3>2. Changed("ua")
      BY <2>0, <2>1, UrlLocChanged, ChangedNot DEF Do_ua_req_url_loc
    <3> QED BY <3>1, <3>2, Abouts DEF Directive
  <2>2. CASE Do_proxy_req_url_loc(v)
    <3>1. Entered(did'.name) /\ did'.name \in OfPreq
      BY <2>2 DEF Do_proxy_req_url_loc, At, Enter, Entered, UaHooks, LocHooks, TxnHook, OfPreq
    <3>2. Changed("preq")
      BY <2>0, <2>2, UrlLocChanged, ChangedNot DEF Do_proxy_req_url_loc
    <3> QED BY <3>1, <3>2, Abouts DEF Directive
  <2>3. CASE Do_ua_req_loc(v)
    <3>1. Entered(did'.name) /\ did'.name \in OfUa
      BY <2>3 DEF Do_ua_req_loc, At, Enter, Entered, UaHooks, LocHooks, TxnHook, OfUa
    <3>2. Changed("ua")
      BY <2>0, <2>3, ReqLocChanged, ChangedNot DEF Do_ua_req_loc
    <3> QED BY <3>1, <3>2, Abouts DEF Directive
  <2>4. CASE Do_proxy_req_loc(v)
    <3>1. Entered(did'.name) /\ did'.name \in OfPreq
      BY <2>4 DEF Do_proxy_req_loc, At, Enter, Entered, UaHooks, LocHooks, TxnHook, OfPreq
    <3>2. Changed("preq")
      BY <2>0, <2>4, ReqLocChanged, ChangedNot DEF Do_proxy_req_loc
    <3> QED BY <3>1, <3>2, Abouts DEF Directive
  <2> QED BY <1>3, <2>1, <2>2, <2>3, <2>4
<1> QED BY <1>1, <1>2, <1>3 DEF OnHosts

LEMMA UrlsChanged ==
  ASSUME TypeOK, OnUrls
  PROVE  Directive(did'.name)
<1>1. ASSUME NEW v \in TextArg, Do_ua_req_scheme(v) \/ Do_proxy_req_scheme(v) \/ Do_ua_req_path(v) \/
             Do_proxy_req_path(v) \/ Do_ua_req_fragment(v) \/ Do_proxy_req_fragment(v)
      PROVE  Directive(did'.name)
  <2>0. v \in Feature
    BY Arguments
  <2>1. CASE Do_ua_req_scheme(v)
    <3>1. Entered(did'.name) /\ did'.name \in OfUa
      BY <2>1 DEF Do_ua_req_scheme, At, Enter, Entered, UaHooks, TxnHook, OfUa
    <3>2. Changed("ua")
      BY <2>0, <2>1, PartOfChanged, ChangedNot DEF Do_ua_req_scheme
    <3> QED BY <3>1, <3>2, Abouts DEF Directive
  <2>2. CASE Do_proxy_req_scheme(v)
    <3>1. Entered(did'.name) /\ did'.name \in OfPreq
      BY <2>2 DEF Do_proxy_req_scheme, At, Enter, Entered, UaHooks, TxnHook, OfPreq
    <3>2. Changed("preq")
      BY <2>0, <2>2, PartOfChanged, ChangedNot DEF Do_proxy_req_scheme
    <3> QED BY <3>1, <3>2, Abouts DEF Directive
  <2>3. CASE Do_ua_req_path(v)
    <3>1. Entered(did'.name) /\ did'.name \in OfUa
      BY <2>3 DEF Do_ua_req_path, At, Enter, Entered, UaHooks, TxnHook, OfUa
    <3>2. Changed("ua")
      BY <2>0, <2>3, PartOfChanged, ChangedNot DEF Do_ua_req_path
    <3> QED BY <3>1, <3>2, Abouts DEF Directive
  <2>4. CASE Do_proxy_req_path(v)
    <3>1. Entered(did'.name) /\ did'.name \in OfPreq
      BY <2>4 DEF Do_proxy_req_path, At, Enter, Entered, UaHooks, TxnHook, OfPreq
    <3>2. Changed("preq")
      BY <2>0, <2>4, PartOfChanged, ChangedNot DEF Do_proxy_req_path
    <3> QED BY <3>1, <3>2, Abouts DEF Directive
  <2>5. CASE Do_ua_req_fragment(v)
    <3>1. Entered(did'.name) /\ did'.name \in OfUa
      BY <2>5 DEF Do_ua_req_fragment, At, Enter, Entered, UaHooks, TxnHook, OfUa
    <3>2. Changed("ua")
      BY <2>0, <2>5, PartOfChanged, ChangedNot DEF Do_ua_req_fragment
    <3> QED BY <3>1, <3>2, Abouts DEF Directive
  <2>6. CASE Do_proxy_req_fragment(v)
    <3>1. Entered(did'.name) /\ did'.name \in OfPreq
      BY <2>6 DEF Do_proxy_req_fragment, At, Enter, Entered, UaHooks, TxnHook, OfPreq
    <3>2. Changed("preq")
      BY <2>0, <2>6, PartOfChanged, ChangedNot DEF Do_proxy_req_fragment
    <3> QED BY <3>1, <3>2, Abouts DEF Directive
  <2> QED BY <1>1, <2>1, <2>2, <2>3, <2>4, <2>5, <2>6
<1>2. ASSUME NEW v \in UrlArg, Do_ua_req_url(v) \/ Do_proxy_req_url(v)
      PROVE  Directive(did'.name)
  <2>0. v \in Feature
    BY Arguments
  <2>1. CASE Do_ua_req_url(v)
    <3>1. Entered(did'.name) /\ did'.name \in OfUa
      BY <2>1 DEF Do_ua_req_url, At, Enter, Entered, UaHooks, TxnHook, OfUa
    <3>2. Changed("ua")
      BY <2>0, <2>1, WholeUrlChanged, ChangedNot DEF Do_ua_req_url
    <3> QED BY <3>1, <3>2, Abouts DEF Directive
  <2>2. CASE Do_proxy_req_url(v)
    <3>1. Entered(did'.name) /\ did'.name \in OfPreq
      BY <2>2 DEF Do_proxy_req_url, At, Enter, Entered, UaHooks, TxnHook, OfPreq
    <3>2. Changed("preq")
      BY <2>0, <2>2, WholeUrlChanged, ChangedNot DEF Do_proxy_req_url
    <3> QED BY <3>1, <3>2, Abouts DEF Directive
  <2> QED BY <1>2, <2>1, <2>2
<1>3. ASSUME NEW v \in QueryArg, Do_ua_req_query(v) \/ Do_proxy_req_query(v)
      PROVE  Directive(did'.name)
  <2>0. v \in Feature
    BY Arguments
  <2>1. CASE Do_ua_req_query(v)
    <3>1. Entered(did'.name) /\ did'.name \in OfUa
      BY <2>1 DEF Do_ua_req_query, At, Enter, Entered, UaHooks, TxnHook, OfUa
    <3>2. Changed("ua")
      BY <2>0, <2>1, PartOfChanged, ChangedNot DEF Do_ua_req_query
    <3> QED BY <3>1, <3>2, Abouts DEF Directive
  <2>2. CASE Do_proxy_req_query(v)
    <3>1. Entered(did'.name) /\ did'.name \in OfUa
      BY <2>2 DEF Do_proxy_req_query, At, Enter, Entered, UaHooks, TxnHook, OfUa
    <3>2. Changed("ua")
      BY <2>0, <2>2, PartOfChanged, ChangedNot DEF Do_proxy_req_query
    <3> QED BY <3>1, <3>2, Abouts DEF Directive
  <2> QED BY <1>3, <2>1, <2>2
<1>4. ASSUME NEW name \in QueryName, NEW v \in ValueArg, Do_ua_req_query_value(name, v) \/
             Do_proxy_req_query_value(name, v)
      PROVE  Directive(did'.name)
  <2>0. v \in Feature /\ name \in Token
    BY Arguments
  <2>1. CASE Do_ua_req_query_value(name, v)
    <3>1. Entered(did'.name) /\ did'.name \in OfUa
      BY <2>1 DEF Do_ua_req_query_value, At, Enter, Entered, UaHooks, TxnHook, OfUa
    <3>2. Changed("ua")
      BY <2>0, <2>1, QueryChanged, ChangedNot DEF Do_ua_req_query_value
    <3> QED BY <3>1, <3>2, Abouts DEF Directive
  <2>2. CASE Do_proxy_req_query_value(name, v)
    <3>1. Entered(did'.name) /\ did'.name \in OfPreq
      BY <2>2 DEF Do_proxy_req_query_value, At, Enter, Entered, UaHooks, TxnHook, OfPreq
    <3>2. Changed("preq")
      BY <2>0, <2>2, QueryChanged, ChangedNot DEF Do_proxy_req_query_value
    <3> QED BY <3>1, <3>2, Abouts DEF Directive
  <2> QED BY <1>4, <2>1, <2>2
<1>5. ASSUME Do_apply_remap_rule
      PROVE  Directive(did'.name)
  <2>1. Entered(did'.name) /\ did'.name \in OfUa
    BY <1>5 DEF Do_apply_remap_rule, At, Enter, Entered, UaHooks, TxnHook, OfUa
  <2> DEFINE port == UrlPort(Replacement)
             to == IF is_port_canonical(Replacement.scheme, port) THEN 0 ELSE port
             mapped == msgs.ua.method # <<"CONNECT">>
             scheme == IF mapped THEN Replacement.scheme ELSE msgs.ua.url.scheme
             path == IF mapped THEN MappedPath(msgs.ua.url.path) ELSE msgs.ua.url.path
             url == [msgs.ua.url EXCEPT !.port = to, !.host = Replacement.host, !.scheme = scheme, !.path = path]
             m == [msgs.ua EXCEPT !.url = url]
  <2>2. msgs.ua \in Request /\ msgs.ua.valid /\ msgs.ua.url \in Url
    BY MessageOf, RequestOf
  <2>3. /\ msgs.ua.url.scheme \in Text /\ msgs.ua.url.path \in Text /\ Replacement.host \in Text
        /\ Replacement.scheme \in Text /\ Replacement.path \in Text
    BY <2>2, RuleAssumption DEF Url
  <2>4. to \in 0 .. MaxPort
    <3>1. Replacement.port \in 0 .. MaxPort
      BY RuleAssumption DEF Url
    <3>2. port \in {0, Replacement.port, 443, 80}
      BY DEF UrlPort, CanonicalPort
    <3>3. {0, 443, 80} \subseteq 0 .. MaxPort
      BY DEF MaxPort
    <3> QED BY <3>1, <3>2, <3>3
  <2>5. path \in Text
    BY <2>3, MappedPathText
  <2> HIDE DEF to, path
  <2>6. url \in Url
    BY <2>2, <2>3, <2>4, <2>5 DEF Url
  <2>7. msgs' = [msgs EXCEPT !.ua.url = url] /\ UNCHANGED <<reply, asked>> /\ end' = "ok"
    BY <1>5 DEF Do_apply_remap_rule, Leave, to, path
  <2> HIDE DEF url
  <2>8. m \in Request
    BY <2>2, <2>6, RequestOf
  <2>9. msgs' = [msgs EXCEPT !["ua"] = m]
    BY <2>7
  <2> HIDE DEF m
  <2>10. Changed("ua")
    BY <2>2, <2>7, <2>8, <2>9 DEF Changed, Messages
  <2> QED BY <2>1, <2>10, Abouts DEF Directive
<1>6. ASSUME Do_remap_redirect \/ \E v \in FlagArg : Do_did_remap(v)
      PROVE  Directive(did'.name)
  <2>1. Entered(did'.name)
    BY <1>6 DEF Do_remap_redirect, Do_did_remap, At, Enter, Entered, UaHooks, TxnHook
  <2>2. Changed(About(did'.name))
    BY <1>6 DEF Do_remap_redirect, Do_did_remap, Leave, Changed
  <2> QED BY <2>1, <2>2 DEF Directive
<1> QED BY <1>1, <1>2, <1>3, <1>4, <1>5, <1>6 DEF OnUrls

LEMMA FieldsChanged ==
  ASSUME TypeOK, OnFields
  PROVE  Directive(did'.name)
<1>1. ASSUME NEW name \in FieldName, NEW v \in FieldArg, Do_ua_req_field(name, v) \/ Do_proxy_req_field(name, v)
             \/ Do_proxy_rsp_field(name, v) \/ Do_upstream_rsp_field(name, v)
      PROVE  Directive(did'.name)
  <2>0. v \in Feature /\ name \in Token
    BY Arguments
  <2>1. CASE Do_ua_req_field(name, v)
    <3>1. Entered(did'.name) /\ did'.name \in OfUa
      BY <2>1 DEF Do_ua_req_field, At, Enter, Entered, UaHooks, TxnHook, OfUa
    <3>2. Changed("ua")
      BY <2>0, <2>1, FieldChanged, ChangedNot DEF Do_ua_req_field, Messages
    <3> QED BY <3>1, <3>2, Abouts DEF Directive
  <2>2. CASE Do_proxy_req_field(name, v)
    <3>1. Entered(did'.name) /\ did'.name \in OfPreq
      BY <2>2 DEF Do_proxy_req_field, At, Enter, Entered, UaHooks, TxnHook, OfPreq
    <3>2. Changed("preq")
      BY <2>0, <2>2, FieldChanged, ChangedNot DEF Do_proxy_req_field, Messages
    <3> QED BY <3>1, <3>2, Abouts DEF Directive
  <2>3. CASE Do_proxy_rsp_field(name, v)
    <3>1. Entered(did'.name) /\ did'.name \in OfPrsp
      BY <2>3 DEF Do_proxy_rsp_field, At, Enter, Entered, UaHooks, TxnHook, OfPrsp
    <3>2. Changed("prsp")
      BY <2>0, <2>3, FieldChanged, ChangedNot DEF Do_proxy_rsp_field, Messages
    <3> QED BY <3>1, <3>2, Abouts DEF Directive
  <2>4. CASE Do_upstream_rsp_field(name, v)
    <3>1. Entered(did'.name) /\ did'.name \in OfUrsp
      BY <2>4 DEF Do_upstream_rsp_field, At, Enter, Entered, UaHooks, TxnHook, OfUrsp
    <3>2. Changed("ursp")
      BY <2>0, <2>4, FieldChanged, ChangedNot DEF Do_upstream_rsp_field, Messages
    <3> QED BY <3>1, <3>2, Abouts DEF Directive
  <2> QED BY <1>1, <2>1, <2>2, <2>3, <2>4
<1> QED BY <1>1 DEF OnFields

LEMMA ResponsesChanged ==
  ASSUME TypeOK, Present, OnResponses
  PROVE  Directive(did'.name)
<1>1. ASSUME NEW v \in StatusArg, Do_upstream_rsp_status(v) \/ Do_proxy_rsp_status(v)
      PROVE  Directive(did'.name)
  <2>0. v \in Feature
    BY Arguments
  <2>1. CASE Do_upstream_rsp_status(v)
    <3>1. Entered(did'.name) /\ did'.name \in OfUrsp /\ hook = "URSP"
      BY <2>1 DEF Do_upstream_rsp_status, At, Enter, Entered, TxnHook, OfUrsp
    <3>2. Changed("ursp")
      BY <2>0, <2>1, <3>1, StatusChanged DEF Do_upstream_rsp_status, Present
    <3> QED BY <3>1, <3>2, Abouts DEF Directive
  <2>2. CASE Do_proxy_rsp_status(v)
    <3>1. Entered(did'.name) /\ did'.name \in OfPrsp /\ hook = "PRSP"
      BY <2>2 DEF Do_proxy_rsp_status, At, Enter, Entered, TxnHook, OfPrsp
    <3>2. Changed("prsp")
      BY <2>0, <2>2, <3>1, StatusChanged DEF Do_proxy_rsp_status, Present
    <3> QED BY <3>1, <3>2, Abouts DEF Directive
  <2> QED BY <1>1, <2>1, <2>2
<1>2. ASSUME NEW v \in TextArg, Do_upstream_reason(v) \/ Do_proxy_rsp_reason(v)
      PROVE  Directive(did'.name)
  <2>0. v \in Feature
    BY Arguments
  <2>1. CASE Do_upstream_reason(v)
    <3>1. Entered(did'.name) /\ did'.name \in OfUrsp
      BY <2>1 DEF Do_upstream_reason, At, Enter, Entered, TxnHook, OfUrsp
    <3>2. Changed("ursp")
      BY <2>0, <2>1, ReasonChanged DEF Do_upstream_reason
    <3> QED BY <3>1, <3>2, Abouts DEF Directive
  <2>2. CASE Do_proxy_rsp_reason(v)
    <3>1. Entered(did'.name) /\ did'.name \in OfPrsp
      BY <2>2 DEF Do_proxy_rsp_reason, At, Enter, Entered, TxnHook, OfPrsp
    <3>2. Changed("prsp")
      BY <2>0, <2>2, ReasonChanged DEF Do_proxy_rsp_reason
    <3> QED BY <3>1, <3>2, Abouts DEF Directive
  <2> QED BY <1>2, <2>1, <2>2
<1>3. ASSUME NEW v \in BodyArg, Do_proxy_rsp_body(v)
      PROVE  Directive(did'.name)
  <2>1. Entered(did'.name)
    BY <1>3 DEF Do_proxy_rsp_body, At, Enter, Entered, TxnHook
  <2>2. Fail \/ \E setting, value : Set(setting, value)
    BY <1>3 DEF Do_proxy_rsp_body
  <2> QED BY <2>1, <2>2, ChangedNot DEF Directive
<1>4. ASSUME NEW v \in BodyArg, Do_upstream_rsp_body(v)
      PROVE  Directive(did'.name)
  <2>1. Entered(did'.name) /\ did'.name \in OfUrsp /\ hook = "URSP"
    BY <1>4 DEF Do_upstream_rsp_body, At, Enter, Entered, TxnHook, OfUrsp
  <2> DEFINE parts == IF Is(v, "TUPLE") THEN Val(v) ELSE <<v>>
             type == IF Len(parts) > 1 /\ Is(parts[2], "STRING") THEN Val(parts[2]) ELSE <<"text/html">>
             fields == field_obtain(msgs.ursp.fields, "Content-Type", type)
             m == [msgs.ursp EXCEPT !.fields = fields]
  <2>2. CASE Skip
    BY <2>1, <2>2, ChangedNot DEF Directive
  <2>3. CASE ~ Skip
    <3>1. msgs.ursp.valid /\ msgs.ursp \in Response
      BY <2>1, MessageOf DEF Present
    <3>2. type \in Text
      <4>1. v \in Feature
        BY Arguments
      <4>2. parts \in Seq(Feature)
        BY <4>1, FeatureOf, FlatFeature, SeqMonotonic
      <4> HIDE DEF parts
      <4>3. Len(parts) > 1 => parts[2] \in Feature
        BY <4>2
      <4> QED BY <4>3, FeatureOf, TokenTexts
    <3> HIDE DEF type
    <3>3. fields \in Seq(Field)
      <4>1. "Content-Type" \in Token
        BY DEF Token
      <4> QED BY <3>1, <3>2, <4>1, ResponseOf, FieldObtained
    <3>4. msgs' = [msgs EXCEPT !.ursp.fields = fields] /\ UNCHANGED <<reply, asked>> /\ end' = "ok"
      BY <1>4, <2>3 DEF Do_upstream_rsp_body, Leave, type
    <3> HIDE DEF fields
    <3>5. m \in Response
      BY <3>1, <3>3, ResponseOf
    <3>6. msgs' = [msgs EXCEPT !["ursp"] = m]
      BY <3>4
    <3> HIDE DEF m
    <3>7. Changed("ursp")
      BY <3>1, <3>4, <3>5, <3>6 DEF Changed, Messages
    <3> QED BY <2>1, <3>7, Abouts DEF Directive
  <2> QED BY <2>2, <2>3
<1> QED BY <1>1, <1>2, <1>3, <1>4 DEF OnResponses

LEMMA SettingsChanged ==
  ASSUME Settings
  PROVE  Directive(did'.name)
<1>1. ASSUME NEW v, Do_txn_debug(v) \/ Do_txn_error(v)
      PROVE  Directive(did'.name)
  BY <1>1, ChangedNot DEF Do_txn_debug, Do_txn_error, At, Enter, Entered, TxnHook, Directive
<1>2. ASSUME NEW v, Do_debug(v) \/ Do_error(v) \/ Do_note(v) \/ Do_warning(v)
      PROVE  Directive(did'.name)
  <2>1. Entered(did'.name)
    BY <1>2 DEF Do_debug, Do_error, Do_note, Do_warning, At, Enter, Entered
  <2>2. \E setting, value : Set(setting, value)
    BY <1>2 DEF Do_debug, Do_error, Do_note, Do_warning
  <2> QED BY <2>1, <2>2, ChangedNot DEF Directive
<1>3. ASSUME NEW v, Do_cache_key(v) \/ Do_var(v) \/ Do_upstream_addr(v)
      PROVE  Directive(did'.name)
  <2>1. Entered(did'.name)
    BY <1>3 DEF Do_cache_key, Do_var, Do_upstream_addr, At, Enter, Entered, UaHooks, TxnHook
  <2>2. Throw \/ Skip \/ \E setting, value : Set(setting, value)
    BY <1>3 DEF Do_cache_key, Do_var, Do_upstream_addr
  <2> QED BY <2>1, <2>2, ChangedNot DEF Directive
<1>4. ASSUME NEW type, NEW v, Do_txn_conf(type, v)
      PROVE  Directive(did'.name)
  <2>1. Entered(did'.name)
    BY <1>4 DEF Do_txn_conf, At, Enter, Entered, UaHooks, TxnHook
  <2>2. Skip \/ \E setting, value : Set(setting, value)
    BY <1>4 DEF Do_txn_conf
  <2> QED BY <2>1, <2>2, ChangedNot DEF Directive
<1> QED BY <1>1, <1>2, <1>3, <1>4 DEF Settings

-----------------------------------------------------------------------------
(* The invariants hold.                                                    *)

LEMMA InitInv == Init => IInv
<1> SUFFICES ASSUME Init PROVE IInv
  OBVIOUS
<1>1. msgs \in MsgType
  <2>1. PICK req \in Request : msgs = [ua |-> req, preq |-> NoMessage, ursp |-> NoMessage, prsp |-> NoMessage]
    BY TrafficAssumption DEF Init
  <2> QED BY <2>1 DEF MsgType
<1>2. reply \in ReplyType /\ asked \in [reason : Text, location : Text]
  <2>1. <<>> \in Text /\ <<>> \in Seq({"proxy-reply", "redirect"})
    BY EmptySeq DEF Text
  <2> QED BY <2>1 DEF Init, NoReply, NothingAsked, ReplyType
<1>3. TypeOK
  BY <1>1, <1>2 DEF Init, TypeOK, UaHooks, TxnHook
<1>4. Present
  BY DEF Init, Present
<1>5. ReplyInv
  BY DEF Init, ReplyInv, NoReply, NothingAsked
<1> QED BY <1>3, <1>4, <1>5 DEF IInv

\* What is about one message keeps the types.
LEMMA MsgsTyped ==
  ASSUME TypeOK, NEW which \in Messages, NEW m \in IF which \in {"ua", "preq"} THEN Request ELSE Response
  PROVE  [msgs EXCEPT ![which] = m] \in MsgType
BY DEF TypeOK, MsgType, Messages

LEMMA DirectiveInv ==
  ASSUME IInv, Directive(did'.name)
  PROVE  IInv'
<1> DEFINE which == About(did'.name)
<1>1. TypeOK /\ Present /\ ReplyInv /\ Entered(did'.name) /\ Changed(which)
  BY DEF IInv, Directive
<1> HIDE DEF which
<1>2. hook \in TxnHook /\ UNCHANGED <<hook, pristine, conn, reply, asked>> /\ count' = count + 1
  BY <1>1 DEF Entered, Changed
<1>3. msgs' \in MsgType
  BY <1>1, MsgsTyped DEF Changed, TypeOK
<1>4. TypeOK'
  BY <1>1, <1>2, <1>3 DEF TypeOK, Changed
<1>5. Present'
  <2>1. ASSUME NEW m \in Request \union Response PROVE m.valid
    BY <2>1, RequestOf, ResponseOf
  <2>2. \A other \in Messages : msgs[other].valid => msgs'[other].valid
    BY <1>1, <2>1 DEF Changed, TypeOK, MsgType, Messages
  <2> QED BY <1>1, <1>2, <2>2 DEF Present, Messages
<1>6. hook \notin {"FIXUP", "DONE"}
  BY <1>2 DEF TxnHook, UaHooks
<1>7. ReplyInv'
  BY <1>1, <1>2, <1>6 DEF ReplyInv, Scheduled
<1> QED BY <1>4, <1>5, <1>7 DEF IInv

-----------------------------------------------------------------------------
(* Replies.                                                                *)

LEMMA Fixed ==
  ASSUME TypeOK, NEW which \in {"proxy-reply", "redirect"}, NEW first \in BOOLEAN
  PROVE  /\ Fixup(which, first) \in Seq({"proxy-reply", "redirect"})
         /\ \A other : Scheduled(other) => \E i \in DOMAIN Fixup(which, first) : Fixup(which, first)[i] = other
         /\ first => \E i \in DOMAIN Fixup(which, first) : Fixup(which, first)[i] = which
<1>1. reply.fixups \in Seq({"proxy-reply", "redirect"})
  BY DEF TypeOK, ReplyType
<1>2. CASE first
  <2> DEFINE after == Append(reply.fixups, which)
  <2>1. /\ after \in Seq({"proxy-reply", "redirect"}) /\ Len(after) = Len(reply.fixups) + 1
        /\ \A i \in 1 .. Len(reply.fixups) : after[i] = reply.fixups[i]
        /\ after[Len(reply.fixups) + 1] = which
    BY <1>1, AppendProperties
  <2>2. Fixup(which, first) = after
    BY <1>2 DEF Fixup
  <2> HIDE DEF after
  <2>3. DOMAIN after = 1 .. Len(reply.fixups) + 1 /\ DOMAIN reply.fixups = 1 .. Len(reply.fixups)
    BY <1>1, <2>1
  <2>4. Len(reply.fixups) \in Nat
    BY <1>1
  <2>5. Len(reply.fixups) + 1 \in DOMAIN after /\ DOMAIN reply.fixups \subseteq DOMAIN after
    BY <2>3, <2>4
  <2> QED BY <2>1, <2>2, <2>3, <2>5 DEF Scheduled
<1>3. CASE ~ first
  BY <1>1, <1>3 DEF Fixup, Scheduled
<1> QED BY <1>2, <1>3

\* A reply that leaves what has to be scheduled scheduled.
LEMMA ReplyKept ==
  ASSUME IInv, NEW state \in ReplyType, NEW wanted \in [reason : Text, location : Text], NEW body,
         Reply(state, wanted, body), Running, hook \in TxnHook, UNCHANGED <<hook, pristine, conn>>,
         count' = count + 1, wanted.location = state.location, wanted.reason \in {state.reason, state.moved},
         state.location # <<>> \/ state.moved # <<>> => \E i \in DOMAIN state.fixups : state.fixups[i] = "redirect",
         state.reason # <<>> => \E i \in DOMAIN state.fixups : state.fixups[i] = "proxy-reply"
  PROVE  IInv'
<1>1. TypeOK /\ Present /\ hook \notin {"FIXUP", "DONE"}
  BY DEF IInv, TxnHook, UaHooks
<1>2. reply' = state /\ asked' = wanted /\ UNCHANGED msgs /\ end' \in {"throws", "ok"}
  BY DEF Reply
<1>3. TypeOK'
  BY <1>1, <1>2 DEF TypeOK
<1>4. Present'
  BY <1>1, <1>2 DEF Present
<1>5. ReplyInv'
  BY <1>1, <1>2 DEF ReplyInv, Scheduled
<1> QED BY <1>3, <1>4, <1>5 DEF IInv

LEMMA RepliesInv ==
  ASSUME IInv, Replies
  PROVE  IInv'
<1>1. /\ TypeOK /\ ReplyInv /\ reply \in ReplyType /\ asked \in [reason : Text, location : Text]
      /\ reply.reason \in Text /\ reply.location \in Text /\ reply.moved \in Text
      /\ reply.status \in {0} \union 100 .. 599 /\ asked.reason \in Text /\ asked.location \in Text
  BY DEF IInv, TypeOK, ReplyType
<1> DEFINE given(reason, old) == IF Is(reason, "STRING") THEN Val(reason) ELSE old
<1>2. ASSUME NEW status \in Feature, NEW reason \in Feature, NEW body, Do_proxy_reply(status, reason, body)
      PROVE  IInv'
  <2>1. Running /\ hook \in UaHooks /\ UNCHANGED <<hook, pristine, conn>> /\ count' = count + 1
    BY <1>2 DEF Do_proxy_reply, AtReply, Enter
  <2> DEFINE n == as_integer(status, -1)
             first == Is(reason, "STRING") /\ reply.reason = <<>>
             state == [reply EXCEPT !.status = IF ValidStatus(n) THEN n ELSE reply.status,
                                    !.reason = given(reason, reply.reason),
                                    !.fixups = Fixup("proxy-reply", first)]
             wanted == [asked EXCEPT !.reason = given(reason, asked.reason)]
  <2>2. given(reason, reply.reason) \in Text /\ given(reason, asked.reason) \in Text
    BY <1>1, FeatureOf
  <2>3. /\ Fixup("proxy-reply", first) \in Seq({"proxy-reply", "redirect"})
        /\ \A other : Scheduled(other) =>
             \E i \in DOMAIN Fixup("proxy-reply", first) : Fixup("proxy-reply", first)[i] = other
        /\ first => \E i \in DOMAIN Fixup("proxy-reply", first) : Fixup("proxy-reply", first)[i] = "proxy-reply"
    BY <1>1, Fixed
  <2>4. Reply(state, wanted, body)
    BY <1>2 DEF Do_proxy_reply
  <2>5. (IF ValidStatus(n) THEN n ELSE reply.status) \in {0} \union 100 .. 599
    BY <1>1 DEF ValidStatus
  <2> HIDE DEF n
  <2> DEFINE fixups == Fixup("proxy-reply", first)
             code == IF ValidStatus(n) THEN n ELSE reply.status
             now == given(reason, reply.reason)
  <2>6. state = [reply EXCEPT !.status = code, !.reason = now, !.fixups = fixups]
    OBVIOUS
  <2> HIDE DEF fixups, code
  <2>7. state \in ReplyType
    <3>1. fixups \in Seq({"proxy-reply", "redirect"}) /\ code \in {0} \union 100 .. 599 /\ now \in Text
      BY <2>2, <2>3, <2>5 DEF fixups, code
    <3> HIDE DEF now, state
    <3>2. state = [status |-> code, reason |-> now, location |-> reply.location, moved |-> reply.moved,
                   fixups |-> fixups]
      BY <1>1, <2>6 DEF ReplyType
    <3> QED BY <1>1, <3>1, <3>2 DEF ReplyType
  <2>8. /\ state.location = reply.location /\ state.moved = reply.moved /\ state.fixups = fixups
        /\ state.reason = now
    BY <1>1 DEF ReplyType, fixups
  <2>9. wanted \in [reason : Text, location : Text] /\ wanted.location = asked.location
        /\ wanted.reason = given(reason, asked.reason)
    BY <1>1, <2>2
  <2>10. wanted.location = state.location /\ wanted.reason \in {state.reason, state.moved}
    BY <1>1, <2>8, <2>9 DEF ReplyInv
  <2>11. hook \notin {"FIXUP", "DONE"} /\ hook \in TxnHook
    BY <2>1 DEF UaHooks, TxnHook
  <2>12. /\ state.location # <<>> \/ state.moved # <<>> => \E i \in DOMAIN fixups : fixups[i] = "redirect"
         /\ state.reason # <<>> => \E i \in DOMAIN fixups : fixups[i] = "proxy-reply"
    BY <1>1, <2>3, <2>8, <2>11 DEF ReplyInv, fixups
  <2> HIDE DEF state, wanted, first
  <2> QED BY <2>1, <2>4, <2>7, <2>8, <2>9, <2>10, <2>11, <2>12, ReplyKept
<1>3. ASSUME NEW status \in Feature, NEW reason \in Feature, NEW body, NEW location \in Feature,
             Do_redirect(status, reason, body, location)
      PROVE  IInv'
  <2>1. Running /\ hook \in UaHooks /\ UNCHANGED <<hook, pristine, conn>> /\ count' = count + 1
    BY <1>3 DEF Do_redirect, AtReply, Enter, UaHooks
  <2>11. hook \notin {"FIXUP", "DONE"} /\ hook \in TxnHook
    BY <2>1 DEF UaHooks, TxnHook
  <2>2. CASE ~ Is(location, "STRING")
    <3>1. Entered(did'.name)
      BY <1>3, <2>11 DEF Do_redirect, AtReply, Enter, Entered
    <3>2. Fail
      BY <1>3, <2>2 DEF Do_redirect
    <3> QED BY <3>1, <3>2, ChangedNot, DirectiveInv DEF Directive
  <2>3. CASE Is(location, "STRING")
    <3> DEFINE n == as_integer(status, 301)
               code == IF ValidStatus(n) THEN n ELSE 301
               fixups == Fixup("redirect", reply.location = <<>>)
               state == [reply EXCEPT !.status = code, !.location = Val(location),
                                      !.moved = given(reason, reply.moved), !.fixups = fixups]
               wanted == [reason |-> given(reason, asked.reason), location |-> Val(location)]
    <3>1. /\ given(reason, reply.moved) \in Text /\ given(reason, asked.reason) \in Text
          /\ Val(location) \in Text
      BY <1>1, <2>3, FeatureOf
    <3>2. /\ fixups \in Seq({"proxy-reply", "redirect"})
          /\ \A other : Scheduled(other) => \E i \in DOMAIN fixups : fixups[i] = other
          /\ reply.location = <<>> => \E i \in DOMAIN fixups : fixups[i] = "redirect"
      BY <1>1, Fixed
    <3>3. Reply(state, wanted, body)
      BY <1>3, <2>3 DEF Do_redirect
    <3>4. code \in {0} \union 100 .. 599
      BY DEF ValidStatus
    <3> HIDE DEF fixups, code
    <3>5. state \in ReplyType
      <4> DEFINE now == given(reason, reply.moved)
      <4>1. state = [reply EXCEPT !.status = code, !.location = Val(location), !.moved = now, !.fixups = fixups]
        OBVIOUS
      <4>2. now \in Text
        BY <3>1
      <4> HIDE DEF now, state
      <4>3. state = [status |-> code, reason |-> reply.reason, location |-> Val(location), moved |-> now,
                     fixups |-> fixups]
        BY <1>1, <4>1 DEF ReplyType
      <4> QED BY <1>1, <3>1, <3>2, <3>4, <4>2, <4>3 DEF ReplyType
    <3>6. /\ state.location = Val(location) /\ state.moved = given(reason, reply.moved)
          /\ state.fixups = fixups /\ state.reason = reply.reason
      BY <1>1 DEF ReplyType
    <3>7. wanted \in [reason : Text, location : Text]
      BY <3>1
    <3>8. wanted.location = state.location /\ wanted.reason \in {state.reason, state.moved}
      BY <1>1, <3>6 DEF ReplyInv
    <3>9. /\ \E i \in DOMAIN fixups : fixups[i] = "redirect"
          /\ state.reason # <<>> => \E i \in DOMAIN fixups : fixups[i] = "proxy-reply"
      BY <1>1, <2>11, <3>2, <3>6 DEF ReplyInv
    <3> HIDE DEF state, wanted
    <3> QED BY <2>1, <2>11, <3>3, <3>5, <3>6, <3>7, <3>8, <3>9, ReplyKept
  <2> QED BY <2>2, <2>3
<1>4. ASSUME NEW r \in ReplyArg, Do_proxy_reply(r[1], r[2], r[3]) PROVE IInv'
  <2>1. r[1] \in Feature /\ r[2] \in Feature
    BY ArgAssumption
  <2> QED BY <1>2, <1>4, <2>1
<1>5. ASSUME NEW r \in RedirectArg, Do_redirect(r[1], r[2], r[3], r[4]) PROVE IInv'
  <2>1. r[1] \in Feature /\ r[2] \in Feature /\ r[4] \in Feature
    BY ArgAssumption
  <2> QED BY <1>3, <1>5, <2>1
<1> QED BY <1>4, <1>5 DEF Replies

-----------------------------------------------------------------------------
(* Traffic Server.                                                         *)

LEMMA AdvanceType ==
  ASSUME TypeOK, NEW from, NEW to, Advance(from, to), to \in TxnHook \union {"FIXUP", "DONE"},
         msgs' \in MsgType, pristine' \in Url \union {NoUrl}
  PROVE  TypeOK'
BY DEF TypeOK, Advance

\* Before the fixups it is only the schedule that matters.
LEMMA AdvanceReply ==
  ASSUME ReplyInv, NEW from \in TxnHook, NEW to \in TxnHook, Advance(from, to)
  PROVE  ReplyInv'
<1>1. hook \notin {"FIXUP", "DONE"} /\ hook' \notin {"FIXUP", "DONE"}
  BY DEF Advance, TxnHook, UaHooks
<1> QED BY <1>1 DEF ReplyInv, Advance, Scheduled

LEMMA AdvanceInv ==
  ASSUME IInv, ToPreRemap \/ ToRemap \/ ToPostRemap \/ ToUpstream \/ ToResponse \/ ToUserAgent \/ ToReply
  PROVE  IInv'
<1>1. TypeOK /\ Present /\ ReplyInv /\ msgs \in MsgType /\ pristine \in Url \union {NoUrl}
  BY DEF IInv, TypeOK
<1>2. msgs.ua \in Request /\ msgs.ua.valid /\ msgs.ua.url \in Url
  BY <1>1, MessageOf, RequestOf
<1>3. ASSUME NEW from \in TxnHook, NEW to \in UaHooks \union {"PREQ"}, Advance(from, to),
             msgs' \in MsgType, pristine' \in Url \union {NoUrl}
      PROVE  IInv'
  <2>1. to \in TxnHook /\ hook' = to
    BY <1>3 DEF Advance, TxnHook
  <2>2. TypeOK' /\ ReplyInv'
    BY <1>1, <1>3, <2>1, AdvanceType, AdvanceReply
  <2>3. Present'
    BY <1>3, <2>1 DEF Present, UaHooks
  <2> QED BY <2>2, <2>3 DEF IInv
<1>4. CASE ToPreRemap \/ ToPostRemap
  <2>1. msgs' \in MsgType /\ pristine' \in Url \union {NoUrl}
    BY <1>1, <1>4 DEF ToPreRemap, ToPostRemap
  <2> QED BY <1>3, <1>4, <2>1 DEF ToPreRemap, ToPostRemap, TxnHook, UaHooks
<1>5. CASE ToRemap
  <2>1. msgs' \in MsgType /\ pristine' \in Url \union {NoUrl}
    BY <1>1, <1>2, <1>5 DEF ToRemap, UaUrl
  <2> QED BY <1>3, <1>5, <2>1 DEF ToRemap, TxnHook, UaHooks
<1>6. CASE ToUpstream
  <2>1. ASSUME NEW req \in {msgs.ua, Moved(msgs.ua)} PROVE req \in Request
    <3> DEFINE url == [msgs.ua.url EXCEPT !.host = <<>>, !.port = 0]
    <3>1. url \in Url
      <4>1. <<>> \in Text /\ 0 \in 0 .. MaxPort
        <5>1. 0 \in 0 .. MaxPort
          BY DEF MaxPort
        <5> QED BY <5>1, TokenTexts
      <4> QED BY <1>2, <4>1 DEF Url
    <3>2. Moved(msgs.ua) = [msgs.ua EXCEPT !.url = url]
      BY DEF Moved
    <3> HIDE DEF url
    <3>3. Moved(msgs.ua) \in Request
      BY <1>2, <3>1, <3>2, RequestOf
    <3> QED BY <1>2, <2>1, <3>3
  <2>2. PICK req \in Request : msgs' = [msgs EXCEPT !.preq = req]
    BY <1>6, <2>1 DEF ToUpstream
  <2>3. msgs' \in MsgType /\ pristine' \in Url \union {NoUrl}
    BY <1>1, <1>6, <2>2 DEF ToUpstream, MsgType
  <2> QED BY <1>3, <1>6, <2>3 DEF ToUpstream, TxnHook, UaHooks
<1>7. ASSUME NEW from \in TxnHook, NEW which \in {"ursp", "prsp"}, NEW rsp \in Response,
             Advance(from, IF which = "ursp" THEN "URSP" ELSE "PRSP"), msgs' = [msgs EXCEPT ![which] = rsp],
             UNCHANGED pristine
      PROVE  IInv'
  <2> DEFINE to == IF which = "ursp" THEN "URSP" ELSE "PRSP"
  <2>1. to \in TxnHook /\ hook' = to /\ Advance(from, to)
    BY <1>7 DEF Advance, TxnHook
  <2>2. msgs' \in MsgType /\ pristine' \in Url \union {NoUrl}
    BY <1>1, <1>7 DEF MsgType
  <2>3. msgs'[which].valid
    BY <1>1, <1>7, ResponseOf DEF MsgType
  <2>4. Present'
    BY <2>1, <2>3 DEF Present
  <2> HIDE DEF to
  <2>5. TypeOK' /\ ReplyInv'
    BY <1>1, <1>7, <2>1, <2>2, AdvanceType, AdvanceReply
  <2> QED BY <2>4, <2>5 DEF IInv
<1>8. CASE ToResponse
  <2>1. PICK rsp \in Response : msgs' = [msgs EXCEPT !.ursp = rsp]
    BY <1>8, TrafficAssumption DEF ToResponse
  <2>2. msgs' = [msgs EXCEPT !["ursp"] = rsp]
    BY <2>1
  <2> QED BY <1>7, <1>8, <2>2 DEF ToResponse, TxnHook
<1>9. CASE ToUserAgent
  <2>1. msgs.ursp \in Response
    BY <1>1, <1>9, MessageOf DEF ToUserAgent, Advance, Present
  <2>2. msgs' = [msgs EXCEPT !["prsp"] = msgs.ursp]
    BY <1>9 DEF ToUserAgent
  <2> QED BY <1>7, <1>9, <2>1, <2>2 DEF ToUserAgent, TxnHook
<1>10. CASE ToReply
  <2> DEFINE rsp == Answer(reply.status, <<"standard">>)
  <2>1. rsp \in Response
    <3>1. reply.status \in Nat
      <4>1. reply.status \in {0} \union 100 .. 599
        BY <1>1 DEF TypeOK, ReplyType
      <4> QED BY <4>1
    <3>2. <<"standard">> \in Text /\ <<>> \in Seq(Field)
      BY TokenTexts, EmptySeq
    <3> QED BY <3>1, <3>2 DEF Answer, Response
  <2>2. msgs' = [msgs EXCEPT !["prsp"] = rsp]
    BY <1>10 DEF ToReply
  <2> HIDE DEF rsp
  <2> QED BY <1>7, <1>10, <2>1, <2>2 DEF ToReply, TxnHook, UaHooks
<1> QED BY <1>4, <1>5, <1>6, <1>8, <1>9, <1>10

LEMMA ToFixupsInv ==
  ASSUME IInv, ToFixups \/ ToDone
  PROVE  IInv'
<1>1. TypeOK /\ Present /\ ReplyInv
  BY DEF IInv
<1>2. /\ UNCHANGED <<msgs, pristine, conn, reply, asked>> /\ hook' \in {"FIXUP", "DONE"}
      /\ hook \in {"PRSP", "FIXUP"} /\ (hook' = "DONE" => reply.fixups = <<>>) /\ (hook' = "FIXUP" => hook = "PRSP")
  BY DEF ToFixups, ToDone, Advance
<1>3. TypeOK'
  <2>1. msgs' \in MsgType /\ pristine' \in Url \union {NoUrl}
    BY <1>1, <1>2 DEF TypeOK
  <2> QED BY <1>1, <2>1, AdvanceType DEF ToFixups, ToDone
<1>4. Present'
  BY <1>1, <1>2 DEF Present
<1>5. ReplyInv'
  BY <1>1, <1>2 DEF ReplyInv, Scheduled
<1> QED BY <1>3, <1>4, <1>5 DEF IInv

\* A fixup does what it was scheduled for, and the others stay scheduled.
LEMMA RunFixupInv ==
  ASSUME IInv, RunFixup
  PROVE  IInv'
<1> DEFINE first == Head(reply.fixups)
           rest == Tail(reply.fixups)
           rsp == IF first = "redirect" THEN Fixup_redirect ELSE Fixup_proxy_reply
<1>1. /\ TypeOK /\ Present /\ ReplyInv /\ hook = "FIXUP" /\ UNCHANGED <<hook, pristine, conn, asked, count>>
      /\ msgs' = [msgs EXCEPT !.prsp = rsp] /\ reply' = [reply EXCEPT !.fixups = rest] /\ end' = "none"
      /\ reply.fixups # <<>>
  BY DEF IInv, RunFixup
<1>2. /\ msgs.prsp \in Response /\ msgs.prsp.fields \in Seq(Field) /\ msgs.prsp.reason \in Text
      /\ msgs \in MsgType /\ reply \in ReplyType
  BY <1>1, MessageOf, ResponseOf DEF Present, TypeOK
<1>3. /\ reply.fixups \in Seq({"proxy-reply", "redirect"}) /\ reply.reason \in Text /\ reply.moved \in Text
      /\ reply.location \in Text
  BY <1>2 DEF ReplyType
<1>4. /\ rest \in Seq({"proxy-reply", "redirect"}) /\ first \in {"proxy-reply", "redirect"}
      /\ Len(rest) = Len(reply.fixups) - 1
      /\ \A i \in 1 .. Len(rest) : rest[i] = reply.fixups[i + 1]
      /\ first = reply.fixups[1]
  BY <1>1, <1>3, HeadTailProperties
<1>5. \A other : Scheduled(other) => other = first \/ \E i \in DOMAIN rest : rest[i] = other
  <2> SUFFICES ASSUME NEW i \in DOMAIN reply.fixups, reply.fixups[i] # first
               PROVE  \E j \in DOMAIN rest : rest[j] = reply.fixups[i]
    BY DEF Scheduled
  <2>1. i \in 1 .. Len(reply.fixups) /\ i # 1 /\ Len(reply.fixups) \in Nat
    BY <1>3, <1>4
  <2>2. PICK j \in 1 .. Len(reply.fixups) - 1 : i = j + 1
    <3>1. i - 1 \in 1 .. Len(reply.fixups) - 1 /\ i = (i - 1) + 1
      BY <2>1
    <3> QED BY <3>1
  <2>3. DOMAIN rest = 1 .. Len(rest)
    BY <1>4
  <2> HIDE DEF rest, first
  <2> QED BY <1>4, <2>2, <2>3
<1>6. rsp \in Response
  <2>1. \A given \in Text : ReasonOf(given) \in Text
    BY <1>2 DEF ReasonOf
  <2>2. [msgs.prsp EXCEPT !.reason = ReasonOf(reply.reason)] \in Response
    BY <1>2, <1>3, <2>1, ResponseOf
  <2> DEFINE fields == field_obtain(msgs.prsp.fields, "Location", reply.location)
             reason == ReasonOf(reply.moved)
  <2>3. fields \in Seq(Field) /\ reason \in Text
    <3>1. "Location" \in Token
      BY DEF Token
    <3> QED BY <1>2, <1>3, <2>1, <3>1, FieldObtained
  <2> HIDE DEF fields, reason
  <2>4. [msgs.prsp EXCEPT !.fields = fields, !.reason = reason] \in Response
    BY <1>2, <2>3 DEF Response
  <2> QED BY <2>2, <2>4 DEF Fixup_proxy_reply, Fixup_redirect, fields, reason
<1> HIDE DEF rest
<1>7. TypeOK'
  <2> HIDE DEF rsp, first
  <2>1. msgs' \in MsgType
    BY <1>1, <1>2, <1>6 DEF MsgType
  <2>2. reply' \in ReplyType
    BY <1>1, <1>2, <1>4 DEF ReplyType
  <2> QED BY <1>1, <2>1, <2>2 DEF TypeOK
<1>8. msgs'.prsp = rsp
  BY <1>1, <1>2 DEF MsgType
<1>9. Present'
  BY <1>1, <1>6, <1>8, ResponseOf DEF Present
<1>10. /\ reply'.location = reply.location /\ reply'.reason = reply.reason /\ reply'.moved = reply.moved
       /\ reply'.fixups = rest
  BY <1>1, <1>2 DEF ReplyType
<1>11. \A other : Scheduled(other) => other = first \/ Scheduled(other)'
  BY <1>5, <1>10 DEF Scheduled
<1>12. CASE first = "redirect"
  <2>1. /\ HasField(rsp.fields, "Location") /\ FieldValue(rsp.fields, "Location") = reply.location
        /\ rsp.reason = ReasonOf(reply.moved)
    <3> DEFINE fields == field_obtain(msgs.prsp.fields, "Location", reply.location)
    <3>1. HasField(fields, "Location") /\ FieldValue(fields, "Location") = reply.location
      <4>1. "Location" \in Token
        BY DEF Token
      <4> QED BY <1>2, <1>3, <4>1, FieldObtained
    <3> HIDE DEF fields
    <3>2. rsp = [msgs.prsp EXCEPT !.fields = fields, !.reason = ReasonOf(reply.moved)]
      BY <1>12 DEF Fixup_redirect, fields
    <3>3. rsp.fields = fields /\ rsp.reason = ReasonOf(reply.moved)
      BY <1>2, <3>2 DEF Response
    <3> QED BY <3>1, <3>3
  <2> HIDE DEF rsp, first
  <2> QED BY <1>1, <1>7, <1>8, <1>9, <1>10, <1>11, <1>12, <2>1 DEF IInv, ReplyInv, ReasonOf
<1>13. CASE first = "proxy-reply"
  <2>1. rsp.fields = msgs.prsp.fields /\ rsp.reason = ReasonOf(reply.reason)
    BY <1>2, <1>13 DEF Fixup_proxy_reply, Response
  <2> HIDE DEF rsp, first
  <2> QED BY <1>1, <1>7, <1>8, <1>9, <1>10, <1>11, <1>13, <2>1 DEF IInv, ReplyInv, ReasonOf
<1> QED BY <1>4, <1>12, <1>13

-----------------------------------------------------------------------------
(* The theorems.                                                           *)

LEMMA NextInv == IInv /\ [Next]_httpVars => IInv'
<1> SUFFICES ASSUME IInv, [Next]_httpVars PROVE IInv'
  OBVIOUS
<1>1. CASE OnHosts \/ OnUrls \/ OnFields \/ OnResponses \/ Settings
  BY <1>1, HostsChanged, UrlsChanged, FieldsChanged, ResponsesChanged, SettingsChanged, DirectiveInv DEF IInv
<1>2. CASE Replies
  BY <1>2, RepliesInv
<1>3. CASE TrafficServer
  BY <1>3, AdvanceInv, ToFixupsInv, RunFixupInv DEF TrafficServer
<1>4. CASE UNCHANGED httpVars
  BY <1>4 DEF httpVars, IInv, TypeOK, Present, ReplyInv, Scheduled
<1> QED BY <1>1, <1>2, <1>3, <1>4 DEF Next

LEMMA Invariant == Spec => []IInv
BY InitInv, NextInv, PTL DEF Spec

\* The messages, their fields and texts, and the state of the replies keep their types,
\* and a response is there wherever a directive on it is allowed (which rely on that).
THEOREM MessagesTyped == Spec => [](TypeOK /\ Present)
<1>1. IInv => TypeOK /\ Present
  BY DEF IInv
<1> QED BY <1>1, Invariant, PTL

\* However many replies and redirects there were, in whatever order and at whatever
\* hooks, the response at the end has the location and the reason of the last ones.
THEOREM LastReply == Spec => []ReplyTogether
<1>1. IInv => ReplyTogether
  <2> SUFFICES ASSUME IInv, hook = "DONE" PROVE ReplyTogether
    BY DEF ReplyTogether
  <2>1. ReplyInv /\ reply.fixups = <<>>
    BY DEF IInv, ReplyInv
  <2>2. \A which : ~ Scheduled(which)
    BY <2>1 DEF Scheduled
  <2> QED BY <2>1, <2>2 DEF ReplyInv, ReplyTogether
<1> QED BY <1>1, Invariant, PTL

-----------------------------------------------------------------------------
(* A directive by its name.                                                *)

HostNames ==
  {"ua-req-url-host", "proxy-req-url-host", "ua-req-host", "proxy-req-host", "ua-req-url-port",
   "proxy-req-url-port", "ua-req-port", "proxy-req-port", "ua-req-url-loc", "proxy-req-url-loc", "ua-req-loc",
   "proxy-req-loc"}

UrlNames ==
  {"ua-req-scheme", "proxy-req-scheme", "ua-req-path", "proxy-req-path", "ua-req-fragment", "proxy-req-fragment",
   "ua-req-url", "proxy-req-url", "ua-req-query", "proxy-req-query", "ua-req-query-value", "proxy-req-query-value",
   "apply-remap-rule", "remap-redirect", "did-remap"}

FieldNames == {"ua-req-field", "proxy-req-field", "proxy-rsp-field", "upstream-rsp-field"}

ResponseNames ==
  {"upstream-rsp-status", "proxy-rsp-status", "upstream-reason", "proxy-rsp-reason", "proxy-rsp-body",
   "upstream-rsp-body"}

ReplyNames == {"proxy-reply", "redirect"}

SettingNames ==
  {"txn-debug", "txn-error", "debug", "error", "note", "warning", "cache-key", "var", "txn-conf", "upstream-addr"}

LEMMA HostByName ==
  ASSUME OnHosts
  PROVE  /\ did'.name \in HostNames
         /\ did'.name = "ua-req-url-host" => \E v \in HostArg : Do_ua_req_url_host(v)
         /\ did'.name = "proxy-req-url-host" => \E v \in HostArg : Do_proxy_req_url_host(v)
         /\ did'.name = "ua-req-host" => \E v \in HostArg : Do_ua_req_host(v)
         /\ did'.name = "proxy-req-host" => \E v \in HostArg : Do_proxy_req_host(v)
         /\ did'.name = "ua-req-port" => \E v \in PortArg : Do_ua_req_port(v)
         /\ did'.name = "proxy-req-port" => \E v \in PortArg : Do_proxy_req_port(v)
         /\ did'.name = "ua-req-loc" => \E v \in LocArg : Do_ua_req_loc(v)
         /\ did'.name = "proxy-req-loc" => \E v \in LocArg : Do_proxy_req_loc(v)
<1>1. /\ \A v : Do_ua_req_url_host(v) => did'.name = "ua-req-url-host"
      /\ \A v : Do_proxy_req_url_host(v) => did'.name = "proxy-req-url-host"
      /\ \A v : Do_ua_req_host(v) => did'.name = "ua-req-host"
      /\ \A v : Do_proxy_req_host(v) => did'.name = "proxy-req-host"
  BY DEF Do_ua_req_url_host, Do_proxy_req_url_host, Do_ua_req_host, Do_proxy_req_host, At, Enter
<1>2. /\ \A v : Do_ua_req_url_port(v) => did'.name = "ua-req-url-port"
      /\ \A v : Do_proxy_req_url_port(v) => did'.name = "proxy-req-url-port"
      /\ \A v : Do_ua_req_port(v) => did'.name = "ua-req-port"
      /\ \A v : Do_proxy_req_port(v) => did'.name = "proxy-req-port"
  BY DEF Do_ua_req_url_port, Do_proxy_req_url_port, Do_ua_req_port, Do_proxy_req_port, At, Enter
<1>3. /\ \A v : Do_ua_req_url_loc(v) => did'.name = "ua-req-url-loc"
      /\ \A v : Do_proxy_req_url_loc(v) => did'.name = "proxy-req-url-loc"
      /\ \A v : Do_ua_req_loc(v) => did'.name = "ua-req-loc"
      /\ \A v : Do_proxy_req_loc(v) => did'.name = "proxy-req-loc"
  BY DEF Do_ua_req_url_loc, Do_proxy_req_url_loc, Do_ua_req_loc, Do_proxy_req_loc, At, Enter
<1> QED BY <1>1, <1>2, <1>3 DEF OnHosts, HostNames

LEMMA UrlByName ==
  ASSUME OnUrls
  PROVE  /\ did'.name \in UrlNames
         /\ did'.name = "ua-req-scheme" => \E v \in TextArg : Do_ua_req_scheme(v)
         /\ did'.name = "proxy-req-scheme" => \E v \in TextArg : Do_proxy_req_scheme(v)
         /\ did'.name = "ua-req-path" => \E v \in TextArg : Do_ua_req_path(v)
         /\ did'.name = "proxy-req-path" => \E v \in TextArg : Do_proxy_req_path(v)
         /\ did'.name = "ua-req-fragment" => \E v \in TextArg : Do_ua_req_fragment(v)
         /\ did'.name = "proxy-req-fragment" => \E v \in TextArg : Do_proxy_req_fragment(v)
         /\ did'.name = "ua-req-query" => \E v \in QueryArg : Do_ua_req_query(v)
         /\ did'.name = "ua-req-query-value" => \E name \in QueryName, v \in ValueArg : Do_ua_req_query_value(name, v)
         /\ did'.name = "proxy-req-query-value" =>
              \E name \in QueryName, v \in ValueArg : Do_proxy_req_query_value(name, v)
<1>1. /\ \A v : Do_ua_req_scheme(v) => did'.name = "ua-req-scheme"
      /\ \A v : Do_proxy_req_scheme(v) => did'.name = "proxy-req-scheme"
      /\ \A v : Do_ua_req_path(v) => did'.name = "ua-req-path"
      /\ \A v : Do_proxy_req_path(v) => did'.name = "proxy-req-path"
  BY DEF Do_ua_req_scheme, Do_proxy_req_scheme, Do_ua_req_path, Do_proxy_req_path, At, Enter
<1>2. /\ \A v : Do_ua_req_fragment(v) => did'.name = "ua-req-fragment"
      /\ \A v : Do_proxy_req_fragment(v) => did'.name = "proxy-req-fragment"
      /\ \A v : Do_ua_req_url(v) => did'.name = "ua-req-url"
      /\ \A v : Do_proxy_req_url(v) => did'.name = "proxy-req-url"
  BY DEF Do_ua_req_fragment, Do_proxy_req_fragment, Do_ua_req_url, Do_proxy_req_url, At, Enter
<1>3. /\ \A v : Do_ua_req_query(v) => did'.name = "ua-req-query"
      /\ \A v : Do_proxy_req_query(v) => did'.name = "proxy-req-query"
      /\ \A name, v : Do_ua_req_query_value(name, v) => did'.name = "ua-req-query-value"
      /\ \A name, v : Do_proxy_req_query_value(name, v) => did'.name = "proxy-req-query-value"
  BY DEF Do_ua_req_query, Do_proxy_req_query, Do_ua_req_query_value, Do_proxy_req_query_value, At, Enter
<1>4. /\ Do_apply_remap_rule => did'.name = "apply-remap-rule"
      /\ Do_remap_redirect => did'.name = "remap-redirect"
      /\ \A v : Do_did_remap(v) => did'.name = "did-remap"
  BY DEF Do_apply_remap_rule, Do_remap_redirect, Do_did_remap, At, Enter
<1> QED BY <1>1, <1>2, <1>3, <1>4 DEF OnUrls, UrlNames

LEMMA FieldByName ==
  ASSUME OnFields
  PROVE  /\ did'.name \in FieldNames
         /\ did'.name = "ua-req-field" => \E name \in FieldName, v \in FieldArg : Do_ua_req_field(name, v)
         /\ did'.name = "proxy-req-field" => \E name \in FieldName, v \in FieldArg : Do_proxy_req_field(name, v)
         /\ did'.name = "proxy-rsp-field" => \E name \in FieldName, v \in FieldArg : Do_proxy_rsp_field(name, v)
         /\ did'.name = "upstream-rsp-field" => \E name \in FieldName, v \in FieldArg : Do_upstream_rsp_field(name, v)
<1>1. /\ \A name, v : Do_ua_req_field(name, v) => did'.name = "ua-req-field"
      /\ \A name, v : Do_proxy_req_field(name, v) => did'.name = "proxy-req-field"
      /\ \A name, v : Do_proxy_rsp_field(name, v) => did'.name = "proxy-rsp-field"
      /\ \A name, v : Do_upstream_rsp_field(name, v) => did'.name = "upstream-rsp-field"
  BY DEF Do_ua_req_field, Do_proxy_req_field, Do_proxy_rsp_field, Do_upstream_rsp_field, At, Enter
<1> QED BY <1>1 DEF OnFields, FieldNames

LEMMA ResponseByName ==
  ASSUME OnResponses
  PROVE  /\ did'.name \in ResponseNames
         /\ did'.name = "upstream-reason" => \E v \in TextArg : Do_upstream_reason(v)
         /\ did'.name = "proxy-rsp-reason" => \E v \in TextArg : Do_proxy_rsp_reason(v)
<1>1. /\ \A v : Do_upstream_rsp_status(v) => did'.name = "upstream-rsp-status"
      /\ \A v : Do_proxy_rsp_status(v) => did'.name = "proxy-rsp-status"
      /\ \A v : Do_upstream_reason(v) => did'.name = "upstream-reason"
      /\ \A v : Do_proxy_rsp_reason(v) => did'.name = "proxy-rsp-reason"
  BY DEF Do_upstream_rsp_status, Do_proxy_rsp_status, Do_upstream_reason, Do_proxy_rsp_reason, At, Enter
<1>2. /\ \A v : Do_proxy_rsp_body(v) => did'.name = "proxy-rsp-body"
      /\ \A v : Do_upstream_rsp_body(v) => did'.name = "upstream-rsp-body"
  BY DEF Do_proxy_rsp_body, Do_upstream_rsp_body, At, Enter
<1> QED BY <1>1, <1>2 DEF OnResponses, ResponseNames

LEMMA ReplyByName ==
  ASSUME Replies
  PROVE  did'.name \in ReplyNames
<1>1. \A status, reason, body : Do_proxy_reply(status, reason, body) => did'.name = "proxy-reply"
  BY DEF Do_proxy_reply, AtReply, Enter
<1>2. \A status, reason, body, location : Do_redirect(status, reason, body, location) => did'.name = "redirect"
  BY DEF Do_redirect, AtReply, Enter
<1> QED BY <1>1, <1>2 DEF Replies, ReplyNames

LEMMA SettingByName ==
  ASSUME Settings
  PROVE  did'.name \in SettingNames
<1>1. /\ \A v : Do_txn_debug(v) => did'.name = "txn-debug"
      /\ \A v : Do_txn_error(v) => did'.name = "txn-error"
      /\ \A v : Do_debug(v) => did'.name = "debug"
      /\ \A v : Do_error(v) => did'.name = "error"
  BY DEF Do_txn_debug, Do_txn_error, Do_debug, Do_error, At, Enter
<1>2. /\ \A v : Do_note(v) => did'.name = "note"
      /\ \A v : Do_warning(v) => did'.name = "warning"
      /\ \A v : Do_cache_key(v) => did'.name = "cache-key"
      /\ \A v : Do_var(v) => did'.name = "var"
  BY DEF Do_note, Do_warning, Do_cache_key, Do_var, At, Enter
<1>3. /\ \A name, v : Do_txn_conf(name, v) => did'.name = "txn-conf"
      /\ \A v : Do_upstream_addr(v) => did'.name = "upstream-addr"
  BY DEF Do_txn_conf, Do_upstream_addr, At, Enter
<1> QED BY <1>1, <1>2, <1>3 DEF Settings, SettingNames

\* A directive on a message is one of four groups, and no reply.
LEMMA IsDirective ==
  ASSUME IInv, [Next]_httpVars, NEW names, Done(names),
         names \subseteq HostNames \union UrlNames \union FieldNames \union ResponseNames
  PROVE  /\ OnHosts \/ OnUrls \/ OnFields \/ OnResponses
         /\ Directive(did'.name) /\ did'.name \in names
<1>1. did' # NothingDone /\ count' = count + 1 /\ did'.name \in names /\ count \in Nat
  BY DEF Done, IInv, TypeOK
<1>2. ~ UNCHANGED httpVars
  BY <1>1 DEF httpVars
<1>3. ~ TrafficServer
  BY <1>1 DEF TrafficServer, ToPreRemap, ToRemap, ToPostRemap, ToUpstream, ToResponse, ToUserAgent, ToReply,
              ToFixups, RunFixup, ToDone, Advance
<1>4. ~ Replies /\ ~ Settings
  <2>1. (HostNames \union UrlNames \union FieldNames \union ResponseNames)
          \intersect (ReplyNames \union SettingNames) = {}
    BY DEF HostNames, UrlNames, FieldNames, ResponseNames, ReplyNames, SettingNames
  <2> QED BY <1>1, <2>1, ReplyByName, SettingByName
<1>5. OnHosts \/ OnUrls \/ OnFields \/ OnResponses
  BY <1>2, <1>3, <1>4 DEF Next
<1> QED BY <1>1, <1>5, HostsChanged, UrlsChanged, FieldsChanged, ResponsesChanged DEF IInv

LEMMA OfNames ==
  OfUa \union OfPreq \union OfUrsp \union OfPrsp
    \subseteq HostNames \union UrlNames \union FieldNames \union ResponseNames
BY DEF OfUa, OfPreq, OfUrsp, OfPrsp, HostNames, UrlNames, FieldNames, ResponseNames

-----------------------------------------------------------------------------
(* What the extractors see.                                                *)

\* Those of other messages see what they saw.
LEMMA SeenElsewhere ==
  ASSUME TypeOK, NEW name, Directive(name),
         NEW what \in {"ua", "preq", "ursp", "prsp", "pre-remap", "rule", "conn"} \ {About(name)},
         what = "pre-remap" => pristine.valid
  PROVE  Seen(what)' = Seen(what)
<1>1. /\ UNCHANGED <<hook, pristine, conn>>
      /\ \A other \in Messages : other # About(name) => msgs'[other] = msgs[other]
  BY DEF Directive, Entered, Changed, TypeOK, MsgType, Messages
<1>2. CASE what = "ua"
  <2>1. msgs'.ua = msgs.ua
    BY <1>1, <1>2 DEF Messages
  <2> QED BY <1>2, <2>1 DEF Seen, Ex_ua_req_method, Ex_ua_req_url, Ex_ua_req_scheme, Ex_ua_req_loc, Ex_proxy_req_loc,
      Ex_ua_req_host, Ex_ua_req_port, Ex_ua_req_path, Ex_ua_req_fragment, Ex_ua_req_url_loc, Ex_ua_req_url_host,
      Ex_ua_req_url_port, Ex_ua_req_query, Ex_ua_req_field, Ex_ua_req_query_value,
      Ex_pre_remap_req_query_value, Ex_proxy_req_query_value, UaUrl
<1>3. CASE what = "preq"
  <2>1. msgs'.preq = msgs.preq
    BY <1>1, <1>3 DEF Messages
  <2> QED BY <1>3, <2>1 DEF Seen, Ex_proxy_req_method, Ex_proxy_req_url, Ex_proxy_req_scheme, Ex_proxy_req_host,
      Ex_proxy_req_port, Ex_proxy_req_path, Ex_proxy_req_fragment, Ex_proxy_req_url_loc, Ex_proxy_req_url_host,
      Ex_proxy_req_url_port, Ex_proxy_req_query, Ex_proxy_req_field, ProxyUrl
<1>4. CASE what = "ursp"
  <2>1. msgs'.ursp = msgs.ursp
    BY <1>1, <1>4 DEF Messages
  <2> QED BY <1>4, <2>1 DEF Seen, Ex_upstream_rsp_status, Ex_upstream_rsp_status_reason, Ex_upstream_rsp_field
<1>5. CASE what = "prsp"
  <2>1. msgs'.prsp = msgs.prsp
    BY <1>1, <1>5 DEF Messages
  <2> QED BY <1>5, <2>1 DEF Seen, Ex_proxy_rsp_status, Ex_proxy_rsp_status_reason, Ex_proxy_rsp_field
<1>6. CASE what = "pre-remap"
  <2>1. PristineUrl' = PristineUrl
    BY <1>1, <1>6 DEF PristineUrl
  <2> QED BY <1>6, <2>1 DEF Seen, Ex_pre_remap_url, Ex_pre_remap_scheme, Ex_pre_remap_host, Ex_pre_remap_path,
      Ex_pre_remap_fragment, Ex_pre_remap_loc, Ex_pre_remap_port, Ex_pre_remap_query
<1>7. CASE what = "rule"
  <2>1. TargetUrl' = TargetUrl /\ ReplacementUrl' = ReplacementUrl
    BY <1>1 DEF TargetUrl, ReplacementUrl, InRule
  <2> QED BY <1>7, <2>1 DEF Seen, Ex_remap_target_url, Ex_remap_target_scheme, Ex_remap_target_host,
      Ex_remap_target_path, Ex_remap_target_loc, Ex_remap_target_port, Ex_remap_replacement_url,
      Ex_remap_replacement_scheme, Ex_remap_replacement_host, Ex_remap_replacement_path, Ex_remap_replacement_loc,
      Ex_remap_replacement_port
<1>8. CASE what = "conn"
  BY <1>1, <1>8 DEF Seen, Ex_outbound_txn_count, Ex_outbound_addr_remote, Ex_outbound_addr_local
<1> QED BY <1>2, <1>3, <1>4, <1>5, <1>6, <1>7, <1>8

-----------------------------------------------------------------------------
(* What is set is what is read.                                            *)

LEMMA StringIs ==
  ASSUME NEW v \in Feature, Is(v, "STRING")
  PROVE  v = Str(Val(v)) /\ Val(v) \in Text
<1>1. v \notin {NO_VALUE, NIL_FEATURE}
  BY DEF NO_VALUE, NIL_FEATURE, Is, Type
<1>2. v \notin {"INTEGER", "DURATION"} \X Int /\ v \notin {"BOOLEAN"} \X BOOLEAN /\ v \notin {"IP_ADDR"} \X Nat
  BY DEF Is, Type
<1>3. v \notin {"TUPLE"} \X Seq(Plain) /\ v \notin {"TUPLE"} \X Seq(Flat)
  BY DEF Is, Type
<1>4. v \in {"STRING"} \X Text
  BY <1>1, <1>2, <1>3 DEF Feature, Flat, Plain
<1> QED BY <1>4, FeatureOf DEF Str, Val

LEMMA PartRead ==
  ASSUME TypeOK, NEW which \in {"ua", "preq"}, NEW part \in {"scheme", "host", "path", "query", "fragment"},
         NEW v \in Feature, Is(v, "STRING"), msgs[which].valid,
         SetPartOf(which, part, v) \/ SetPart(which, part, Val(v))
  PROVE  UrlPart(msgs'[which].url, part) = v
<1> DEFINE url == [msgs[which].url EXCEPT ![part] = Val(v)]
<1>1. msgs[which] \in Request /\ msgs[which].url \in Url /\ msgs \in MsgType
  BY MessageOf, RequestOf DEF TypeOK
<1>2. msgs' = [msgs EXCEPT ![which] = [msgs[which] EXCEPT !.url = url]]
  BY DEF SetPartOf, SetPart, Change, Leave
<1>3. url.valid /\ url[part] = Val(v)
  <2>1. msgs[which].url.valid /\ part # "valid" /\ part \in DOMAIN msgs[which].url
    BY <1>1 DEF Url
  <2> QED BY <2>1, <1>1 DEF Url
<1> HIDE DEF url
<1>4. msgs'[which].url = url
  <2>1. "url" \in DOMAIN msgs[which] /\ which \in DOMAIN msgs
    BY <1>1 DEF Request, MsgType
  <2> QED BY <1>2, <2>1
<1> QED BY <1>3, <1>4, StringIs DEF UrlPart

\* Where a request has its host: what is the host of its URL, if that had one, and of its
\* Host field, which it has if the URL has none, is the host of the request.
HasHost(req, after, host) ==
  /\ after.url.host = IF req.url.host # <<>> THEN host ELSE <<>>
  /\ HasField(after.fields, "Host") => HostToken(FieldValue(after.fields, "Host")) = host
  /\ req.url.host = <<>> => HasField(after.fields, "Host")

LEMMA HostsOf ==
  ASSUME NEW req, NEW after, NEW host, HasHost(req, after, host)
  PROVE  RequestHost(after) = host /\ HostsAgree(after)
BY DEF HasHost, RequestHost, HostsAgree, Tokenizes

\* The host set in a request is its host: it has to have no colon, or its Host field would
\* be taken for a host with a port.
LEMMA HostSet ==
  ASSUME NEW req \in Request, NEW host \in Text, Colon(host) = 0
  PROVE  HasHost(req, RequestHostSet(req, host), host)
<1> DEFINE text == FieldValue(req.fields, "Host")
           fields == IF HasField(req.fields, "Host")
                     THEN field_obtain(req.fields, "Host", HostFieldFor(text, host))
                     ELSE IF req.url.host = <<>> THEN field_create(req.fields, "Host", host)
                     ELSE req.fields
           url == IF req.url.host # <<>> THEN host_set(req.url, host) ELSE req.url
           after == RequestHostSet(req, host)
<1>1. req.url \in Url /\ req.fields \in Seq(Field)
  BY RequestOf
<1>2. after = [req EXCEPT !.url = url, !.fields = fields]
  BY DEF RequestHostSet
<1>3. after.url = url /\ after.fields = fields
  <2> HIDE DEF url, fields, after
  <2> QED BY <1>2 DEF Request
<1>4. url.host = IF req.url.host # <<>> THEN host ELSE <<>>
  BY <1>1 DEF host_set, Url
<1>5. "Host" \in Token
  BY DEF Token
<1>6. ASSUME HasField(req.fields, "Host") \/ req.url.host = <<>>
      PROVE  HasField(fields, "Host") /\ HostToken(FieldValue(fields, "Host")) = host
  <2>1. CASE HasField(req.fields, "Host")
    <3>1. text \in Text
      BY <1>1, <2>1, FieldOf
    <3> HIDE DEF text
    <3>2. HostFieldFor(text, host) \in Text /\ HostToken(HostFieldFor(text, host)) = host
      BY <3>1, HostTokenText, HostIsHost DEF HostFieldFor
    <3> QED BY <1>1, <1>5, <2>1, <3>2, FieldObtained
  <2>2. CASE ~ HasField(req.fields, "Host")
    <3>1. fields = field_obtain(req.fields, "Host", host)
      BY <1>6, <2>2 DEF field_obtain
    <3> HIDE DEF fields
    <3> QED BY <1>1, <1>5, <3>1, FieldObtained, HostIsHost
  <2> QED BY <2>1, <2>2
<1>7. HasField(req.fields, "Host") \/ req.url.host = <<>> \/ fields = req.fields
  OBVIOUS
<1> HIDE DEF url, fields, after
<1>8. HasField(fields, "Host") => HostToken(FieldValue(fields, "Host")) = host
  BY <1>6, <1>7
<1> QED BY <1>3, <1>4, <1>6, <1>8 DEF HasHost, after

LEMMA RequestHostRead ==
  ASSUME TypeOK, NEW which \in {"ua", "preq"}, NEW v \in Feature, Is(v, "STRING"), Colon(Val(v)) = 0,
         msgs[which].valid, Change(which, RequestHostSet(msgs[which], Val(v)))
  PROVE  HostOf(msgs'[which]) = v
<1> DEFINE m == RequestHostSet(msgs[which], Val(v))
<1>1. msgs[which] \in Request /\ Val(v) \in Text /\ v = Str(Val(v))
  BY MessageOf, StringIs
<1>2. m.valid /\ RequestHost(m) = Val(v)
  BY <1>1, HostSet, HostsOf, RequestHostSetType, RequestOf
<1> HIDE DEF m
<1>3. msgs'[which] = m
  BY DEF Change, Leave, TypeOK, MsgType, m
<1> QED BY <1>1, <1>2, <1>3 DEF HostOf

LEMMA ReasonRead ==
  ASSUME TypeOK, NEW which \in {"ursp", "prsp"}, NEW v \in Feature, Is(v, "STRING"), msgs[which].valid,
         SetReason(which, v)
  PROVE  Reason(msgs'[which]) = v
<1> DEFINE m == [msgs[which] EXCEPT !.reason = Val(v)]
<1>1. msgs[which] \in Response /\ v = Str(Val(v))
  BY MessageOf, StringIs
<1>2. m.valid /\ m.reason = Val(v)
  BY <1>1 DEF Response
<1>3. Change(which, m)
  BY DEF SetReason
<1> HIDE DEF m
<1>4. msgs'[which] = m
  BY <1>3 DEF Change, Leave, TypeOK, MsgType
<1> QED BY <1>1, <1>2, <1>4 DEF Reason

LEMMA ValueOf ==
  ASSUME NEW name, NEW hooks, NEW v, At(name, hooks, v)
  PROVE  did'.value = v
BY DEF At, Enter

LEMMA Groups ==
  /\ HostNames \intersect (UrlNames \union FieldNames \union ResponseNames) = {}
  /\ UrlNames \intersect (FieldNames \union ResponseNames) = {} /\ FieldNames \intersect ResponseNames = {}
BY DEF HostNames, UrlNames, FieldNames, ResponseNames

\* The directives of a name are those in its group.
LEMMA InGroup ==
  ASSUME OnHosts \/ OnUrls \/ OnFields \/ OnResponses
  PROVE  /\ did'.name \in HostNames => OnHosts
         /\ did'.name \in UrlNames => OnUrls
         /\ did'.name \in FieldNames => OnFields
         /\ did'.name \in ResponseNames => OnResponses
BY Groups, HostByName, UrlByName, FieldByName, ResponseByName

LEMMA ReadFromUa ==
  ASSUME TypeOK, OnHosts \/ OnUrls \/ OnFields \/ OnResponses, PlainHosts, Is(did'.value, "STRING"),
         NEW name \in {"ua-req-url-host", "ua-req-host", "ua-req-scheme",
                  "ua-req-path", "ua-req-fragment", "ua-req-query"},
         did'.name = name, msgs[About(name)].valid
  PROVE  ReadBack(name)' = did'.value
<1>1. /\ name \in {"ua-req-url-host", "ua-req-host"} => name \in HostNames
      /\ name \in {"ua-req-scheme", "ua-req-path", "ua-req-fragment", "ua-req-query"} => name \in UrlNames
  BY DEF HostNames, UrlNames
<1>2. msgs["ua"].valid
  BY Abouts DEF OfUa
<1>3. CASE name = "ua-req-url-host"
  <2>1. PICK v \in HostArg : Do_ua_req_url_host(v)
    BY <1>1, <1>3, InGroup, HostByName
  <2>2. did'.value = v /\ v \in Feature
    BY <2>1, ValueOf, Arguments DEF Do_ua_req_url_host
  <2>3. UrlPart(msgs'["ua"].url, "host") = v
    BY <1>2, <2>1, <2>2, PartRead DEF Do_ua_req_url_host
  <2> QED BY <1>3, <2>2, <2>3 DEF ReadBack, Ex_ua_req_url_host, UaUrl
<1>4. CASE name = "ua-req-host"
  <2>1. PICK v \in HostArg : Do_ua_req_host(v)
    BY <1>1, <1>4, InGroup, HostByName
  <2>2. did'.value = v /\ v \in Feature
    BY <2>1, ValueOf, Arguments DEF Do_ua_req_host
  <2>3. HostOf(msgs'["ua"]) = v
    BY <1>2, <2>1, <2>2, RequestHostRead DEF Do_ua_req_host, PlainHosts
  <2> QED BY <1>4, <2>2, <2>3 DEF ReadBack, Ex_ua_req_host
<1>5. CASE name = "ua-req-scheme"
  <2>1. PICK v \in TextArg : Do_ua_req_scheme(v)
    BY <1>1, <1>5, InGroup, UrlByName
  <2>2. did'.value = v /\ v \in Feature
    BY <2>1, ValueOf, Arguments DEF Do_ua_req_scheme
  <2>3. UrlPart(msgs'["ua"].url, "scheme") = v
    BY <1>2, <2>1, <2>2, PartRead DEF Do_ua_req_scheme
  <2> QED BY <1>5, <2>2, <2>3 DEF ReadBack, Ex_ua_req_scheme, UaUrl
<1>6. CASE name = "ua-req-path"
  <2>1. PICK v \in TextArg : Do_ua_req_path(v)
    BY <1>1, <1>6, InGroup, UrlByName
  <2>2. did'.value = v /\ v \in Feature
    BY <2>1, ValueOf, Arguments DEF Do_ua_req_path
  <2>3. UrlPart(msgs'["ua"].url, "path") = v
    BY <1>2, <2>1, <2>2, PartRead DEF Do_ua_req_path
  <2> QED BY <1>6, <2>2, <2>3 DEF ReadBack, Ex_ua_req_path, UaUrl
<1>7. CASE name = "ua-req-fragment"
  <2>1. PICK v \in TextArg : Do_ua_req_fragment(v)
    BY <1>1, <1>7, InGroup, UrlByName
  <2>2. did'.value = v /\ v \in Feature
    BY <2>1, ValueOf, Arguments DEF Do_ua_req_fragment
  <2>3. UrlPart(msgs'["ua"].url, "fragment") = v
    BY <1>2, <2>1, <2>2, PartRead DEF Do_ua_req_fragment
  <2> QED BY <1>7, <2>2, <2>3 DEF ReadBack, Ex_ua_req_fragment, UaUrl
<1>8. CASE name = "ua-req-query"
  <2>1. PICK v \in QueryArg : Do_ua_req_query(v)
    BY <1>1, <1>8, InGroup, UrlByName
  <2>2. did'.value = v /\ v \in Feature
    BY <2>1, ValueOf, Arguments DEF Do_ua_req_query
  <2>3. UrlPart(msgs'["ua"].url, "query") = v
    BY <1>2, <2>1, <2>2, PartRead DEF Do_ua_req_query
  <2> QED BY <1>8, <2>2, <2>3 DEF ReadBack, Ex_ua_req_query, UaUrl
<1> QED BY <1>3, <1>4, <1>5, <1>6, <1>7, <1>8

LEMMA ReadFromProxy ==
  ASSUME TypeOK, OnHosts \/ OnUrls \/ OnFields \/ OnResponses, PlainHosts, Is(did'.value, "STRING"),
         NEW name \in {"proxy-req-host", "proxy-req-url-host", "proxy-req-scheme",
                  "proxy-req-path", "proxy-req-fragment"},
         did'.name = name, msgs[About(name)].valid
  PROVE  ReadBack(name)' = did'.value
<1>1. /\ name \in {"proxy-req-host", "proxy-req-url-host"} => name \in HostNames
      /\ name \in {"proxy-req-scheme", "proxy-req-path", "proxy-req-fragment"} => name \in UrlNames
  BY DEF HostNames, UrlNames
<1>2. msgs["preq"].valid
  BY Abouts DEF OfPreq
<1>3. CASE name = "proxy-req-host"
  <2>1. PICK v \in HostArg : Do_proxy_req_host(v)
    BY <1>1, <1>3, InGroup, HostByName
  <2>2. did'.value = v /\ v \in Feature
    BY <2>1, ValueOf, Arguments DEF Do_proxy_req_host
  <2>3. HostOf(msgs'["preq"]) = v
    BY <1>2, <2>1, <2>2, RequestHostRead DEF Do_proxy_req_host, PlainHosts
  <2> QED BY <1>3, <2>2, <2>3 DEF ReadBack, Ex_proxy_req_host
<1>4. CASE name = "proxy-req-url-host"
  <2>1. PICK v \in HostArg : Do_proxy_req_url_host(v)
    BY <1>1, <1>4, InGroup, HostByName
  <2>2. did'.value = v /\ v \in Feature
    BY <2>1, ValueOf, Arguments DEF Do_proxy_req_url_host
  <2>3. UrlPart(msgs'["preq"].url, "host") = v
    BY <1>2, <2>1, <2>2, PartRead DEF Do_proxy_req_url_host
  <2> QED BY <1>4, <2>2, <2>3 DEF ReadBack, Ex_proxy_req_url_host, ProxyUrl
<1>5. CASE name = "proxy-req-scheme"
  <2>1. PICK v \in TextArg : Do_proxy_req_scheme(v)
    BY <1>1, <1>5, InGroup, UrlByName
  <2>2. did'.value = v /\ v \in Feature
    BY <2>1, ValueOf, Arguments DEF Do_proxy_req_scheme
  <2>3. UrlPart(msgs'["preq"].url, "scheme") = v
    BY <1>2, <2>1, <2>2, PartRead DEF Do_proxy_req_scheme
  <2> QED BY <1>5, <2>2, <2>3 DEF ReadBack, Ex_proxy_req_scheme, ProxyUrl
<1>6. CASE name = "proxy-req-path"
  <2>1. PICK v \in TextArg : Do_proxy_req_path(v)
    BY <1>1, <1>6, InGroup, UrlByName
  <2>2. did'.value = v /\ v \in Feature
    BY <2>1, ValueOf, Arguments DEF Do_proxy_req_path
  <2>3. UrlPart(msgs'["preq"].url, "path") = v
    BY <1>2, <2>1, <2>2, PartRead DEF Do_proxy_req_path
  <2> QED BY <1>6, <2>2, <2>3 DEF ReadBack, Ex_proxy_req_path, ProxyUrl
<1>7. CASE name = "proxy-req-fragment"
  <2>1. PICK v \in TextArg : Do_proxy_req_fragment(v)
    BY <1>1, <1>7, InGroup, UrlByName
  <2>2. did'.value = v /\ v \in Feature
    BY <2>1, ValueOf, Arguments DEF Do_proxy_req_fragment
  <2>3. UrlPart(msgs'["preq"].url, "fragment") = v
    BY <1>2, <2>1, <2>2, PartRead DEF Do_proxy_req_fragment
  <2> QED BY <1>7, <2>2, <2>3 DEF ReadBack, Ex_proxy_req_fragment, ProxyUrl
<1> QED BY <1>3, <1>4, <1>5, <1>6, <1>7

LEMMA ReadFromResponse ==
  ASSUME TypeOK, OnHosts \/ OnUrls \/ OnFields \/ OnResponses, Is(did'.value, "STRING"),
         NEW name \in {"upstream-reason", "proxy-rsp-reason"},
         did'.name = name, msgs[About(name)].valid
  PROVE  ReadBack(name)' = did'.value
<1>1. name \in ResponseNames
  BY DEF ResponseNames
<1>2. (name = "upstream-reason" => msgs["ursp"].valid) /\ (name = "proxy-rsp-reason" => msgs["prsp"].valid)
  BY Abouts DEF OfUrsp, OfPrsp
<1>3. CASE name = "upstream-reason"
  <2>1. PICK v \in TextArg : Do_upstream_reason(v)
    BY <1>1, <1>3, InGroup, ResponseByName
  <2>2. did'.value = v /\ v \in Feature
    BY <2>1, ValueOf, Arguments DEF Do_upstream_reason
  <2>3. Reason(msgs'["ursp"]) = v
    BY <1>2, <1>3, <2>1, <2>2, ReasonRead DEF Do_upstream_reason
  <2> QED BY <1>3, <2>2, <2>3 DEF ReadBack, Ex_upstream_rsp_status_reason
<1>4. CASE name = "proxy-rsp-reason"
  <2>1. PICK v \in TextArg : Do_proxy_rsp_reason(v)
    BY <1>1, <1>4, InGroup, ResponseByName
  <2>2. did'.value = v /\ v \in Feature
    BY <2>1, ValueOf, Arguments DEF Do_proxy_rsp_reason
  <2>3. Reason(msgs'["prsp"]) = v
    BY <1>2, <1>4, <2>1, <2>2, ReasonRead DEF Do_proxy_rsp_reason
  <2> QED BY <1>4, <2>2, <2>3 DEF ReadBack, Ex_proxy_rsp_status_reason
<1> QED BY <1>3, <1>4

\* For hosts without a port: what a directive sets is what the extractor of its name then
\* gives, and those of other messages, of the URL before the remap, of the rule and of the
\* connection give what they gave.
THEOREM EachItsOwn == ASSUME PlainHosts PROVE Spec => OwnMessage
<1>1. IInv /\ [Next]_httpVars =>
        [Done(OfUa \union OfPreq \union OfUrsp \union OfPrsp) /\ msgs' # msgs =>
           /\ \A what \in {"ua", "preq", "ursp", "prsp", "pre-remap", "rule", "conn"} \ {About(did'.name)} :
                (what = "pre-remap" => pristine.valid) => Seen(what)' = Seen(what)
           /\ \A name \in ReadNames :
                did'.name = name /\ msgs[About(name)].valid /\ Is(did'.value, "STRING") /\ end' = "ok"
                  => ReadBack(name)' = did'.value]_httpVars
  <2> SUFFICES ASSUME IInv, [Next]_httpVars, Done(OfUa \union OfPreq \union OfUrsp \union OfPrsp)
               PROVE  /\ \A what \in {"ua", "preq", "ursp", "prsp", "pre-remap", "rule", "conn"} \ {About(did'.name)} :
                           (what = "pre-remap" => pristine.valid) => Seen(what)' = Seen(what)
                      /\ \A name \in ReadNames :
                           did'.name = name /\ msgs[About(name)].valid /\ Is(did'.value, "STRING") /\ end' = "ok"
                             => ReadBack(name)' = did'.value
    OBVIOUS
  <2>1. TypeOK /\ Directive(did'.name) /\ (OnHosts \/ OnUrls \/ OnFields \/ OnResponses)
    BY IsDirective, OfNames DEF IInv
  <2>2. ASSUME NEW what \in {"ua", "preq", "ursp", "prsp", "pre-remap", "rule", "conn"} \ {About(did'.name)},
               what = "pre-remap" => pristine.valid
        PROVE  Seen(what)' = Seen(what)
    BY <2>1, <2>2, SeenElsewhere
  <2>3. ASSUME NEW name \in ReadNames, did'.name = name, msgs[About(name)].valid, Is(did'.value, "STRING")
        PROVE  ReadBack(name)' = did'.value
    BY <2>1, <2>3, ReadFromUa, ReadFromProxy, ReadFromResponse DEF ReadNames
  <2> QED BY <2>2, <2>3
<1> QED BY <1>1, Invariant, PTL DEF OwnMessage, Spec
-----------------------------------------------------------------------------
(* The host of a request.                                                  *)

LEMMA PortKeeps ==
  ASSUME NEW req \in Request, NEW port \in Int
  PROVE  /\ RequestHost(RequestPortSet(req, port)) = RequestHost(req)
         /\ HostsAgree(req) => HostsAgree(RequestPortSet(req, port))
<1> DEFINE text == FieldValue(req.fields, "Host")
           host == HostToken(text) \o (IF AsPort(port) > 0 THEN <<":">> ELSE <<>>)
           fields == IF HasField(req.fields, "Host") /\ Tokenizes(text)
                     THEN field_obtain(req.fields, "Host", host) ELSE req.fields
           url == IF req.url.host # <<>> THEN port_set(req.url, port) ELSE req.url
           after == RequestPortSet(req, port)
<1>1. req.url \in Url /\ req.fields \in Seq(Field)
  BY RequestOf
<1>2. after = [req EXCEPT !.url = url, !.fields = fields]
  BY DEF RequestPortSet
<1>3. after.url = url /\ after.fields = fields
  <2> HIDE DEF url, fields, after
  <2> QED BY <1>2 DEF Request
<1>4. url.host = req.url.host
  BY <1>1 DEF port_set, Url
<1>5. ASSUME HasField(req.fields, "Host"), Tokenizes(text)
      PROVE  HasField(fields, "Host") /\ HostToken(FieldValue(fields, "Host")) = HostToken(text)
  <2>1. text \in Text
    BY <1>1, <1>5, FieldOf
  <2> HIDE DEF text
  <2>2. HostToken(text) \in Text /\ Colon(HostToken(text)) = 0
    BY <2>1, HostTokenText
  <2>3. HostToken(text) \o <<>> = HostToken(text)
    BY <2>2 DEF Text
  <2>4. host \in Text /\ HostToken(host) = HostToken(text)
    BY <2>2, <2>3, HostIsHost
  <2>5. "Host" \in Token
    BY DEF Token
  <2>6. fields = field_obtain(req.fields, "Host", host)
    BY <1>5
  <2> HIDE DEF host, fields
  <2> QED BY <1>1, <2>4, <2>5, <2>6, FieldObtained
<1>6. (HasField(req.fields, "Host") /\ Tokenizes(text)) \/ fields = req.fields
  OBVIOUS
<1> HIDE DEF url, fields, after
<1> QED BY <1>3, <1>4, <1>5, <1>6 DEF RequestHost, HostsAgree, Tokenizes, after

\* A location that is parsed has a host.
LEMMA LocParsed ==
  ASSUME NEW text
  PROVE  /\ Loc_String_Parse(text).port >= 0 => Loc_String_Parse(text).host = HostToken(text)
         /\ Loc_String_Parse(text).host # <<>> => Loc_String_Parse(text).port >= 0
<1> DEFINE port == PortOfToken(PortToken(text))
<1>1. ~ (-1 >= 0)
  OBVIOUS
<1>2. PortToken(text) = <<>> \/ port \in 1 .. MaxPort => port >= 0
  BY DEF PortOfToken
<1> HIDE DEF port
<1>3. CASE Loc_String_Parse(text) = NoLoc
  BY <1>1, <1>3 DEF NoLoc
<1>4. CASE Loc_String_Parse(text) # NoLoc
  <2>1. /\ PortToken(text) = <<>> \/ port \in 1 .. MaxPort
        /\ Loc_String_Parse(text) = [host |-> HostToken(text), port |-> port]
    BY <1>4 DEF Loc_String_Parse, port
  <2> QED BY <1>2, <2>1
<1> QED BY <1>3, <1>4

LEMMA LocSet ==
  ASSUME TypeOK, PlainLocs, NEW which \in {"ua", "preq"}, NEW v \in LocArg, msgs[which].valid, Req_Loc_Set(which, v),
         NEW name \in {"ua-req-loc", "proxy-req-loc"}, HostGiven(name, v) # <<>>
  PROVE  HasHost(msgs[which], msgs'[which], HostGiven(name, v))
<1> DEFINE isText == Is(v, "STRING") /\ Loc_String_Parse(Val(v)).port >= 0
           isTuple == Is(v, "TUPLE") /\ Val(v) # <<>> /\ Is(Val(v)[1], "STRING")
           loc == IF isText THEN Loc_String_Parse(Val(v)) ELSE LocOfTuple(Val(v), 0)
           req == msgs[which]
           texts == IF isText THEN {Val(v)} ELSE HostTexts(loc)
           now(text) == [req EXCEPT !.fields = field_obtain(@, "Host", text),
                                    !.url = IF loc.port >= 0 /\ @.host # <<>>
                                            THEN port_set(host_set(@, loc.host), loc.port) ELSE @]
<1>0. v \in Feature /\ ~ (-1 >= 0) /\ HostGiven(name, v) =
        IF Is(v, "STRING") THEN Loc_String_Parse(Val(v)).host
        ELSE IF Is(v, "TUPLE") /\ LocOfTuple(Val(v), 0).port >= 0 THEN LocOfTuple(Val(v), 0).host ELSE <<>>
  <2>1. ~ (-1 >= 0)
    OBVIOUS
  <2> QED BY <2>1, Arguments DEF HostGiven, Is
<1>1. loc.host = HostGiven(name, v) /\ loc.port >= 0 /\ (isText \/ isTuple)
  <2>1. CASE Is(v, "STRING")
    <3>1. Loc_String_Parse(Val(v)).port >= 0
      BY <1>0, <2>1, LocParsed
    <3> QED BY <1>0, <2>1, <3>1
  <2>2. CASE ~ Is(v, "STRING")
    <3>1. Is(v, "TUPLE") /\ LocOfTuple(Val(v), 0).port >= 0 /\ HostGiven(name, v) = LocOfTuple(Val(v), 0).host
      BY <1>0, <2>2
    <3>2. isTuple
      BY <1>0, <3>1 DEF LocOfTuple, NoLoc
    <3> QED BY <2>2, <3>1, <3>2
  <2> QED BY <2>1, <2>2
<1>2. PICK text \in texts : Change(which, now(text))
  BY <1>1 DEF Req_Loc_Set
<1>3. loc.host \in Text /\ loc.port \in Int
  BY <1>0, <1>1, LocType
<1>4. text \in Text /\ HostToken(text) = loc.host
  <2>1. CASE isText
    BY <1>0, <1>2, <2>1, LocParsed, FeatureOf
  <2>2. CASE ~ isText
    <3>1. Colon(loc.host) = 0
      <4>1. loc.host = Val(Val(v)[1])
        BY <1>1, <2>2 DEF LocOfTuple
      <4> QED BY <1>1, <2>2, <4>1 DEF PlainLocs
    <3> HIDE DEF isText, loc
    <3>2. \A n : WithPort(loc.host, Digits(n)) \in Text /\ HostToken(WithPort(loc.host, Digits(n))) = loc.host
      BY <1>3, <3>1, DigitsText, HostIsHost
    <3> QED BY <1>2, <1>3, <2>2, <3>1, <3>2, HostIsHost DEF HostTexts
  <2> QED BY <2>1, <2>2
<1>5. req \in Request /\ req.url \in Url /\ req.fields \in Seq(Field)
  BY MessageOf, RequestOf
<1> HIDE DEF loc, texts, isText, isTuple
<1>6. msgs'[which] = now(text)
  BY <1>2 DEF Change, Leave, TypeOK, MsgType
<1> HIDE DEF req
<1> DEFINE fields == field_obtain(req.fields, "Host", text)
           url == IF loc.port >= 0 /\ req.url.host # <<>>
                  THEN port_set(host_set(req.url, loc.host), loc.port) ELSE req.url
<1>7. HasField(fields, "Host") /\ HostToken(FieldValue(fields, "Host")) = loc.host
  <2>1. "Host" \in Token
    BY DEF Token
  <2> QED BY <1>4, <1>5, <2>1, FieldObtained
<1>8. url.host = IF req.url.host # <<>> THEN loc.host ELSE <<>>
  <2>1. \A u \in Url : port_set(host_set(u, loc.host), loc.port).host = loc.host
    BY DEF port_set, host_set, Url
  <2> QED BY <1>1, <1>5, <2>1
<1>9. now(text).url = url /\ now(text).fields = fields
  <2>1. now(text) = [req EXCEPT !.fields = fields, !.url = url]
    OBVIOUS
  <2> HIDE DEF now, fields, url
  <2> QED BY <1>5, <2>1 DEF Request
<1> HIDE DEF now, fields, url
<1> QED BY <1>1, <1>6, <1>7, <1>8, <1>9 DEF HasHost, req

\* A request after a directive on its host, port or location.
Whole(name, v, before, after) ==
  /\ HostGiven(name, v) # <<>> => RequestHost(after) = HostGiven(name, v)
  /\ name \in {"ua-req-port", "proxy-req-port"} => RequestHost(after) = RequestHost(before)
  /\ HostsAgree(before) /\ (HostGiven(name, v) # <<>> \/ name \in {"ua-req-port", "proxy-req-port"}) =>
       HostsAgree(after)

LEMMA WholeByHost ==
  ASSUME TypeOK, PlainHosts, NEW which \in {"ua", "preq"}, msgs[which].valid, NEW v \in HostArg,
         NEW name \in {"ua-req-host", "proxy-req-host"},
         Is(v, "STRING") => Change(which, RequestHostSet(msgs[which], Val(v)))
  PROVE  Whole(name, v, msgs[which], msgs'[which])
<1>1. CASE Is(v, "STRING")
  <2>1. msgs'[which] = RequestHostSet(msgs[which], Val(v))
    BY <1>1 DEF Change, Leave, TypeOK, MsgType
  <2>2. HasHost(msgs[which], msgs'[which], Val(v))
    <3>1. Val(v) \in Text /\ Colon(Val(v)) = 0 /\ msgs[which] \in Request
      BY <1>1, Arguments, StringIs, MessageOf DEF PlainHosts
    <3> QED BY <2>1, <3>1, HostSet
  <2>3. RequestHost(msgs'[which]) = Val(v) /\ HostsAgree(msgs'[which])
    BY <2>2, HostsOf
  <2>4. HostGiven(name, v) = Val(v) /\ name \notin {"ua-req-port", "proxy-req-port"}
    BY <1>1 DEF HostGiven
  <2> QED BY <2>3, <2>4 DEF Whole
<1>2. CASE ~ Is(v, "STRING")
  BY <1>2 DEF HostGiven, Whole
<1> QED BY <1>1, <1>2

LEMMA WholeByPort ==
  ASSUME TypeOK, NEW which \in {"ua", "preq"}, msgs[which].valid, NEW v \in PortArg,
         NEW name \in {"ua-req-port", "proxy-req-port"}, SetRequestPort(which, v)
  PROVE  Whole(name, v, msgs[which], msgs'[which])
<1>1. HostGiven(name, v) = <<>>
  BY DEF HostGiven
<1>2. CASE as_integer(v, -1) >= 0
  <2>1. msgs'[which] = RequestPortSet(msgs[which], as_integer(v, -1))
    BY <1>2 DEF SetRequestPort, Change, Leave, TypeOK, MsgType
  <2>2. as_integer(v, -1) \in Int
    <3>1. -1 \in Int
      OBVIOUS
    <3> QED BY <3>1, Arguments, IntegerOf
  <2> QED BY <1>1, <2>1, <2>2, MessageOf, PortKeeps DEF Whole
<1>3. CASE ~ (as_integer(v, -1) >= 0)
  BY <1>1, <1>3 DEF SetRequestPort, Skip, Leave, Whole
<1> QED BY <1>2, <1>3

LEMMA WholeByLoc ==
  ASSUME TypeOK, PlainLocs, NEW which \in {"ua", "preq"}, msgs[which].valid, NEW v \in LocArg,
         NEW name \in {"ua-req-loc", "proxy-req-loc"}, Req_Loc_Set(which, v)
  PROVE  Whole(name, v, msgs[which], msgs'[which])
<1>1. CASE HostGiven(name, v) # <<>>
  BY <1>1, LocSet, HostsOf DEF Whole
<1>2. CASE HostGiven(name, v) = <<>>
  BY <1>2 DEF Whole
<1> QED BY <1>1, <1>2

LEMMA WholeStep ==
  ASSUME IInv, [Next]_httpVars, PlainHosts, PlainLocs, end' = "ok", msgs[About(did'.name)].valid,
         Done({"ua-req-host", "proxy-req-host", "ua-req-port", "proxy-req-port", "ua-req-loc", "proxy-req-loc"})
  PROVE  Whole(did'.name, did'.value, msgs[About(did'.name)], msgs'[About(did'.name)])
<1> DEFINE names == {"ua-req-host", "proxy-req-host", "ua-req-port", "proxy-req-port", "ua-req-loc", "proxy-req-loc"}
<1>1. names \subseteq HostNames
  BY DEF HostNames
<1>2. TypeOK /\ OnHosts /\ did'.name \in names
  BY <1>1, IsDirective, InGroup DEF IInv
<1>3. /\ About("ua-req-host") = "ua" /\ About("ua-req-port") = "ua" /\ About("ua-req-loc") = "ua"
      /\ About("proxy-req-host") = "preq" /\ About("proxy-req-port") = "preq" /\ About("proxy-req-loc") = "preq"
  BY Abouts DEF OfUa, OfPreq
<1>4. CASE did'.name = "ua-req-host"
  <2>1. PICK v \in HostArg : Do_ua_req_host(v)
    BY <1>2, <1>4, HostByName
  <2>2. did'.value = v /\ (Is(v, "STRING") => Change("ua", RequestHostSet(msgs["ua"], Val(v))))
    BY <2>1, ValueOf DEF Do_ua_req_host
  <2> QED BY <1>2, <1>3, <1>4, <2>2, WholeByHost
<1>5. CASE did'.name = "proxy-req-host"
  <2>1. PICK v \in HostArg : Do_proxy_req_host(v)
    BY <1>2, <1>5, HostByName
  <2>2. did'.value = v /\ (Is(v, "STRING") => Change("preq", RequestHostSet(msgs["preq"], Val(v))))
    BY <2>1, ValueOf DEF Do_proxy_req_host
  <2> QED BY <1>2, <1>3, <1>5, <2>2, WholeByHost
<1>6. CASE did'.name = "ua-req-port"
  <2>1. PICK v \in PortArg : Do_ua_req_port(v)
    BY <1>2, <1>6, HostByName
  <2>2. did'.value = v /\ SetRequestPort("ua", v)
    BY <2>1, ValueOf DEF Do_ua_req_port
  <2> QED BY <1>2, <1>3, <1>6, <2>2, WholeByPort
<1>7. CASE did'.name = "proxy-req-port"
  <2>1. PICK v \in PortArg : Do_proxy_req_port(v)
    BY <1>2, <1>7, HostByName
  <2>2. did'.value = v /\ SetRequestPort("preq", v)
    BY <2>1, ValueOf DEF Do_proxy_req_port
  <2> QED BY <1>2, <1>3, <1>7, <2>2, WholeByPort
<1>8. CASE did'.name = "ua-req-loc"
  <2>1. PICK v \in LocArg : Do_ua_req_loc(v)
    BY <1>2, <1>8, HostByName
  <2>2. did'.value = v /\ Req_Loc_Set("ua", v)
    BY <2>1, ValueOf DEF Do_ua_req_loc
  <2> QED BY <1>2, <1>3, <1>8, <2>1, <2>2, WholeByLoc
<1>9. CASE did'.name = "proxy-req-loc"
  <2>1. PICK v \in LocArg : Do_proxy_req_loc(v)
    BY <1>2, <1>9, HostByName
  <2>2. did'.value = v /\ Req_Loc_Set("preq", v)
    BY <2>1, ValueOf DEF Do_proxy_req_loc
  <2> QED BY <1>2, <1>3, <1>9, <2>1, <2>2, WholeByLoc
<1> QED BY <1>2, <1>4, <1>5, <1>6, <1>7, <1>8, <1>9

\* For hosts without a port, whatever else the texts are and whatever the Host field was: a
\* directive on the host, port or location of a request leaves it with the host it gives,
\* in both places if they agreed, and a port does not change the host.
THEOREM HostInBothPlaces == ASSUME PlainHosts, PlainLocs PROVE Spec => RequestWhole
<1>1. IInv /\ [Next]_httpVars =>
        [Done({"ua-req-host", "proxy-req-host", "ua-req-port", "proxy-req-port", "ua-req-loc", "proxy-req-loc"})
           /\ end' = "ok" /\ msgs[About(did'.name)].valid =>
         LET before == msgs[About(did'.name)]
             after == msgs'[About(did'.name)]
             host == HostGiven(did'.name, did'.value)
         IN /\ host # <<>> => RequestHost(after) = host
            /\ did'.name \in {"ua-req-port", "proxy-req-port"} => RequestHost(after) = RequestHost(before)
            /\ HostsAgree(before) /\ (host # <<>> \/ did'.name \in {"ua-req-port", "proxy-req-port"}) =>
                 HostsAgree(after)]_httpVars
  BY WholeStep DEF Whole
<1> QED BY <1>1, Invariant, PTL DEF RequestWhole, Spec

-----------------------------------------------------------------------------
(* How many of a sequence are in a set: all of them for the length, one    *)
(* text for how often it occurs.                                           *)

Among(values, W) == {i \in DOMAIN values : values[i] \in W}

LEMMA SameSize ==
  ASSUME NEW X, IsFiniteSet(X), NEW Y, NEW h \in [X -> Y],
         \A x, z \in X : h[x] = h[z] => x = z, \A y \in Y : \E x \in X : h[x] = y
  PROVE  IsFiniteSet(Y) /\ Cardinality(Y) = Cardinality(X)
<1>1. h \in Bijection(X, Y)
  BY DEF Bijection, Injection, IsInjective, Surjection
<1> QED BY <1>1, FS_Bijection DEF ExistsBijection

\* Positions are finite sets.
LEMMA Positions ==
  ASSUME NEW n \in Nat, NEW T \in SUBSET (1 .. n)
  PROVE  IsFiniteSet(T) /\ Cardinality(T) \in Nat
<1>1. IsFiniteSet(1 .. n)
  BY FS_Interval
<1> QED BY <1>1, FS_Subset, FS_CardinalityType

LEMMA NthGrows ==
  ASSUME NEW n \in Nat, NEW at \in SUBSET (1 .. n)
  PROVE  \A i, j \in 1 .. Cardinality(at) : i < j => Nth(at, i) < Nth(at, j)
<1> SUFFICES ASSUME NEW i \in 1 .. Cardinality(at), NEW j \in 1 .. Cardinality(at), i < j,
                    ~ (Nth(at, i) < Nth(at, j))
             PROVE  FALSE
  OBVIOUS
<1>1. /\ Nth(at, i) \in at /\ Cardinality(UpToPos(at, Nth(at, i))) = i
      /\ Nth(at, j) \in at /\ Cardinality(UpToPos(at, Nth(at, j))) = j
  BY NthOf
<1>2. Nth(at, j) = Nth(at, i) \/ Nth(at, j) < Nth(at, i)
  <2>1. Nth(at, i) \in 1 .. n /\ Nth(at, j) \in 1 .. n
    BY <1>1
  <2>2. \A x, y \in 1 .. n : ~ (x < y) => y = x \/ y < x
    OBVIOUS
  <2> QED BY <2>1, <2>2
<1>3. Nth(at, j) # Nth(at, i)
  BY <1>1
<1>4. Cardinality(UpToPos(at, Nth(at, j))) < Cardinality(UpToPos(at, Nth(at, i)))
  BY <1>1, <1>2, <1>3, NthOf
<1> QED BY <1>1, <1>4

\* A map of positions that keeps their order and what is there, and meets all.
Aligned(h, s1, at1, s2, at2) ==
  /\ h \in [at1 -> at2] /\ \A y \in at2 : \E x \in at1 : h[x] = y
  /\ \A p, q \in at1 : p < q => h[p] < h[q]
  /\ \A p \in at1 : s1[p] = s2[h[p]]

LEMMA SamePicked ==
  ASSUME NEW S, NEW s1 \in Seq(S), NEW s2 \in Seq(S), NEW at1 \in SUBSET DOMAIN s1, NEW at2 \in SUBSET DOMAIN s2,
         NEW h, Aligned(h, s1, at1, s2, at2)
  PROVE  Picked(s1, at1) = Picked(s2, at2)
<1>0. /\ h \in [at1 -> at2] /\ \A y \in at2 : \E x \in at1 : h[x] = y
      /\ \A p, q \in at1 : p < q => h[p] < h[q]
      /\ \A p \in at1 : s1[p] = s2[h[p]]
  BY DEF Aligned
<1>1. /\ Len(s1) \in Nat /\ at1 \in SUBSET (1 .. Len(s1))
      /\ Len(s2) \in Nat /\ at2 \in SUBSET (1 .. Len(s2))
  OBVIOUS
<1>2. \A p \in at1 : p \in Int /\ h[p] \in at2 /\ h[p] \in Int
  BY <1>0, <1>1
<1>3. \A p, q \in at1 : h[p] = h[q] => p = q
  BY <1>0, <1>2
<1>4. \A p, q \in at1 : q <= p <=> h[q] <= h[p]
  BY <1>0, <1>2
<1>5. IsFiniteSet(at1)
  BY <1>1, NthOf
<1>6. Cardinality(at2) = Cardinality(at1)
  BY <1>0, <1>3, <1>5, SameSize
<1>7. ASSUME NEW p \in at1
      PROVE  Cardinality(UpToPos(at2, h[p])) = Cardinality(UpToPos(at1, p))
  <2> DEFINE X == UpToPos(at1, p)
             Y == UpToPos(at2, h[p])
             g == [q \in X |-> h[q]]
  <2>1. X \in SUBSET at1 /\ \A q \in X : h[q] \in Y
    BY <1>2, <1>4 DEF UpToPos
  <2>2. \A y \in Y : \E q \in X : h[q] = y
    BY <1>0, <1>2, <1>4 DEF UpToPos
  <2>3. IsFiniteSet(X)
    BY <2>1, <1>5, FS_Subset
  <2> HIDE DEF X, Y
  <2>4. g \in [X -> Y] /\ (\A x, z \in X : g[x] = g[z] => x = z) /\ \A y \in Y : \E x \in X : g[x] = y
    BY <2>1, <2>2, <1>3
  <2> HIDE DEF g
  <2> QED BY <2>3, <2>4, SameSize DEF X, Y
<1>8. ASSUME NEW i \in 1 .. Cardinality(at1)
      PROVE  s2[Nth(at2, i)] = s1[Nth(at1, i)]
  <2>1. Nth(at1, i) \in at1 /\ Cardinality(UpToPos(at1, Nth(at1, i))) = i
    BY <1>1, NthOf
  <2>2. h[Nth(at1, i)] \in at2 /\ Cardinality(UpToPos(at2, h[Nth(at1, i)])) = i
    BY <1>2, <1>7, <2>1
  <2>3. Nth(at2, i) = h[Nth(at1, i)]
    BY <1>1, <2>2, NthOf
  <2> QED BY <1>0, <2>1, <2>3
<1>9. /\ Picked(s1, at1) = [i \in 1 .. Cardinality(at1) |-> s1[Nth(at1, i)]]
      /\ Picked(s2, at2) = [i \in 1 .. Cardinality(at2) |-> s2[Nth(at2, i)]]
  BY DEF Picked, Nth, UpToPos
<1> QED BY <1>6, <1>8, <1>9

-----------------------------------------------------------------------------
(* The values of a field.                                                  *)

WithValue(fields, name, W) == {i \in Named(fields, name) : fields[i].value \in W}

LEMMA ValuesAt ==
  ASSUME NEW fields \in Seq(Field), NEW name
  PROVE  /\ Named(fields, name) \in SUBSET (1 .. Len(fields)) /\ Len(fields) \in Nat
         /\ DOMAIN FieldValues(fields, name) = 1 .. Cardinality(Named(fields, name))
         /\ Len(FieldValues(fields, name)) = Cardinality(Named(fields, name))
         /\ Cardinality(Named(fields, name)) \in Nat
         /\ \A i \in 1 .. Cardinality(Named(fields, name)) :
              /\ Nth(Named(fields, name), i) \in Named(fields, name)
              /\ FieldValues(fields, name)[i] = fields[Nth(Named(fields, name), i)].value
<1> DEFINE at == Named(fields, name)
           named == Picked(fields, at)
<1>1. at \in SUBSET DOMAIN fields /\ at \in SUBSET (1 .. Len(fields)) /\ Len(fields) \in Nat
  BY DEF Named
<1> HIDE DEF at
<1>2. /\ named \in Seq(Field) /\ Len(named) = Cardinality(at) /\ Cardinality(at) \in Nat
      /\ \A i \in 1 .. Cardinality(at) : Nth(at, i) \in at /\ named[i] = fields[Nth(at, i)]
  BY <1>1, PickedOf
<1>3. FieldValues(fields, name) = [i \in DOMAIN named |-> named[i].value]
  BY DEF FieldValues, at
<1> HIDE DEF named
<1>4. DOMAIN named = 1 .. Cardinality(at)
  BY <1>2
<1>5. FieldValues(fields, name) \in Seq(Text)
  BY FieldValuesText
<1>6. DOMAIN FieldValues(fields, name) = 1 .. Cardinality(at)
  BY <1>3, <1>4
<1>7. Len(FieldValues(fields, name)) = Cardinality(at)
  BY <1>2, <1>5, <1>6
<1>8. \A i \in 1 .. Cardinality(at) : FieldValues(fields, name)[i] = fields[Nth(at, i)].value
  BY <1>2, <1>3, <1>4
<1> QED BY <1>1, <1>2, <1>6, <1>7, <1>8 DEF at

\* The values of a field in a set are those of its occurrences.
LEMMA ValuesCounted ==
  ASSUME NEW fields \in Seq(Field), NEW name, NEW W
  PROVE  Cardinality(Among(FieldValues(fields, name), W)) = Cardinality(WithValue(fields, name, W))
<1> DEFINE at == Named(fields, name)
           values == FieldValues(fields, name)
           X == Among(values, W)
           Y == WithValue(fields, name, W)
           h == [i \in X |-> Nth(at, i)]
<1>1. /\ at \in SUBSET (1 .. Len(fields)) /\ Len(fields) \in Nat
      /\ DOMAIN values = 1 .. Cardinality(at) /\ Cardinality(at) \in Nat
      /\ \A i \in 1 .. Cardinality(at) : Nth(at, i) \in at /\ values[i] = fields[Nth(at, i)].value
  BY ValuesAt
<1>2. X \in SUBSET (1 .. Cardinality(at)) /\ Y \in SUBSET at
  BY <1>1 DEF Among, WithValue
<1>3. IsFiniteSet(X)
  BY <1>1, <1>2, Positions
<1>4. \A i \in X : Nth(at, i) \in Y
  BY <1>1, <1>2 DEF Among, WithValue
<1>5. \A p \in Y : \E i \in X : Nth(at, i) = p
  <2>1. ASSUME NEW p \in Y PROVE \E i \in X : Nth(at, i) = p
    <3> DEFINE i == Cardinality(UpToPos(at, p))
    <3>1. p \in at /\ fields[p].value \in W
      BY <2>1 DEF WithValue
    <3> HIDE DEF at, i
    <3>2. i \in 1 .. Cardinality(at) /\ Nth(at, i) = p
      BY <1>1, <3>1, NthOf DEF i
    <3>3. i \in X
      BY <1>1, <3>1, <3>2 DEF Among
    <3> QED BY <3>2, <3>3
  <2> QED BY <2>1
<1>6. \A i, j \in X : Nth(at, i) = Nth(at, j) => i = j
  <2> HIDE DEF X, at
  <2>1. \A i \in X : Cardinality(UpToPos(at, Nth(at, i))) = i
    BY <1>1, <1>2, NthOf
  <2> QED BY <2>1
<1> HIDE DEF X, Y, at
<1>7. h \in [X -> Y] /\ (\A x, z \in X : h[x] = h[z] => x = z) /\ \A y \in Y : \E x \in X : h[x] = y
  BY <1>4, <1>5, <1>6
<1> HIDE DEF h
<1>8. Cardinality(Y) = Cardinality(X)
  BY <1>3, <1>7, SameSize
<1> QED BY <1>8 DEF X, Y

\* Fields of other names are those at the same places, if only others are changed.
LEMMA OthersKept ==
  ASSUME NEW before \in Seq(Field), NEW after \in Seq(Field), NEW name, Len(before) <= Len(after),
         \A i \in 1 .. Len(before) : before[i].name # name => after[i] = before[i],
         \A i \in 1 .. Len(before) : before[i].name = name => after[i].name = name,
         \A i \in Len(before) + 1 .. Len(after) : after[i].name = name
  PROVE  Others(after, name) = Others(before, name)
<1> DEFINE at1 == DOMAIN after \ Named(after, name)
           at2 == DOMAIN before \ Named(before, name)
           h == [p \in at1 |-> p]
<1>0. /\ DOMAIN after = 1 .. Len(after) /\ DOMAIN before = 1 .. Len(before)
      /\ Len(before) \in Nat /\ Len(after) \in Nat
  OBVIOUS
<1>1. at1 = {i \in 1 .. Len(after) : after[i].name # name} /\ at2 = {i \in 1 .. Len(before) : before[i].name # name}
  BY <1>0 DEF Named
<1>2. at1 = at2
  <2>1. \A i \in 1 .. Len(after) : i \in 1 .. Len(before) \/ i \in Len(before) + 1 .. Len(after)
    BY <1>0
  <2>2. \A i \in 1 .. Len(before) : i \in 1 .. Len(after)
    BY <1>0
  <2> QED BY <1>1, <2>1, <2>2, Zenon
<1>3. \A p \in at1 : after[p] = before[p]
  BY <1>1, <1>2
<1>4. at1 \in SUBSET DOMAIN after /\ at2 \in SUBSET DOMAIN before
  OBVIOUS
<1> HIDE DEF at1, at2
<1>5. Aligned(h, after, at1, before, at2)
  BY <1>2, <1>3 DEF Aligned
<1> HIDE DEF h
<1>6. Picked(after, at1) = Picked(before, at2)
  BY <1>4, <1>5, SamePicked
<1> QED BY <1>6 DEF Others, at1, at2

\* KeepOnly keeps the values at some places, and all other fields.
LEMMA KeptOnly ==
  ASSUME NEW fields \in Seq(Field), NEW name, NEW kept
  PROVE  /\ Others(KeepOnly(fields, name, kept), name) = Others(fields, name)
         /\ kept \in SUBSET (1 .. Len(FieldValues(fields, name))) =>
              \A W : Cardinality(WithValue(KeepOnly(fields, name, kept), name, W)) =
                       Cardinality({k \in kept : FieldValues(fields, name)[k] \in W})
<1> DEFINE N == Named(fields, name)
           A == {i \in DOMAIN fields : fields[i].name # name \/ Cardinality(UpToPos(N, i)) \in kept}
           after == KeepOnly(fields, name, kept)
           values == FieldValues(fields, name)
<1>1. /\ N \in SUBSET (1 .. Len(fields)) /\ Len(fields) \in Nat
      /\ \A i \in 1 .. Len(fields) : i \in N <=> fields[i].name = name
      /\ Len(values) = Cardinality(N)
      /\ \A i \in 1 .. Cardinality(N) : Nth(N, i) \in N /\ values[i] = fields[Nth(N, i)].value
  <2>1. \A i \in 1 .. Len(fields) : i \in N <=> fields[i].name = name
    BY DEF Named
  <2> QED BY <2>1, ValuesAt
<1>2. \A p \in N : Cardinality(UpToPos(N, p)) \in 1 .. Cardinality(N) /\ Nth(N, Cardinality(UpToPos(N, p))) = p
  <2> HIDE DEF N
  <2> QED BY <1>1, NthOf
<1>3. \A k \in 1 .. Cardinality(N) : Nth(N, k) \in N /\ Cardinality(UpToPos(N, Nth(N, k))) = k
  <2> HIDE DEF N
  <2> QED BY <1>1, NthOf
<1>4. A \in SUBSET DOMAIN fields /\ A \in SUBSET (1 .. Len(fields))
  OBVIOUS
<1>5. \A i \in 1 .. Len(fields) : i \in A <=> fields[i].name # name \/ Cardinality(UpToPos(N, i)) \in kept
  OBVIOUS
<1>6. after = Picked(fields, A)
  BY DEF KeepOnly, UpToPos
<1> HIDE DEF N, A, after, values
<1>7. /\ after \in Seq(Field) /\ Len(after) = Cardinality(A) /\ Cardinality(A) \in Nat
      /\ \A j \in 1 .. Cardinality(A) : Nth(A, j) \in A /\ after[j] = fields[Nth(A, j)]
  BY <1>4, <1>6, PickedOf
<1>8. \A i, j \in 1 .. Cardinality(A) : i < j => Nth(A, i) < Nth(A, j)
  BY <1>1, <1>4, NthGrows
<1>9. \A p \in A : Cardinality(UpToPos(A, p)) \in 1 .. Cardinality(A) /\ Nth(A, Cardinality(UpToPos(A, p))) = p
  BY <1>1, <1>4, NthOf
<1>10. \A j \in 1 .. Cardinality(A) : Cardinality(UpToPos(A, Nth(A, j))) = j
  BY <1>1, <1>4, NthOf
<1>11. Others(after, name) = Others(fields, name)
  <2> DEFINE at1 == DOMAIN after \ Named(after, name)
             at2 == DOMAIN fields \ Named(fields, name)
             h == [j \in at1 |-> Nth(A, j)]
  <2>1. at1 = {j \in 1 .. Cardinality(A) : after[j].name # name}
    BY <1>7 DEF Named
  <2>2. at2 = {i \in 1 .. Len(fields) : fields[i].name # name}
    BY DEF Named
  <2>3. at1 \in SUBSET DOMAIN after /\ at2 \in SUBSET DOMAIN fields
    OBVIOUS
  <2> HIDE DEF at1, at2
  <2>4. \A j \in at1 : Nth(A, j) \in at2
    BY <1>4, <1>7, <2>1, <2>2
  <2>5. ASSUME NEW p \in at2 PROVE \E j \in at1 : Nth(A, j) = p
    <3>1. p \in A /\ fields[p].name # name
      BY <1>5, <2>2
    <3>2. PICK j \in 1 .. Cardinality(A) : Nth(A, j) = p
      BY <1>9, <3>1
    <3>3. j \in at1
      BY <1>7, <2>1, <3>1, <3>2
    <3> QED BY <3>2, <3>3
  <2>6. \A i, j \in at1 : i < j => Nth(A, i) < Nth(A, j)
    BY <1>8, <2>1
  <2>7. \A j \in at1 : after[j] = fields[Nth(A, j)]
    BY <1>7, <2>1
  <2>8. Aligned(h, after, at1, fields, at2)
    BY <2>4, <2>5, <2>6, <2>7 DEF Aligned
  <2> HIDE DEF h
  <2>9. Picked(after, at1) = Picked(fields, at2)
    BY <1>7, <2>3, <2>8, SamePicked
  <2> QED BY <2>9 DEF Others, at1, at2
<1>12. ASSUME kept \in SUBSET (1 .. Len(values)), NEW W
       PROVE  Cardinality(WithValue(after, name, W)) = Cardinality({k \in kept : values[k] \in W})
  <2> DEFINE X == {k \in kept : values[k] \in W}
             Y == WithValue(after, name, W)
             place(k) == Cardinality(UpToPos(A, Nth(N, k)))
             h == [k \in X |-> place(k)]
  <2>1. \A k \in X : k \in kept /\ k \in 1 .. Cardinality(N) /\ values[k] \in W
    BY <1>1, <1>12
  <2>2. \A j : j \in Y <=> j \in 1 .. Cardinality(A) /\ after[j].name = name /\ after[j].value \in W
    BY <1>7 DEF WithValue, Named
  <2>3. IsFiniteSet(X)
    <3>1. X \in SUBSET (1 .. Cardinality(N)) /\ Cardinality(N) \in Nat
      BY <1>1, <2>1, NthOf
    <3> QED BY <3>1, Positions
  <2> HIDE DEF X, Y
  <2>4. ASSUME NEW k \in X
        PROVE  /\ Nth(N, k) \in A /\ Nth(N, k) \in N /\ place(k) \in 1 .. Cardinality(A)
               /\ Nth(A, place(k)) = Nth(N, k) /\ place(k) \in Y
    <3>1. Nth(N, k) \in N /\ Cardinality(UpToPos(N, Nth(N, k))) = k
      BY <1>3, <2>1
    <3>2. Nth(N, k) \in A
      BY <1>1, <1>5, <2>1, <3>1
    <3>3. place(k) \in 1 .. Cardinality(A) /\ Nth(A, place(k)) = Nth(N, k)
      BY <1>9, <3>2
    <3> HIDE DEF place
    <3>4. after[place(k)] = fields[Nth(N, k)]
      BY <1>7, <3>3
    <3>5. fields[Nth(N, k)].name = name /\ fields[Nth(N, k)].value \in W
      BY <1>1, <2>1, <3>1
    <3>6. place(k) \in Y
      BY <2>2, <3>3, <3>4, <3>5
    <3> QED BY <3>1, <3>2, <3>3, <3>6
  <2>5. ASSUME NEW j \in Y PROVE \E k \in X : place(k) = j
    <3>1. j \in 1 .. Cardinality(A) /\ after[j].name = name /\ after[j].value \in W
      BY <2>2
    <3>2. Nth(A, j) \in A /\ fields[Nth(A, j)].name = name /\ fields[Nth(A, j)].value \in W
      BY <1>7, <3>1
    <3>3. Nth(A, j) \in N /\ Cardinality(UpToPos(N, Nth(A, j))) \in kept
      BY <1>1, <1>4, <1>5, <3>2
    <3>4. PICK k \in kept : k = Cardinality(UpToPos(N, Nth(A, j)))
      BY <3>3
    <3>5. k \in 1 .. Cardinality(N) /\ Nth(N, k) = Nth(A, j)
      BY <1>2, <3>3, <3>4
    <3>6. k \in X
      BY <1>1, <3>2, <3>4, <3>5 DEF X
    <3>7. place(k) = j
      BY <1>10, <3>1, <3>5
    <3> QED BY <3>6, <3>7
  <2>6. ASSUME NEW k \in X, NEW l \in X, place(k) = place(l) PROVE k = l
    <3>1. Nth(N, k) = Nth(N, l)
      BY <2>4, <2>6
    <3> QED BY <1>3, <2>1, <3>1
  <2> HIDE DEF place
  <2>7. h \in [X -> Y] /\ (\A x, z \in X : h[x] = h[z] => x = z) /\ \A y \in Y : \E x \in X : h[x] = y
    BY <2>4, <2>5, <2>6
  <2> HIDE DEF h
  <2>8. Cardinality(Y) = Cardinality(X)
    BY <2>3, <2>7, SameSize
  <2> QED BY <2>8 DEF X, Y
<1> QED BY <1>11, <1>12 DEF after, values

\* AddAll adds values, and leaves what is there.
LEMMA AddedAll ==
  ASSUME NEW fields \in Seq(Field), NEW name \in Token, NEW texts \in Seq(Text)
  PROVE  /\ Others(AddAll(fields, name, texts), name) = Others(fields, name)
         /\ \A W : Cardinality(WithValue(AddAll(fields, name, texts), name, W)) =
                     Cardinality(WithValue(fields, name, W)) + Cardinality(Among(texts, W))
<1> DEFINE n == Len(fields)
           m == Len(texts)
           new == [i \in DOMAIN texts |-> [name |-> name, value |-> texts[i]]]
           after == AddAll(fields, name, texts)
<1>1. n \in Nat /\ m \in Nat /\ DOMAIN texts = 1 .. m /\ DOMAIN fields = 1 .. n
  OBVIOUS
<1>2. new \in Seq(Field) /\ Len(new) = m /\ \A i \in 1 .. m : new[i].name = name /\ new[i].value = texts[i]
  <2>1. \A i \in DOMAIN texts : [name |-> name, value |-> texts[i]] \in Field
    BY DEF Field
  <2> QED BY <1>1, <2>1
<1>3. after \in Seq(Field)
  BY AddAllType
<1>4. /\ Len(after) = n + m
      /\ \A i \in 1 .. n + m : after[i] = IF i <= n THEN fields[i] ELSE new[i - n]
  <2>1. after = fields \o new
    BY DEF AddAll
  <2>0. new \in Seq(Field)
    BY <1>2
  <2> HIDE DEF new, after
  <2>2. /\ Len(fields \o new) = Len(fields) + Len(new)
        /\ \A i \in 1 .. Len(fields) + Len(new) :
             (fields \o new)[i] = IF i <= Len(fields) THEN fields[i] ELSE new[i - Len(fields)]
    BY <2>0, ConcatProperties
  <2> QED BY <1>2, <2>1, <2>2
<1> HIDE DEF new
<1> HIDE DEF after, n, m
<1>5. \A i \in 1 .. n : after[i] = fields[i]
  BY <1>1, <1>4
<1>6. ASSUME NEW i \in n + 1 .. n + m
      PROVE  i - n \in 1 .. m /\ after[i].name = name /\ after[i].value = texts[i - n]
  <2>1. i - n \in 1 .. m /\ i \in 1 .. n + m /\ ~ (i <= n)
    BY <1>1
  <2> QED BY <1>2, <1>4, <2>1
<1>7. Others(after, name) = Others(fields, name)
  <2>1. Len(fields) <= Len(after) /\ Len(fields) = n
    BY <1>1, <1>4 DEF n
  <2> QED BY <1>3, <1>4, <1>5, <1>6, <2>1, OthersKept
<1>8. ASSUME NEW W
      PROVE  Cardinality(WithValue(after, name, W)) =
               Cardinality(WithValue(fields, name, W)) + Cardinality(Among(texts, W))
  <2> DEFINE Old == WithValue(fields, name, W)
             Added == {i \in n + 1 .. n + m : texts[i - n] \in W}
             X == Among(texts, W)
             h == [i \in X |-> n + i]
  <2>1. /\ \A i : i \in Old <=> i \in 1 .. n /\ fields[i].name = name /\ fields[i].value \in W
        /\ \A i : i \in X <=> i \in 1 .. m /\ texts[i] \in W
    BY <1>1 DEF WithValue, Named, Among
  <2>2. WithValue(after, name, W) = Old \union Added
    <3>1. DOMAIN after = 1 .. n + m
      BY <1>1, <1>3, <1>4
    <3>2. \A i : i \in WithValue(after, name, W) <=>
                   i \in 1 .. n + m /\ after[i].name = name /\ after[i].value \in W
      BY <3>1 DEF WithValue, Named
    <3>3. \A i : i \in 1 .. n + m <=> i \in 1 .. n \/ i \in n + 1 .. n + m
      BY <1>1
    <3>4. \A i : i \in Added <=> i \in n + 1 .. n + m /\ texts[i - n] \in W
      OBVIOUS
    <3> HIDE DEF Added, Old
    <3> QED BY <1>5, <1>6, <2>1, <3>2, <3>3, <3>4
  <2>3. Old \intersect Added = {}
    <3>1. \A i \in 1 .. n : i \notin n + 1 .. n + m
      BY <1>1
    <3> QED BY <2>1, <3>1
  <2>4. IsFiniteSet(Old) /\ Cardinality(Old) \in Nat /\ IsFiniteSet(X) /\ Cardinality(X) \in Nat
    <3>1. Old \in SUBSET (1 .. n) /\ X \in SUBSET (1 .. m)
      BY <2>1
    <3> QED BY <1>1, <3>1, Positions
  <2>5. IsFiniteSet(Added) /\ Cardinality(Added) = Cardinality(X)
    <3>1. \A i \in X : n + i \in Added
      BY <1>1, <2>1
    <3>2. ASSUME NEW y \in Added PROVE \E i \in X : n + i = y
      <4>1. y - n \in 1 .. m /\ texts[y - n] \in W /\ n + (y - n) = y
        BY <1>1
      <4>2. y - n \in X
        BY <2>1, <4>1
      <4> QED BY <4>1, <4>2
    <3>3. \A i, j \in X : n + i = n + j => i = j
      BY <1>1, <2>1
    <3> HIDE DEF X, Added
    <3>4. h \in [X -> Added] /\ (\A x, z \in X : h[x] = h[z] => x = z) /\ \A y \in Added : \E x \in X : h[x] = y
      BY <3>1, <3>2, <3>3
    <3> HIDE DEF h
    <3> QED BY <2>4, <3>4, SameSize
  <2> HIDE DEF Old, Added, X
  <2>6. Cardinality(Old \union Added) = Cardinality(Old) + Cardinality(Added) - Cardinality(Old \intersect Added)
    BY <2>4, <2>5, FS_Union
  <2>7. Cardinality(Old \intersect Added) = 0
    BY <2>3, FS_EmptySet
  <2>8. Cardinality(WithValue(after, name, W)) = Cardinality(Old) + Cardinality(X)
    BY <2>2, <2>4, <2>5, <2>6, <2>7
  <2> QED BY <2>8 DEF Old, X
<1> QED BY <1>7, <1>8 DEF after

\* field_obtain leaves a field that occurs at most once with the one value.
LEMMA ObtainedOne ==
  ASSUME NEW fields \in Seq(Field), NEW name \in Token, NEW text \in Text, Len(FieldValues(fields, name)) <= 1
  PROVE  /\ Others(field_obtain(fields, name, text), name) = Others(fields, name)
         /\ \A W : Cardinality(WithValue(field_obtain(fields, name, text), name, W)) =
                     Cardinality(Among(<<text>>, W))
<1> DEFINE n == Len(fields)
           N == Named(fields, name)
           after == field_obtain(fields, name, text)
<1>1. n \in Nat /\ DOMAIN fields = 1 .. n /\ after \in Seq(Field)
  BY FieldObtained
<1>2. \E i \in 1 .. n + 1 :
        /\ after[i].name = name /\ after[i].value = text /\ Len(after) \in {n, n + 1} /\ i <= Len(after)
        /\ \A j \in 1 .. n : j # i => fields[j].name # name /\ after[j] = fields[j]
        /\ i <= n => Len(after) = n /\ fields[i].name = name
        /\ i > n => Len(after) = n + 1
  <2>1. CASE HasField(fields, name)
    <3> DEFINE i == FirstField(fields, name)
    <3>1. i \in 1 .. n /\ fields[i].name = name /\ fields[i] \in Field
      BY <2>1, FieldOf
    <3>2. after = [fields EXCEPT ![i] = [fields[i] EXCEPT !.value = text]]
      BY <2>1 DEF field_obtain, assign
    <3> HIDE DEF i
    <3>3. [fields[i] EXCEPT !.value = text] = [name |-> name, value |-> text]
      BY <3>1 DEF Field
    <3>4. after[i].name = name /\ after[i].value = text
      BY <3>1, <3>2, <3>3
    <3>5. Len(after) = n /\ \A j \in 1 .. n : j # i => after[j] = fields[j]
      BY <1>1, <3>1, <3>2
    <3>6. ASSUME NEW j \in 1 .. n, j # i PROVE fields[j].name # name
      <4>1. i \in N /\ N \in SUBSET (1 .. n) /\ Cardinality(N) <= 1
        BY <3>1, ValuesAt DEF Named
      <4>2. IsFiniteSet(N) /\ Cardinality(N) \in Nat /\ Cardinality(N) # 0
        BY <1>1, <4>1, Positions, FS_EmptySet
      <4>3. Cardinality(N) = 1
        BY <4>1, <4>2
      <4>4. \E x : N = {x}
        BY <4>2, <4>3, FS_Singleton
      <4>5. j \notin N
        BY <3>6, <4>1, <4>4
      <4> QED BY <1>1, <4>5 DEF Named
    <3>7. i \in 1 .. n + 1 /\ i <= n /\ ~ (i > n)
      BY <1>1, <3>1
    <3> HIDE DEF n, after
    <3> QED BY <3>1, <3>4, <3>5, <3>6, <3>7
  <2>2. CASE ~ HasField(fields, name)
    <3>1. after = Append(fields, [name |-> name, value |-> text]) /\ [name |-> name, value |-> text] \in Field
      BY <2>2 DEF field_obtain, field_create, Field
    <3>2. Len(after) = n + 1 /\ after[n + 1] = [name |-> name, value |-> text] /\ \A j \in 1 .. n : after[j] = fields[j]
      BY <3>1, AppendProperties
    <3>3. \A j \in 1 .. n : fields[j].name # name
      BY <2>2 DEF HasField, Named
    <3>4. n + 1 \in 1 .. n + 1 /\ n + 1 > n /\ ~ (n + 1 <= n) /\ n + 1 <= n + 1
      BY <1>1
    <3>5. after[n + 1].name = name /\ after[n + 1].value = text
      BY <3>2
    <3> HIDE DEF n, after
    <3> QED BY <3>2, <3>3, <3>4, <3>5
  <2> QED BY <2>1, <2>2
<1> HIDE DEF after
<1>3. PICK i \in 1 .. n + 1 :
        /\ after[i].name = name /\ after[i].value = text /\ Len(after) \in {n, n + 1} /\ i <= Len(after)
        /\ \A j \in 1 .. n : j # i => fields[j].name # name /\ after[j] = fields[j]
        /\ i <= n => Len(after) = n /\ fields[i].name = name
        /\ i > n => Len(after) = n + 1
  BY <1>2
<1>4. \A j \in 1 .. Len(after) : j \in 1 .. n \/ j = i
  BY <1>1, <1>3
<1>5. Others(after, name) = Others(fields, name)
  <2>1. Len(fields) <= Len(after)
    BY <1>1, <1>3
  <2>2. \A j \in 1 .. Len(fields) : fields[j].name # name => after[j] = fields[j]
    <3>1. ASSUME NEW j \in 1 .. n, j = i PROVE fields[j].name = name
      BY <1>1, <1>3, <3>1
    <3> QED BY <1>3, <3>1
  <2>3. \A j \in 1 .. Len(fields) : fields[j].name = name => after[j].name = name
    BY <1>3
  <2>4. \A j \in Len(fields) + 1 .. Len(after) : after[j].name = name
    <3>1. ASSUME NEW j \in n + 1 .. Len(after) PROVE j = i
      BY <1>1, <1>3
    <3> QED BY <1>3, <3>1
  <2> QED BY <1>1, <2>1, <2>2, <2>3, <2>4, OthersKept
<1>6. ASSUME NEW W
      PROVE  Cardinality(WithValue(after, name, W)) = Cardinality(Among(<<text>>, W))
  <2>1. \A j : j \in WithValue(after, name, W) <=> j \in 1 .. Len(after) /\ after[j].name = name /\ after[j].value \in W
    BY <1>1 DEF WithValue, Named
  <2>2. \A j \in 1 .. Len(after) : after[j].name = name => j = i
    BY <1>3, <1>4
  <2>3. i \in 1 .. Len(after)
    BY <1>1, <1>3
  <2>4. \A j : j \in Among(<<text>>, W) <=> j = 1 /\ text \in W
    BY DEF Among
  <2>5. CASE text \in W
    <3>1. \A j : j \in WithValue(after, name, W) <=> j = i
      BY <1>3, <2>1, <2>2, <2>3, <2>5
    <3>2. WithValue(after, name, W) = {i} /\ Among(<<text>>, W) = {1}
      BY <2>4, <2>5, <3>1
    <3> QED BY <3>2, FS_Singleton
  <2>6. CASE text \notin W
    <3>1. WithValue(after, name, W) = {} /\ Among(<<text>>, W) = {}
      BY <1>3, <2>1, <2>2, <2>4, <2>6
    <3> QED BY <3>1
  <2> QED BY <2>5, <2>6
<1> QED BY <1>5, <1>6 DEF after

-----------------------------------------------------------------------------
(* The values that are given, against the duplicates there are.            *)

Kept(values, match, W) == {k \in match.kept : values[k] \in W}
New(match, W) == Among(match.new, W)
One(text, W) == IF text \in W THEN 1 ELSE 0

\* Y is X with one more if the text is in the set.
Joins(Y, X, x, text, W) ==
  x \notin X /\ (text \in W => Y = X \union {x}) /\ (text \notin W => Y = X)

LEMMA OneMore ==
  ASSUME NEW X, NEW Y, NEW x, NEW text, NEW W, IsFiniteSet(X), Joins(Y, X, x, text, W)
  PROVE  IsFiniteSet(Y) /\ Cardinality(Y) = Cardinality(X) + One(text, W) /\ Cardinality(X) \in Nat
<1>1. Cardinality(X) \in Nat
  BY FS_CardinalityType
<1>2. CASE text \in W
  BY <1>1, <1>2, FS_AddElement DEF One, Joins
<1>3. CASE text \notin W
  BY <1>1, <1>3 DEF One, Joins
<1> QED BY <1>1, <1>2, <1>3

LEMMA MatchParts ==
  ASSUME NEW values \in Seq(Text), NEW m \in MatchType(values), NEW W
  PROVE  /\ m.at \in 1 .. Len(values) + 1 /\ m.kept \in SUBSET (1 .. Len(values)) /\ m.new \in Seq(Text)
         /\ Len(values) \in Nat
         /\ IsFiniteSet(Kept(values, m, W)) /\ Cardinality(Kept(values, m, W)) \in Nat
         /\ IsFiniteSet(New(m, W)) /\ Cardinality(New(m, W)) \in Nat
<1>1. /\ m.at \in 1 .. Len(values) + 1 /\ m.kept \in SUBSET (1 .. Len(values)) /\ m.new \in Seq(Text)
      /\ Len(values) \in Nat
  BY DEF MatchType
<1>2. Kept(values, m, W) \in SUBSET (1 .. Len(values)) /\ New(m, W) \in SUBSET (1 .. Len(m.new)) /\ Len(m.new) \in Nat
  BY <1>1 DEF Among, Kept, New
<1> QED BY <1>1, <1>2, Positions

\* One value is matched: it is kept or new, and what was is left as it was.
LEMMA MatchStep ==
  ASSUME NEW values \in Seq(Text), NEW m \in MatchType(values), NEW text \in Text, NEW W,
         \A i \in m.kept : i < m.at
  PROVE  LET next == MatchDup(values, m, text)
         IN /\ next \in MatchType(values)
            /\ \A i \in next.kept : i < next.at
            /\ Cardinality(Kept(values, next, W)) + Cardinality(New(next, W)) =
                 Cardinality(Kept(values, m, W)) + Cardinality(New(m, W)) + One(text, W)
<1> DEFINE next == MatchDup(values, m, text)
<1>1. /\ next \in MatchType(values)
      /\ \/ next.kept = m.kept /\ next.new = Append(m.new, text) /\ next.at = Len(values) + 1
         \/ \E i \in m.at .. Len(values) :
              values[i] = text /\ next.kept = m.kept \union {i} /\ next.new = m.new /\ next.at = i + 1
  <2>1. next \in MatchType(values)
    BY MatchDupType
  <2>2. \/ next.kept = m.kept /\ next.new = Append(m.new, text) /\ next.at = Len(values) + 1
        \/ \E i \in m.at .. Len(values) :
             values[i] = text /\ next.kept = m.kept \union {i} /\ next.new = m.new /\ next.at = i + 1
    <3>1. \/ /\ \A k \in m.at .. Len(values) : values[k] # text
             /\ next.kept = m.kept
             /\ next.new = Append(m.new, text)
             /\ next.at = Len(values) + 1
          \/ \E k \in m.at .. Len(values) :
               /\ values[k] = text
               /\ next.kept = m.kept \union {k}
               /\ next.new = m.new
               /\ next.at = k + 1
      BY MatchDupType
    <3> HIDE DEF next
    <3> QED BY <3>1, Zenon
  <2> QED BY <2>1, <2>2
<1> HIDE DEF next
<1>2. /\ m.at \in 1 .. Len(values) + 1 /\ m.kept \in SUBSET (1 .. Len(values)) /\ m.new \in Seq(Text)
      /\ Len(values) \in Nat
      /\ IsFiniteSet(Kept(values, m, W)) /\ Cardinality(Kept(values, m, W)) \in Nat
      /\ IsFiniteSet(New(m, W)) /\ Cardinality(New(m, W)) \in Nat
  BY MatchParts
<1>3. One(text, W) \in Nat
  BY DEF One
<1>4. CASE next.kept = m.kept /\ next.new = Append(m.new, text) /\ next.at = Len(values) + 1
  <2>1. \A i \in next.kept : i < next.at
    <3>1. \A i \in m.kept : i \in 1 .. Len(values)
      BY <1>2
    <3>2. \A i \in 1 .. Len(values) : i < Len(values) + 1
      BY <1>2
    <3> QED BY <1>4, <3>1, <3>2
  <2>2. Kept(values, next, W) = Kept(values, m, W)
    BY <1>4 DEF Kept
  <2> DEFINE l == Len(m.new)
             more == Append(m.new, text)
  <2>3. /\ Len(more) = l + 1 /\ more \in Seq(Text) /\ l \in Nat
        /\ \A i \in 1 .. l : more[i] = m.new[i]
        /\ more[l + 1] = text
    BY <1>2, AppendProperties
  <2>4. DOMAIN m.new = 1 .. l /\ DOMAIN more = 1 .. l + 1
    BY <1>2, <2>3
  <2> HIDE DEF l, more
  <2>5. l + 1 \notin 1 .. l /\ \A i : i \in 1 .. l + 1 <=> i \in 1 .. l \/ i = l + 1
    BY <2>3
  <2>6. Joins(Among(more, W), New(m, W), l + 1, text, W)
    BY <2>3, <2>4, <2>5 DEF Among, New, Joins
  <2>7. New(next, W) = Among(more, W)
    BY <1>4 DEF New, more
  <2>8. Cardinality(New(next, W)) = Cardinality(New(m, W)) + One(text, W)
    BY <1>2, <2>6, <2>7, OneMore
  <2> QED BY <1>1, <1>2, <1>3, <2>1, <2>2, <2>8 DEF next
<1>5. ASSUME NEW i \in m.at .. Len(values),
             values[i] = text /\ next.kept = m.kept \union {i} /\ next.new = m.new /\ next.at = i + 1
      PROVE  /\ \A j \in next.kept : j < next.at
             /\ Cardinality(Kept(values, next, W)) + Cardinality(New(next, W)) =
                  Cardinality(Kept(values, m, W)) + Cardinality(New(m, W)) + One(text, W)
  <2>1. i \in Int /\ m.at \in Int /\ m.at <= i /\ i < i + 1
    BY <1>2
  <2>2. \A j \in m.kept : j \in Int /\ j < i /\ j < i + 1
    <3>1. \A j \in m.kept : j \in Int /\ j < m.at
      BY <1>2
    <3>2. \A j \in Int : j < m.at => j < i /\ j < i + 1
      BY <2>1
    <3> QED BY <3>1, <3>2
  <2>3. \A j \in next.kept : j < next.at
    BY <1>5, <2>1, <2>2
  <2>4. i \notin m.kept
    BY <2>1, <2>2
  <2>5. Joins(Kept(values, next, W), Kept(values, m, W), i, text, W)
    BY <1>5, <2>4 DEF Kept, Joins
  <2>6. Cardinality(Kept(values, next, W)) = Cardinality(Kept(values, m, W)) + One(text, W)
    BY <1>2, <2>5, OneMore
  <2>7. New(next, W) = New(m, W)
    BY <1>5 DEF New
  <2> QED BY <1>2, <1>3, <2>3, <2>6, <2>7
<1> QED BY <1>1, <1>4, <1>5 DEF next

\* As often as a text is given it is kept or new.
LEMMA MatchCounts ==
  ASSUME NEW values \in Seq(Text), NEW texts \in Seq(Text), NEW W
  PROVE  Cardinality(Kept(values, MatchDups(values, texts), W)) + Cardinality(New(MatchDups(values, texts), W)) =
           Cardinality(Among(texts, W))
<1> DEFINE n == Len(texts)
           First(k) == {j \in 1 .. k : texts[j] \in W}
<1>1. n \in Nat /\ DOMAIN texts = 1 .. n /\ \A k \in 1 .. n : texts[k] \in Text
  OBVIOUS
<1>2. PICK after \in [0 .. n -> MatchType(values)] :
        /\ after[0] = NoMatch
        /\ \A i \in 1 .. n : after[i] = MatchDup(values, after[i - 1], texts[i])
        /\ MatchDups(values, texts) = after[n]
  BY MatchDupsSteps
<1>3. ASSUME NEW k \in 1 .. n
      PROVE  Cardinality(First(k)) = Cardinality(First(k - 1)) + One(texts[k], W)
  <2>1. k - 1 \in Nat /\ k \notin 1 .. k - 1 /\ \A j : j \in 1 .. k <=> j \in 1 .. k - 1 \/ j = k
    BY <1>1
  <2>2. First(k - 1) \in SUBSET (1 .. k - 1)
    OBVIOUS
  <2>3. IsFiniteSet(First(k - 1))
    BY <2>1, <2>2, Positions
  <2>4. Joins(First(k), First(k - 1), k, texts[k], W)
    BY <2>1 DEF Joins
  <2> HIDE DEF First
  <2> QED BY <2>3, <2>4, OneMore
<1>4. First(0) = {} /\ First(n) = Among(texts, W)
  BY <1>1 DEF Among
<1> HIDE DEF First, n
<1> DEFINE Good(m, k) == /\ \A i \in m.kept : i < m.at
                         /\ Cardinality(Kept(values, m, W)) + Cardinality(New(m, W)) = Cardinality(First(k))
           T == {k \in 0 .. n : Good(after[k], k)}
<1>5. 0 \in T
  <2>1. Kept(values, NoMatch, W) = {} /\ New(NoMatch, W) = {} /\ NoMatch.kept = {}
    BY DEF NoMatch, Among, Kept, New
  <2>2. Cardinality({}) = 0 /\ 0 + 0 = 0
    BY FS_EmptySet
  <2>3. \A i \in NoMatch.kept : i < NoMatch.at
    BY <2>1
  <2>4. Cardinality(Kept(values, NoMatch, W)) + Cardinality(New(NoMatch, W)) = Cardinality(First(0))
    BY <1>4, <2>1, <2>2
  <2>5. Good(NoMatch, 0)
    BY <2>3, <2>4
  <2> HIDE DEF Good
  <2> QED BY <1>1, <1>2, <2>5
<1>6. ASSUME NEW j \in 0 .. n - 1, j \in T PROVE j + 1 \in T
  <2>1. PICK k \in 1 .. n : k = j + 1
    BY <1>1
  <2>2. k - 1 = j /\ k \in 0 .. n /\ j \in 0 .. n
    BY <1>1, <2>1
  <2>3. PICK m \in MatchType(values) : m = after[j]
    BY <1>2, <2>2
  <2>4. after[k] = MatchDup(values, m, texts[k]) /\ texts[k] \in Text
    BY <1>1, <1>2, <2>2, <2>3
  <2>5. Good(m, j)
    <3> HIDE DEF Good
    <3> QED BY <1>6, <2>3
  <2> DEFINE next == MatchDup(values, m, texts[k])
  <2>6. /\ next \in MatchType(values)
        /\ \A i \in next.kept : i < next.at
        /\ Cardinality(Kept(values, next, W)) + Cardinality(New(next, W)) =
             Cardinality(Kept(values, m, W)) + Cardinality(New(m, W)) + One(texts[k], W)
    BY <2>4, <2>5, MatchStep
  <2> HIDE DEF next
  <2>7. Cardinality(Kept(values, next, W)) + Cardinality(New(next, W)) = Cardinality(First(k))
    BY <1>3, <2>2, <2>5, <2>6
  <2>8. Good(next, k)
    BY <2>6, <2>7
  <2> HIDE DEF Good
  <2> QED BY <2>1, <2>2, <2>4, <2>8 DEF next
<1>7. n \in T
  <2> HIDE DEF T
  <2>1. \A k \in 0 .. n : k \in T
    BY <1>1, <1>5, <1>6, UpTo
  <2> QED BY <1>1, <2>1
<1> QED BY <1>2, <1>4, <1>7

\* What is said of one field: how often each text is among its values, and the others.
Counts(before, after, name, wanted) ==
  /\ after \in Seq(Field)
  /\ Others(after, name) = Others(before, name)
  /\ \A W : Cardinality(WithValue(after, name, W)) = Cardinality(Among(wanted, W))

AsAsked(before, after, name, v) ==
  LET wanted == Wanted(v)
      values == FieldValues(after, name)
  IN /\ Len(values) = Len(wanted)
     /\ \A i \in DOMAIN wanted : Times(values, wanted[i]) = Times(wanted, wanted[i])
     /\ Others(after, name) = Others(before, name)

LEMMA ByCounts ==
  ASSUME NEW before, NEW after, NEW name, NEW v, Wanted(v) \in Seq(Text), Counts(before, after, name, Wanted(v))
  PROVE  AsAsked(before, after, name, v)
<1> DEFINE wanted == Wanted(v)
           values == FieldValues(after, name)
<1>1. after \in Seq(Field) /\ wanted \in Seq(Text) /\ Others(after, name) = Others(before, name)
  BY DEF Counts
<1>2. values \in Seq(Text)
  BY <1>1, FieldValuesText
<1>3. \A W : Cardinality(Among(values, W)) = Cardinality(Among(wanted, W))
  BY <1>1, ValuesCounted DEF Counts
<1>4. ASSUME NEW s \in Seq(Text) PROVE Cardinality(Among(s, Text)) = Len(s)
  <2>1. Among(s, Text) = 1 .. Len(s) /\ Len(s) \in Nat
    BY DEF Among
  <2>2. \A n \in Nat : Cardinality(1 .. n) = n
    <3>1. ASSUME NEW n \in Nat PROVE Cardinality(1 .. n) = n
      <4>1. Cardinality(1 .. n) = IF 1 > n THEN 0 ELSE n - 1 + 1
        BY FS_Interval
      <4> QED BY <4>1
    <3> QED BY <3>1
  <2> QED BY <2>1, <2>2
<1>5. \A s, t : Times(s, t) = Cardinality(Among(s, {t}))
  <2>1. \A s, t : {i \in DOMAIN s : s[i] = t} = Among(s, {t})
    BY DEF Among
  <2> QED BY <2>1 DEF Times
<1> HIDE DEF wanted, values
<1>6. Len(values) = Len(wanted)
  BY <1>1, <1>2, <1>3, <1>4
<1>7. \A t : Times(values, t) = Times(wanted, t)
  BY <1>3, <1>5
<1> QED BY <1>1, <1>6, <1>7 DEF AsAsked, wanted, values

LEMMA TupleGiven ==
  ASSUME NEW fields \in Seq(Field), NEW name \in Token, NEW texts \in Seq(Text)
  PROVE  LET match == MatchDups(FieldValues(fields, name), texts)
         IN Counts(fields, AddAll(KeepOnly(fields, name, match.kept), name, match.new), name, texts)
<1> DEFINE values == FieldValues(fields, name)
           match == MatchDups(values, texts)
           left == KeepOnly(fields, name, match.kept)
           after == AddAll(left, name, match.new)
<1>1. values \in Seq(Text)
  BY FieldValuesText
<1>2. match \in MatchType(values)
  BY <1>1, MatchDupsType
<1>3. \A W : Cardinality(Kept(values, match, W)) + Cardinality(New(match, W)) = Cardinality(Among(texts, W))
  BY <1>1, MatchCounts
<1> HIDE DEF match
<1>4. match.kept \in SUBSET (1 .. Len(values)) /\ match.new \in Seq(Text)
  BY <1>2 DEF MatchType
<1>5. /\ left \in Seq(Field) /\ Others(left, name) = Others(fields, name)
      /\ \A W : Cardinality(WithValue(left, name, W)) = Cardinality(Kept(values, match, W))
  <2>1. \A W : Kept(values, match, W) = {k \in match.kept : values[k] \in W}
    BY DEF Kept
  <2> QED BY <1>4, <2>1, KeptOnly, KeepOnlyType
<1> HIDE DEF left
<1>6. /\ after \in Seq(Field) /\ Others(after, name) = Others(left, name)
      /\ \A W : Cardinality(WithValue(after, name, W)) =
                  Cardinality(WithValue(left, name, W)) + Cardinality(Among(match.new, W))
  BY <1>4, <1>5, AddedAll, AddAllType
<1> HIDE DEF after
<1>7. \A W : Cardinality(WithValue(after, name, W)) = Cardinality(Among(texts, W))
  BY <1>3, <1>5, <1>6 DEF New
<1>8. Counts(fields, after, name, texts)
  BY <1>5, <1>6, <1>7 DEF Counts
<1> QED BY <1>8 DEF after, left, match, values

LEMMA NoneGiven ==
  ASSUME NEW fields \in Seq(Field), NEW name \in Token
  PROVE  Counts(fields, KeepOnly(fields, name, {}), name, <<>>)
<1>1. KeepOnly(fields, name, {}) \in Seq(Field) /\ Others(KeepOnly(fields, name, {}), name) = Others(fields, name)
  BY KeepOnlyType, KeptOnly
<1>2. \A W : Cardinality(WithValue(KeepOnly(fields, name, {}), name, W)) =
               Cardinality({k \in {} : FieldValues(fields, name)[k] \in W})
  BY KeptOnly
<1>3. \A W : {k \in {} : FieldValues(fields, name)[k] \in W} = {} /\ Among(<<>>, W) = {}
  BY DEF Among
<1>4. \A W : Cardinality(WithValue(KeepOnly(fields, name, {}), name, W)) = Cardinality(Among(<<>>, W))
  BY <1>2, <1>3
<1> QED BY <1>1, <1>4 DEF Counts

LEMMA OneGiven ==
  ASSUME NEW fields \in Seq(Field), NEW name \in Token, NEW text \in Text, Len(FieldValues(fields, name)) <= 1
  PROVE  Counts(fields, field_obtain(fields, name, text), name, <<text>>)
BY FieldObtained, ObtainedOne DEF Counts

\* A field directive that ends, on a message that is there.
LEMMA FieldGiven ==
  ASSUME TypeOK, NEW which \in Messages, NEW name \in Token, NEW v \in Feature,
         FieldDirective(which, name, v), end' = "ok"
  PROVE  AsAsked(msgs[which].fields, msgs'[which].fields, name, v)
<1> DEFINE fields == msgs[which].fields
           values == FieldValues(fields, name)
           texts == [i \in DOMAIN Val(v) |-> join(Val(v)[i], <<",">>)]
           match == MatchDups(values, texts)
           Now(fs) == Change(which, [msgs[which] EXCEPT !.fields = fs])
<1>1. ~ Fail /\ ~ Hang
  BY DEF Fail, Hang, Leave
<1>2. msgs[which].valid
  BY <1>1 DEF FieldDirective
<1>3. fields \in Seq(Field) /\ msgs[which] \in Request \union Response
  BY <1>2, MessageOf, RequestOf, ResponseOf DEF Messages
<1>4. ASSUME NEW fs, Now(fs) PROVE msgs'[which].fields = fs
  <2>1. msgs' = [msgs EXCEPT ![which] = [msgs[which] EXCEPT !.fields = fs]]
    BY <1>2, <1>4 DEF Change, Leave
  <2>2. which \in DOMAIN msgs
    BY DEF TypeOK, MsgType, Messages
  <2>3. "fields" \in DOMAIN msgs[which]
    BY <1>3 DEF Request, Response
  <2> QED BY <2>1, <2>2, <2>3
<1>5. CASE Is(v, "TUPLE")
  <2>1. texts \in Seq(Text)
    BY <1>5, JoinedTexts
  <2>2. Now(AddAll(KeepOnly(fields, name, match.kept), name, match.new))
    BY <1>1, <1>2, <1>5 DEF FieldDirective
  <2>3. Wanted(v) = texts
    BY <1>5 DEF Wanted
  <2>4. msgs'[which].fields = AddAll(KeepOnly(fields, name, match.kept), name, match.new)
    BY <1>4, <2>2
  <2> HIDE DEF texts
  <2>5. Counts(fields, AddAll(KeepOnly(fields, name, match.kept), name, match.new), name, texts)
    BY <1>3, <2>1, TupleGiven
  <2> QED BY <2>1, <2>3, <2>4, <2>5, ByCounts
<1>6. CASE ~ Is(v, "TUPLE") /\ is_nil(v)
  <2>1. Now(KeepOnly(fields, name, {}))
    BY <1>1, <1>2, <1>6 DEF FieldDirective
  <2>2. msgs'[which].fields = KeepOnly(fields, name, {})
    BY <1>4, <2>1
  <2>3. Wanted(v) = <<>> /\ <<>> \in Seq(Text)
    BY <1>6 DEF Wanted
  <2> QED BY <1>3, <2>2, <2>3, NoneGiven, ByCounts
<1>7. CASE ~ Is(v, "TUPLE") /\ ~ is_nil(v)
  <2>1. Now(field_obtain(fields, name, Format(v))) /\ ~ (Len(values) > 1)
    BY <1>1, <1>2, <1>7 DEF FieldDirective
  <2>2. msgs'[which].fields = field_obtain(fields, name, Format(v))
    BY <1>4, <2>1
  <2>3. Format(v) \in Text
    BY FormatText
  <2>4. Wanted(v) = <<Format(v)>> /\ <<Format(v)>> \in Seq(Text)
    BY <1>7, <2>3 DEF Wanted
  <2>5. Len(values) <= 1
    BY <1>3, <2>1, ValuesAt
  <2> QED BY <1>3, <2>2, <2>3, <2>4, <2>5, OneGiven, ByCounts
<1> QED BY <1>5, <1>6, <1>7

LEMMA FieldStep ==
  ASSUME IInv, [Next]_httpVars, end' = "ok",
         Done({"ua-req-field", "proxy-req-field", "proxy-rsp-field", "upstream-rsp-field"})
  PROVE  AsAsked(msgs[About(did'.name)].fields, msgs'[About(did'.name)].fields, did'.value[1], did'.value[2])
<1>1. {"ua-req-field", "proxy-req-field", "proxy-rsp-field", "upstream-rsp-field"} = FieldNames
  BY DEF FieldNames
<1>2. TypeOK /\ OnFields /\ did'.name \in FieldNames
  BY <1>1, IsDirective, InGroup DEF IInv
<1>3. /\ About("ua-req-field") = "ua" /\ About("proxy-req-field") = "preq"
      /\ About("proxy-rsp-field") = "prsp" /\ About("upstream-rsp-field") = "ursp"
  BY Abouts DEF OfUa, OfPreq, OfPrsp, OfUrsp
<1>4. ASSUME NEW which \in Messages, NEW name \in FieldName, NEW v \in FieldArg, FieldDirective(which, name, v),
             About(did'.name) = which, did'.value = <<name, v>>
      PROVE  AsAsked(msgs[About(did'.name)].fields, msgs'[About(did'.name)].fields, did'.value[1], did'.value[2])
  <2>1. name \in Token /\ v \in Feature
    BY Arguments
  <2>2. AsAsked(msgs[which].fields, msgs'[which].fields, name, v)
    BY <1>2, <1>4, <2>1, FieldGiven
  <2> QED BY <1>4, <2>2
<1>5. CASE did'.name = "ua-req-field"
  <2>1. PICK name \in FieldName, v \in FieldArg : Do_ua_req_field(name, v)
    BY <1>2, <1>5, FieldByName
  <2> QED BY <1>3, <1>4, <1>5, <2>1, ValueOf DEF Do_ua_req_field, Messages
<1>6. CASE did'.name = "proxy-req-field"
  <2>1. PICK name \in FieldName, v \in FieldArg : Do_proxy_req_field(name, v)
    BY <1>2, <1>6, FieldByName
  <2> QED BY <1>3, <1>4, <1>6, <2>1, ValueOf DEF Do_proxy_req_field, Messages
<1>7. CASE did'.name = "proxy-rsp-field"
  <2>1. PICK name \in FieldName, v \in FieldArg : Do_proxy_rsp_field(name, v)
    BY <1>2, <1>7, FieldByName
  <2> QED BY <1>3, <1>4, <1>7, <2>1, ValueOf DEF Do_proxy_rsp_field, Messages
<1>8. CASE did'.name = "upstream-rsp-field"
  <2>1. PICK name \in FieldName, v \in FieldArg : Do_upstream_rsp_field(name, v)
    BY <1>2, <1>8, FieldByName
  <2> QED BY <1>3, <1>4, <1>8, <2>1, ValueOf DEF Do_upstream_rsp_field, Messages
<1> QED BY <1>1, <1>2, <1>5, <1>6, <1>7, <1>8

\* For any number of fields and of duplicates, and any value: a field directive that ends
\* leaves as many of each text as it was given, and all other fields in their order.
THEOREM FieldsSet == Spec => FieldsAsAsked
<1>1. IInv /\ [Next]_httpVars =>
        [Done({"ua-req-field", "proxy-req-field", "proxy-rsp-field", "upstream-rsp-field"}) /\ end' = "ok" =>
           LET name == did'.value[1]
               wanted == Wanted(did'.value[2])
               before == msgs[About(did'.name)].fields
               after == msgs'[About(did'.name)].fields
               values == FieldValues(after, name)
           IN /\ Len(values) = Len(wanted)
              /\ \A i \in DOMAIN wanted : Times(values, wanted[i]) = Times(wanted, wanted[i])
              /\ Others(after, name) = Others(before, name)]_httpVars
  BY FieldStep DEF AsAsked
<1> QED BY <1>1, Invariant, PTL DEF FieldsAsAsked, Spec
-----------------------------------------------------------------------------
(* Elements of a query, when a part of it is replaced.                     *)

LEMMA EndIs ==
  ASSUME NEW q \in Text, NEW p \in Elements(q), NEW e \in p .. Len(q), \A i \in p .. e : q[i] \notin Separators,
         e = Len(q) \/ q[e + 1] \in Separators
  PROVE  EndOf(q, p) = e
<1> DEFINE x == EndOf(q, p)
<1>1. /\ p \in 1 .. Len(q) /\ x \in p .. Len(q) /\ \A i \in p .. x : q[i] \notin Separators
      /\ x < Len(q) => q[x + 1] \in Separators
  BY EndOfElement
<1> HIDE DEF x
<1>2. Len(q) \in Nat /\ p \in Int /\ e \in Int /\ x \in Int /\ x <= Len(q) /\ e <= Len(q) /\ p <= x /\ p <= e
  BY <1>1 DEF Text
<1>3. ~ (x < e)
  <2> SUFFICES ASSUME x < e PROVE FALSE
    OBVIOUS
  <2>1. x + 1 \in p .. e /\ x < Len(q)
    BY <1>2
  <2> QED BY <1>1, <2>1
<1>4. ~ (e < x)
  <2> SUFFICES ASSUME e < x PROVE FALSE
    OBVIOUS
  <2>1. e + 1 \in p .. x /\ e # Len(q)
    BY <1>2
  <2> QED BY <1>1, <2>1
<1>5. x = e
  BY <1>2, <1>3, <1>4
<1> QED BY <1>5 DEF x

\* Two elements, of the same text.
SameElement(q, p, r, s) ==
  /\ p \in Elements(q) /\ s \in Elements(r)
  /\ EndOf(q, p) - p = EndOf(r, s) - s
  /\ \A i \in 0 .. EndOf(q, p) - p : r[s + i] = q[p + i]

LEMMA ElementAt ==
  ASSUME NEW q \in Text, NEW r \in Text, NEW p \in Elements(q), NEW l \in Nat, l = EndOf(q, p) - p,
         NEW s \in 1 .. Len(r), s + l <= Len(r), \A i \in 0 .. l : r[s + i] = q[p + i],
         s = 1 \/ r[s - 1] \in Separators, s + l = Len(r) \/ r[s + l + 1] \in Separators
  PROVE  SameElement(q, p, r, s)
<1>1. /\ p \in 1 .. Len(q) /\ EndOf(q, p) \in p .. Len(q) /\ \A i \in p .. EndOf(q, p) : q[i] \notin Separators
  BY EndOfElement
<1>2. Len(q) \in Nat /\ Len(r) \in Nat /\ p \in Int /\ s \in Int /\ EndOf(q, p) = p + l /\ DOMAIN r = 1 .. Len(r)
  BY <1>1 DEF Text
<1>3. \A i \in 0 .. l : r[s + i] \notin Separators
  <2>1. \A i \in 0 .. l : p + i \in p .. EndOf(q, p)
    BY <1>2
  <2> QED BY <1>1, <2>1
<1>4. \A j \in s .. s + l : r[j] \notin Separators
  <2>1. \A j \in s .. s + l : j - s \in 0 .. l /\ s + (j - s) = j
    BY <1>2
  <2> QED BY <1>3, <2>1
<1>5. s \in s .. s + l /\ s + l \in s .. Len(r)
  BY <1>2
<1>6. s \in Elements(r)
  BY <1>2, <1>4, <1>5 DEF Elements
<1>7. EndOf(r, s) = s + l
  BY <1>4, <1>5, <1>6, EndIs
<1>8. EndOf(r, s) - s = l
  <2>1. (s + l) - s = l
    BY <1>2
  <2> QED BY <1>7, <2>1
<1> QED BY <1>6, <1>8 DEF SameElement

\* r is q with what is between a and b replaced, and what is behind it moved by d.
LowEdge(q, r, a) ==
  \/ a = 0 \/ q[a] \in Separators
  \/ (a = Len(q) \/ q[a + 1] \in Separators) /\ (a = Len(r) \/ r[a + 1] \in Separators)

HighEdge(q, r, b, d) ==
  \/ b = Len(q) \/ q[b + 1] \in Separators
  \/ (b = 0 \/ q[b] \in Separators) /\ (b + d = 0 \/ r[b + d] \in Separators)

Splice(q, r, a, b, d) ==
  /\ a \in Nat /\ b \in Nat /\ d \in Int /\ a <= b /\ b <= Len(q) /\ a <= b + d /\ Len(r) = Len(q) + d
  /\ \A i \in 1 .. a : r[i] = q[i]
  /\ \A i \in b + 1 .. Len(q) : r[i + d] = q[i]
  /\ LowEdge(q, r, a) /\ HighEdge(q, r, b, d)

LEMMA LowElement ==
  ASSUME NEW q \in Text, NEW r \in Text, NEW a, NEW b, NEW d, Splice(q, r, a, b, d),
         NEW p \in Elements(q), p <= a
  PROVE  SameElement(q, p, r, p)
<1> DEFINE e == EndOf(q, p)
<1>1. /\ p \in 1 .. Len(q) /\ q[p] \notin Separators /\ e \in p .. Len(q)
      /\ \A i \in p .. e : q[i] \notin Separators
      /\ e < Len(q) => q[e + 1] \in Separators
      /\ p = 1 \/ q[p - 1] \in Separators
  BY EndOfElement DEF Elements
<1> HIDE DEF e
<1>2. /\ Len(q) \in Nat /\ Len(r) \in Nat /\ p \in Int /\ e \in Int /\ p <= e /\ e <= Len(q) /\ 1 <= p
      /\ a \in Nat /\ a <= Len(q) /\ a <= Len(r) /\ p <= a
  BY <1>1 DEF Text, Splice
<1>3. \A i \in 1 .. a : r[i] = q[i]
  BY DEF Splice
<1>4. a # 0 /\ LowEdge(q, r, a)
  BY <1>2 DEF Splice
<1> DEFINE l == e - p
<1>5. l \in Nat /\ p + l = e /\ p \in 1 .. Len(r)
  BY <1>2
<1>6. ASSUME e <= a, e = Len(r) \/ r[e + 1] \in Separators
      PROVE  SameElement(q, p, r, p)
  <2>1. \A i \in 0 .. l : p + i \in 1 .. a
    BY <1>2, <1>6
  <2>2. \A i \in 0 .. l : r[p + i] = q[p + i]
    BY <1>3, <2>1
  <2>3. p = 1 \/ r[p - 1] \in Separators
    <3>1. p # 1 => p - 1 \in 1 .. a
      BY <1>2
    <3> QED BY <1>1, <1>3, <3>1
  <2>4. l = EndOf(q, p) - p /\ p + l <= Len(r) /\ (p + l = Len(r) \/ r[p + l + 1] \in Separators)
    BY <1>2, <1>5, <1>6 DEF e
  <2> HIDE DEF l
  <2> QED BY <1>5, <2>2, <2>3, <2>4, ElementAt
<1>7. CASE q[a] \in Separators
  <2>1. e < a
    <3> SUFFICES ASSUME ~ (e < a) PROVE FALSE
      OBVIOUS
    <3>1. a \in p .. e
      BY <1>2
    <3> QED BY <1>1, <1>7, <3>1
  <2>2. e + 1 \in 1 .. a /\ e < Len(q)
    BY <1>2, <2>1
  <2>3. r[e + 1] \in Separators /\ e <= a
    BY <1>1, <1>2, <1>3, <2>1, <2>2
  <2> QED BY <1>6, <2>3
<1>8. CASE (a = Len(q) \/ q[a + 1] \in Separators) /\ (a = Len(r) \/ r[a + 1] \in Separators)
  <2>1. e <= a
    <3> SUFFICES ASSUME ~ (e <= a) PROVE FALSE
      OBVIOUS
    <3>1. a + 1 \in p .. e /\ a # Len(q)
      BY <1>2
    <3> QED BY <1>1, <1>8, <3>1
  <2>2. e = Len(r) \/ r[e + 1] \in Separators
    <3>1. CASE e = a
      BY <1>8, <3>1
    <3>2. CASE e < a
      <4>1. e + 1 \in 1 .. a /\ e < Len(q)
        BY <1>2, <3>2
      <4> QED BY <1>1, <1>3, <4>1
    <3> QED BY <1>2, <2>1, <3>1, <3>2
  <2> QED BY <1>6, <2>1, <2>2
<1> QED BY <1>4, <1>7, <1>8 DEF LowEdge

LEMMA HighElement ==
  ASSUME NEW q \in Text, NEW r \in Text, NEW a, NEW b, NEW d, Splice(q, r, a, b, d),
         NEW p \in Elements(q), p > b
  PROVE  SameElement(q, p, r, p + d)
<1> DEFINE e == EndOf(q, p)
<1>1. /\ p \in 1 .. Len(q) /\ q[p] \notin Separators /\ e \in p .. Len(q)
      /\ \A i \in p .. e : q[i] \notin Separators
      /\ e < Len(q) => q[e + 1] \in Separators
      /\ p = 1 \/ q[p - 1] \in Separators
  BY EndOfElement DEF Elements
<1> HIDE DEF e
<1>2. /\ Len(q) \in Nat /\ Len(r) \in Nat /\ p \in Int /\ e \in Int /\ p <= e /\ e <= Len(q) /\ 1 <= p
      /\ a \in Nat /\ b \in Nat /\ d \in Int /\ a <= b /\ b <= Len(q) /\ a <= b + d /\ Len(r) = Len(q) + d /\ b < p
  BY <1>1 DEF Text, Splice
<1>3. \A i \in b + 1 .. Len(q) : r[i + d] = q[i]
  BY DEF Splice
<1>4. p + d \in 1 .. Len(r) /\ (p + d) + (e - p) = e + d /\ e - p \in Nat /\ (p + d) + (e - p) <= Len(r)
  BY <1>2
<1>5. \A i \in 0 .. e - p : r[(p + d) + i] = q[p + i]
  <2>1. \A i \in 0 .. e - p : p + i \in b + 1 .. Len(q) /\ (p + i) + d = (p + d) + i
    BY <1>2
  <2> QED BY <1>3, <2>1
<1>6. e + d = Len(r) \/ r[e + d + 1] \in Separators
  <2>1. CASE e = Len(q)
    BY <1>2, <2>1
  <2>2. CASE e < Len(q)
    <3>1. e + 1 \in b + 1 .. Len(q) /\ (e + 1) + d = e + d + 1
      BY <1>2, <2>2
    <3> QED BY <1>1, <1>3, <2>2, <3>1
  <2> QED BY <1>2, <2>1, <2>2
<1>7. p + d = 1 \/ r[(p + d) - 1] \in Separators
  <2>1. CASE p = b + 1
    <3>1. b # Len(q) /\ q[b + 1] \notin Separators
      BY <1>1, <1>2, <2>1
    <3>2. b + d = 0 \/ r[b + d] \in Separators
      BY <3>1 DEF Splice, HighEdge
    <3>3. (p + d) - 1 = b + d
      BY <1>2, <2>1
    <3> QED BY <1>2, <3>2, <3>3
  <2>2. CASE p > b + 1
    <3>1. p - 1 \in b + 1 .. Len(q) /\ (p - 1) + d = (p + d) - 1 /\ p # 1
      BY <1>2, <2>2
    <3> QED BY <1>1, <1>3, <3>1
  <2> QED BY <1>2, <2>1, <2>2
<1> DEFINE s == p + d
<1>8. /\ s \in 1 .. Len(r) /\ s + (e - p) <= Len(r) /\ e - p \in Nat
      /\ \A i \in 0 .. e - p : r[s + i] = q[p + i]
      /\ s = 1 \/ r[s - 1] \in Separators
      /\ s + (e - p) = Len(r) \/ r[s + (e - p) + 1] \in Separators
  BY <1>4, <1>5, <1>6, <1>7
<1> HIDE DEF s
<1>9. SameElement(q, p, r, s)
  BY <1>8, ElementAt DEF e
<1> QED BY <1>9 DEF s

LEMMA SpliceBack ==
  ASSUME NEW q \in Text, NEW r \in Text, NEW a, NEW b, NEW d, Splice(q, r, a, b, d)
  PROVE  Splice(r, q, a, b + d, -d)
<1>1. /\ Len(q) \in Nat /\ Len(r) \in Nat
      /\ a \in Nat /\ b \in Nat /\ d \in Int /\ a <= b /\ b <= Len(q) /\ a <= b + d /\ Len(r) = Len(q) + d
  BY DEF Text, Splice
<1>2. /\ b + d \in Nat /\ -d \in Int /\ b + d <= Len(r) /\ (b + d) + (-d) = b /\ Len(q) = Len(r) + (-d)
  BY <1>1
<1>3. (\A i \in 1 .. a : r[i] = q[i]) /\ \A i \in b + 1 .. Len(q) : r[i + d] = q[i]
  BY DEF Splice
<1>4. \A i \in b + d + 1 .. Len(r) : q[i + (-d)] = r[i]
  <2>1. \A i \in b + d + 1 .. Len(r) : i + (-d) \in b + 1 .. Len(q) /\ (i + (-d)) + d = i
    BY <1>1
  <2> QED BY <1>3, <2>1
<1>5. LowEdge(r, q, a)
  <2>1. a # 0 => r[a] = q[a]
    BY <1>1, <1>3
  <2> QED BY <2>1 DEF Splice, LowEdge
<1>6. HighEdge(r, q, b + d, -d)
  <2>1. CASE b = Len(q)
    BY <1>1, <2>1 DEF HighEdge
  <2>2. CASE b # Len(q) /\ q[b + 1] \in Separators
    <3>1. b + 1 \in b + 1 .. Len(q) /\ (b + 1) + d = (b + d) + 1
      BY <1>1, <2>2
    <3>2. r[(b + d) + 1] \in Separators
      BY <1>3, <2>2, <3>1
    <3> QED BY <3>2 DEF HighEdge
  <2>3. CASE (b = 0 \/ q[b] \in Separators) /\ (b + d = 0 \/ r[b + d] \in Separators)
    BY <1>2, <2>3 DEF HighEdge
  <2> QED BY <2>1, <2>2, <2>3 DEF Splice, HighEdge
<1> QED BY <1>1, <1>2, <1>3, <1>4, <1>5, <1>6 DEF Splice

\* Where an element that is not replaced goes to.
MovedTo(a, d, p) == IF p <= a THEN p ELSE p + d

LEMMA MovedOn ==
  ASSUME NEW q \in Text, NEW r \in Text, NEW a, NEW b, NEW d, Splice(q, r, a, b, d),
         NEW p \in Elements(q), p \notin a + 1 .. b
  PROVE  SameElement(q, p, r, MovedTo(a, d, p))
<1>1. a \in Nat /\ b \in Nat /\ d \in Int /\ Elements(q) \subseteq 1 .. Len(q) /\ Len(q) \in Nat
  BY DEF Elements, Text, Splice
<1>2. CASE p <= a
  BY <1>2, LowElement DEF MovedTo
<1>3. CASE ~ (p <= a)
  <2>1. p > b
    BY <1>1, <1>3
  <2> QED BY <1>3, <2>1, HighElement DEF MovedTo
<1> QED BY <1>2, <1>3

LEMMA MovedBack ==
  ASSUME NEW q \in Text, NEW r \in Text, NEW a, NEW b, NEW d, Splice(q, r, a, b, d), NEW m, m = -d
  PROVE  /\ \A s \in Elements(r) : s \notin a + 1 .. b + d => SameElement(r, s, q, MovedTo(a, m, s))
         /\ \A s \in Elements(r) : s \notin a + 1 .. b + d =>
              MovedTo(a, m, s) \notin a + 1 .. b /\ MovedTo(a, d, MovedTo(a, m, s)) = s
<1>1. /\ Len(q) \in Nat /\ Len(r) \in Nat
      /\ a \in Nat /\ b \in Nat /\ d \in Int /\ a <= b /\ b <= Len(q) /\ a <= b + d /\ Len(r) = Len(q) + d
  BY DEF Text, Splice
<1>2. Elements(r) \subseteq 1 .. Len(r)
  BY DEF Elements, Text
<1>3. Splice(r, q, a, b + d, m)
  BY SpliceBack
<1>4. \A s \in Elements(r) : s \notin a + 1 .. b + d => SameElement(r, s, q, MovedTo(a, m, s))
  BY <1>3, MovedOn
<1>5. \A s \in Elements(r) : s \notin a + 1 .. b + d =>
        MovedTo(a, m, s) \notin a + 1 .. b /\ MovedTo(a, d, MovedTo(a, m, s)) = s
  BY <1>1, <1>2 DEF MovedTo
<1> QED BY <1>4, <1>5

LEMMA SameValue ==
  ASSUME NEW q \in Text, NEW r \in Text, NEW p, NEW s, SameElement(q, p, r, s)
  PROVE  /\ r[s] = q[p] /\ (HasEqual(r, s) <=> HasEqual(q, p)) /\ ValueAt(r, s) = ValueAt(q, p)
<1> DEFINE e == EndOf(q, p)
           f == EndOf(r, s)
<1>1. p \in Elements(q) /\ s \in Elements(r) /\ e - p = f - s /\ \A i \in 0 .. e - p : r[s + i] = q[p + i]
  BY DEF SameElement
<1>2. p \in 1 .. Len(q) /\ e \in p .. Len(q) /\ s \in 1 .. Len(r) /\ f \in s .. Len(r)
  BY <1>1, EndOfElement
<1> HIDE DEF e, f
<1>3. /\ Len(q) \in Nat /\ Len(r) \in Nat /\ p + 2 \in Nat \ {0} /\ s + 2 \in Nat \ {0}
      /\ e \in 0 .. Len(q) /\ f \in 0 .. Len(r)
  BY <1>2 DEF Text
<1>4. r[s] = q[p]
  <2>1. 0 \in 0 .. e - p /\ s + 0 = s /\ p + 0 = p
    BY <1>2
  <2> QED BY <1>1, <2>1
<1>5. (s < f) <=> (p < e)
  BY <1>1, <1>2
<1> DEFINE u == SubSeq(q, p + 2, e)
           v == SubSeq(r, s + 2, f)
<1>6. /\ u \in Text /\ Len(u) = (IF p + 2 <= e THEN e - (p + 2) + 1 ELSE 0)
      /\ \A i \in 1 .. e - (p + 2) + 1 : u[i] = q[p + 2 + i - 1]
  BY <1>3, SubText
<1>7. /\ v \in Text /\ Len(v) = (IF s + 2 <= f THEN f - (s + 2) + 1 ELSE 0)
      /\ \A i \in 1 .. f - (s + 2) + 1 : v[i] = r[s + 2 + i - 1]
  BY <1>3, SubText
<1> HIDE DEF u, v
<1>8. Len(u) = Len(v) /\ e - (p + 2) + 1 = f - (s + 2) + 1 /\ (Len(u) = e - p - 1 \/ Len(u) = 0)
  BY <1>1, <1>2, <1>6, <1>7
<1>9. \A i \in 1 .. Len(u) : u[i] = v[i]
  <2>1. \A i \in 1 .. Len(u) :
          /\ i \in 1 .. e - (p + 2) + 1 /\ i \in 1 .. f - (s + 2) + 1
          /\ i + 1 \in 0 .. e - p /\ s + 2 + i - 1 = s + (i + 1) /\ p + 2 + i - 1 = p + (i + 1)
    BY <1>2, <1>8
  <2> QED BY <1>1, <1>6, <1>7, <2>1
<1>10. u = v
  <2>1. Len(u) = Len(v) /\ u \in Seq(Token) /\ v \in Seq(Token)
    BY <1>6, <1>7, <1>8 DEF Text
  <2> QED BY <1>9, <2>1
<1> QED BY <1>4, <1>5, <1>10 DEF HasEqual, ValueAt, e, f, u, v

\* The elements that have a name, without regard to case.
Matching(q, n) == {p \in Elements(q) : NoCase(q[p]) = NoCase(n)}

LEMMA FoundFirst ==
  ASSUME NEW q \in Text, NEW n
  PROVE  /\ Matching(q, n) = {} <=> FindName(q, n, TRUE) = 0
         /\ FindName(q, n, TRUE) # 0 =>
              FindName(q, n, TRUE) \in Matching(q, n) /\ \A p \in Matching(q, n) : FindName(q, n, TRUE) <= p
<1> DEFINE M == Matching(q, n)
<1>1. FindName(q, n, TRUE) = IF M = {} THEN 0 ELSE Min(M)
  BY DEF FindName, Matching
<1>2. M \subseteq Nat /\ M \subseteq 1 .. Len(q)
  BY DEF Elements, Text, Matching
<1> HIDE DEF M
<1>3. M # {} => Min(M) \in M /\ \A p \in M : Min(M) <= p
  BY <1>2, MinOf
<1>4. M # {} => Min(M) # 0
  BY <1>2, <1>3
<1>5. /\ M = {} <=> FindName(q, n, TRUE) = 0
      /\ FindName(q, n, TRUE) # 0 =>
           FindName(q, n, TRUE) \in M /\ \A p \in M : FindName(q, n, TRUE) <= p
  BY <1>1, <1>3, <1>4
<1> QED BY <1>5 DEF M

LEMMA FirstFound ==
  ASSUME NEW q \in Text, NEW n, NEW t \in Matching(q, n), \A p \in Matching(q, n) : t <= p
  PROVE  FindName(q, n, TRUE) = t
<1>1. Matching(q, n) \subseteq Int
  BY DEF Elements, Text, Matching
<1> DEFINE f == FindName(q, n, TRUE)
<1>2. f \in Matching(q, n) /\ f <= t
  BY FoundFirst
<1> HIDE DEF f
<1>3. t <= f /\ t \in Int /\ f \in Int
  BY <1>1, <1>2
<1>4. f = t
  BY <1>2, <1>3
<1> QED BY <1>4 DEF f

\* What is replaced has no element of the name.
Apart(q, r, a, b, d, n) ==
  /\ Splice(q, r, a, b, d)
  /\ Matching(q, n) \intersect (a + 1 .. b) = {}
  /\ Matching(r, n) \intersect (a + 1 .. b + d) = {}

LEMMA OtherValue ==
  ASSUME NEW q \in Text, NEW r \in Text, NEW a, NEW b, NEW d, NEW n, Apart(q, r, a, b, d, n)
  PROVE  query_value(r, n) = query_value(q, n)
<1> DEFINE m == -d
<1>1. /\ Len(q) \in Nat /\ Len(r) \in Nat /\ m \in Int /\ m = -d
      /\ a \in Nat /\ b \in Nat /\ d \in Int /\ a <= b /\ b <= Len(q) /\ a <= b + d /\ Len(r) = Len(q) + d
  BY DEF Text, Splice, Apart
<1> HIDE DEF m
<1>2. /\ Matching(q, n) \subseteq Elements(q) /\ Matching(r, n) \subseteq Elements(r)
      /\ Matching(q, n) \subseteq 1 .. Len(q) /\ Matching(r, n) \subseteq 1 .. Len(r)
  BY DEF Elements, Text, Matching
<1>3. ASSUME NEW p \in Matching(q, n)
      PROVE  SameElement(q, p, r, MovedTo(a, d, p)) /\ MovedTo(a, d, p) \in Matching(r, n)
  <2>1. p \in Elements(q) /\ p \notin a + 1 .. b
    BY <1>2 DEF Apart
  <2>2. SameElement(q, p, r, MovedTo(a, d, p))
    BY <2>1, MovedOn DEF Apart
  <2> HIDE DEF MovedTo
  <2>3. r[MovedTo(a, d, p)] = q[p] /\ MovedTo(a, d, p) \in Elements(r)
    BY <2>2, SameValue DEF SameElement
  <2> QED BY <2>2, <2>3 DEF Matching
<1>4. ASSUME NEW s \in Matching(r, n)
      PROVE  MovedTo(a, m, s) \in Matching(q, n) /\ MovedTo(a, d, MovedTo(a, m, s)) = s
  <2>1. s \in Elements(r) /\ s \notin a + 1 .. b + d
    BY <1>2 DEF Apart
  <2>2. SameElement(r, s, q, MovedTo(a, m, s)) /\ MovedTo(a, d, MovedTo(a, m, s)) = s
    BY <1>1, <2>1, MovedBack DEF Apart
  <2> HIDE DEF MovedTo
  <2>3. q[MovedTo(a, m, s)] = r[s] /\ MovedTo(a, m, s) \in Elements(q)
    BY <2>2, SameValue DEF SameElement
  <2> QED BY <2>2, <2>3 DEF Matching
<1> DEFINE p == FindName(q, n, TRUE)
           t == FindName(r, n, TRUE)
<1>5. CASE p = 0
  <2>1. Matching(q, n) = {}
    BY <1>5, FoundFirst
  <2>2. Matching(r, n) = {}
    BY <1>4, <2>1
  <2>3. t = 0
    BY <2>2, FoundFirst
  <2> QED BY <1>5, <2>3 DEF query_value
<1>6. CASE p # 0
  <2>1. p \in Matching(q, n) /\ \A x \in Matching(q, n) : p <= x
    BY <1>6, FoundFirst
  <2> HIDE DEF p
  <2>2. SameElement(q, p, r, MovedTo(a, d, p)) /\ MovedTo(a, d, p) \in Matching(r, n)
    BY <1>3, <2>1
  <2>3. ASSUME NEW s \in Matching(r, n)
        PROVE  MovedTo(a, d, p) <= s
    <3> DEFINE x == MovedTo(a, m, s)
    <3>1. x \in Matching(q, n) /\ p <= x /\ MovedTo(a, d, x) = s
      BY <1>4, <2>1
    <3> HIDE DEF x
    <3>2. p \in 1 .. Len(q) /\ x \in 1 .. Len(q) /\ p \notin a + 1 .. b /\ x \notin a + 1 .. b
      BY <1>2, <2>1, <3>1 DEF Apart
    <3>3. MovedTo(a, d, p) <= MovedTo(a, d, x)
      BY <1>1, <3>1, <3>2 DEF MovedTo
    <3> QED BY <3>1, <3>3
  <2>4. t = MovedTo(a, d, p)
    BY <2>2, <2>3, FirstFound
  <2> HIDE DEF t
  <2>5. t # 0
    <3>1. t \in Matching(r, n)
      BY <2>2, <2>4
    <3>2. t \in 1 .. Len(r)
      BY <1>2, <3>1
    <3> QED BY <1>1, <3>2
  <2>6. SameElement(q, p, r, t)
    BY <2>2, <2>4
  <2>7. (HasEqual(r, t) <=> HasEqual(q, p)) /\ ValueAt(r, t) = ValueAt(q, p)
    BY <2>6, SameValue
  <2> QED BY <1>6, <2>5, <2>7 DEF query_value, p, t
<1> QED BY <1>5, <1>6

\* One element goes and none comes.
LEMMA OneGone ==
  ASSUME NEW q \in Text, NEW r \in Text, NEW a, NEW b, NEW d, Splice(q, r, a, b, d), NEW n, NEW p0 \in Matching(q, n),
         Matching(q, n) \intersect (a + 1 .. b) = {p0}, Matching(r, n) \intersect (a + 1 .. b + d) = {}
  PROVE  CountName(r, n) = CountName(q, n) - 1
<1> DEFINE m == -d
           X == Matching(q, n) \ {p0}
           Y == Matching(r, n)
           h == [p \in X |-> MovedTo(a, d, p)]
<1>1. /\ Len(q) \in Nat /\ Len(r) \in Nat /\ m \in Int /\ m = -d
      /\ a \in Nat /\ b \in Nat /\ d \in Int /\ a <= b /\ b <= Len(q) /\ a <= b + d /\ Len(r) = Len(q) + d
  BY DEF Text, Splice
<1> HIDE DEF m
<1>2. /\ Matching(q, n) \subseteq Elements(q) /\ Matching(r, n) \subseteq Elements(r)
      /\ Matching(q, n) \subseteq 1 .. Len(q) /\ Matching(r, n) \subseteq 1 .. Len(r)
  BY DEF Elements, Text, Matching
<1>3. ASSUME NEW p \in X
      PROVE  MovedTo(a, d, p) \in Y /\ p \in Elements(q) /\ p \notin a + 1 .. b
  <2>1. p \in Elements(q) /\ p \notin a + 1 .. b
    BY <1>2
  <2>2. SameElement(q, p, r, MovedTo(a, d, p))
    BY <2>1, MovedOn
  <2>3. r[MovedTo(a, d, p)] = q[p] /\ MovedTo(a, d, p) \in Elements(r)
    BY <2>2, SameValue DEF SameElement
  <2> QED BY <2>1, <2>3 DEF Matching
<1>4. ASSUME NEW s \in Y
      PROVE  MovedTo(a, m, s) \in X /\ MovedTo(a, d, MovedTo(a, m, s)) = s
  <2>1. s \in Elements(r) /\ s \notin a + 1 .. b + d
    BY <1>2
  <2>2. /\ SameElement(r, s, q, MovedTo(a, m, s)) /\ MovedTo(a, d, MovedTo(a, m, s)) = s
        /\ MovedTo(a, m, s) \notin a + 1 .. b
    BY <1>1, <2>1, MovedBack
  <2>3. q[MovedTo(a, m, s)] = r[s] /\ MovedTo(a, m, s) \in Elements(q)
    BY <2>2, SameValue DEF SameElement
  <2>4. MovedTo(a, m, s) \in Matching(q, n) /\ MovedTo(a, m, s) # p0
    BY <2>2, <2>3 DEF Matching
  <2> QED BY <2>2, <2>4
<1>5. X \subseteq 1 .. Len(q) /\ IsFiniteSet(X) /\ IsFiniteSet(Matching(q, n)) /\ Cardinality(Matching(q, n)) \in Nat
  BY <1>1, <1>2, Positions
<1>6. X \subseteq Int /\ \A p \in X : p \notin a + 1 .. b
  BY <1>3, <1>5
<1>7. h \in [X -> Y]
  BY <1>3
<1>8. \A x, z \in X : h[x] = h[z] => x = z
  <2>1. \A x, z \in Int : x \notin a + 1 .. b /\ z \notin a + 1 .. b /\ MovedTo(a, d, x) = MovedTo(a, d, z) => x = z
    BY <1>1 DEF MovedTo
  <2>2. \A x \in X : h[x] = MovedTo(a, d, x)
    OBVIOUS
  <2> HIDE DEF h, X, MovedTo
  <2> QED BY <1>6, <2>1, <2>2
<1>9. \A y \in Y : \E x \in X : h[x] = y
  BY <1>4
<1> HIDE DEF h, X, Y
<1>10. Cardinality(Y) = Cardinality(X)
  BY <1>5, <1>7, <1>8, <1>9, SameSize
<1>11. Cardinality(X) = Cardinality(Matching(q, n)) - 1
  <2>1. Cardinality(Matching(q, n) \ {p0}) = Cardinality(Matching(q, n)) - 1
    BY <1>5, FS_RemoveElement
  <2> QED BY <2>1 DEF X
<1>12. Cardinality(Matching(r, n)) = Cardinality(Matching(q, n)) - 1
  BY <1>10, <1>11 DEF Y
<1> QED BY <1>12 DEF CountName, Matching

-----------------------------------------------------------------------------
(* What query_value_update replaces.                                       *)

\* r is x, y and z one after the other.
Parts(x, y, z, r) ==
  /\ Len(r) = Len(x) + Len(y) + Len(z)
  /\ \A i \in 1 .. Len(x) : r[i] = x[i]
  /\ \A i \in 1 .. Len(y) : r[Len(x) + i] = y[i]
  /\ \A i \in 1 .. Len(z) : r[Len(x) + Len(y) + i] = z[i]

LEMMA ThreeParts ==
  ASSUME NEW x \in Text, NEW y \in Text, NEW z \in Text
  PROVE  x \o y \o z \in Text /\ Parts(x, y, z, x \o y \o z)
<1> DEFINE r == x \o y \o z
<1> DEFINE u == x \o y
<1>1. /\ u \in Seq(Token) /\ Len(u) = Len(x) + Len(y)
      /\ \A i \in 1 .. Len(x) + Len(y) : u[i] = IF i <= Len(x) THEN x[i] ELSE y[i - Len(x)]
  BY ConcatProperties DEF Text
<1>2. r = u \o z
  OBVIOUS
<1> HIDE DEF u, r
<1>3. /\ r \in Seq(Token) /\ Len(r) = Len(u) + Len(z)
      /\ \A i \in 1 .. Len(u) + Len(z) : r[i] = IF i <= Len(u) THEN u[i] ELSE z[i - Len(u)]
  <2>1. z \in Seq(Token)
    BY DEF Text
  <2>2. /\ u \o z \in Seq(Token) /\ Len(u \o z) = Len(u) + Len(z)
        /\ \A i \in 1 .. Len(u) + Len(z) : (u \o z)[i] = IF i <= Len(u) THEN u[i] ELSE z[i - Len(u)]
    <3>1. u \in Seq(Token)
      BY <1>1
    <3> QED BY <2>1, <3>1, ConcatProperties
  <2> QED BY <1>2, <2>2, Zenon
<1>4. Len(x) \in Nat /\ Len(y) \in Nat /\ Len(z) \in Nat
  BY DEF Text
<1>5. \A i \in 1 .. Len(x) : r[i] = x[i]
  <2>1. \A i \in 1 .. Len(x) : i \in 1 .. Len(u) + Len(z) /\ i \in 1 .. Len(x) + Len(y) /\ i <= Len(x) /\ i <= Len(u)
    BY <1>1, <1>4
  <2> QED BY <1>1, <1>3, <2>1
<1>6. \A i \in 1 .. Len(y) : r[Len(x) + i] = y[i]
  <2>1. \A i \in 1 .. Len(y) : /\ Len(x) + i \in 1 .. Len(u) + Len(z) /\ Len(x) + i \in 1 .. Len(x) + Len(y)
                               /\ ~ (Len(x) + i <= Len(x)) /\ Len(x) + i <= Len(u) /\ (Len(x) + i) - Len(x) = i
    BY <1>1, <1>4
  <2> QED BY <1>1, <1>3, <2>1
<1>7. \A i \in 1 .. Len(z) : r[Len(u) + i] = z[i]
  <2>1. \A i \in 1 .. Len(z) : /\ Len(u) + i \in 1 .. Len(u) + Len(z)
                               /\ ~ (Len(u) + i <= Len(u)) /\ (Len(u) + i) - Len(u) = i
    BY <1>1, <1>4
  <2> QED BY <1>3, <2>1
<1>8. Len(r) = Len(x) + Len(y) + Len(z)
  BY <1>1, <1>3
<1>9. \A i \in 1 .. Len(z) : r[Len(x) + Len(y) + i] = z[i]
  BY <1>1, <1>7
<1>10. r \in Text /\ Parts(x, y, z, r)
  BY <1>3, <1>5, <1>6, <1>8, <1>9 DEF Parts, Text
<1> QED BY <1>10 DEF r

\* The element at p gets another rest.
SetAt(q, p, mid, r) ==
  /\ Splice(q, r, p - 1, EndOf(q, p), Len(mid) - (EndOf(q, p) - p))
  /\ \A x \in Elements(q) : x \in p .. EndOf(q, p) => x = p
  /\ \A s \in Elements(r) : s \in p .. p + Len(mid) => s = p
  /\ p \in Elements(r) /\ EndOf(r, p) = p + Len(mid) /\ r[p] = q[p]
  /\ \A i \in 1 .. Len(mid) : r[p + i] = mid[i]

\* r is q with what is between k and e replaced by mid.
Replaced(q, k, e, mid, r) ==
  /\ Len(r) = k + Len(mid) + (Len(q) - e)
  /\ \A i \in 1 .. k : r[i] = q[i]
  /\ \A i \in 1 .. Len(mid) : r[k + i] = mid[i]
  /\ \A i \in 1 .. Len(q) - e : r[k + Len(mid) + i] = q[e + i]

LEMMA ReplacedBy ==
  ASSUME NEW q \in Text, NEW x \in Text, NEW mid \in Text, NEW z \in Text, NEW e \in 0 .. Len(q),
         \A i \in 1 .. Len(x) : x[i] = q[i], Len(z) = Len(q) - e, \A i \in 1 .. Len(z) : z[i] = q[e + i]
  PROVE  x \o mid \o z \in Text /\ Replaced(q, Len(x), e, mid, x \o mid \o z)
<1> DEFINE r == x \o mid \o z
<1>1. r \in Text /\ Parts(x, mid, z, r)
  BY ThreeParts
<1> HIDE DEF r
<1>2. /\ r \in Text /\ Len(r) = Len(x) + Len(mid) + Len(z)
      /\ \A i \in 1 .. Len(x) : r[i] = x[i]
      /\ \A i \in 1 .. Len(mid) : r[Len(x) + i] = mid[i]
      /\ \A i \in 1 .. Len(z) : r[Len(x) + Len(mid) + i] = z[i]
  BY <1>1 DEF Parts
<1>3. r \in Text /\ Replaced(q, Len(x), e, mid, r)
  BY <1>2 DEF Replaced
<1> QED BY <1>3 DEF r

LEMMA StartOf ==
  ASSUME NEW q \in Text, NEW k \in 0 .. Len(q)
  PROVE  SubSeq(q, 1, k) \in Text /\ Len(SubSeq(q, 1, k)) = k /\ \A i \in 1 .. k : SubSeq(q, 1, k)[i] = q[i]
<1> DEFINE x == SubSeq(q, 1, k)
<1>1. k \in Nat /\ 1 \in Nat \ {0}
  BY DEF Text
<1>2. /\ x \in Text /\ Len(x) = (IF 1 <= k THEN k - 1 + 1 ELSE 0)
      /\ \A i \in 1 .. k - 1 + 1 : x[i] = q[1 + i - 1]
  BY <1>1, SubText
<1> HIDE DEF x
<1>3. k - 1 + 1 = k /\ (IF 1 <= k THEN k - 1 + 1 ELSE 0) = k /\ \A i \in 1 .. k : 1 + i - 1 = i
  BY <1>1
<1>4. x \in Text /\ Len(x) = k /\ \A i \in 1 .. k : x[i] = q[i]
  BY <1>2, <1>3
<1> QED BY <1>4 DEF x

LEMMA RestOf ==
  ASSUME NEW q \in Text, NEW e \in 0 .. Len(q)
  PROVE  /\ SubSeq(q, e + 1, Len(q)) \in Text /\ Len(SubSeq(q, e + 1, Len(q))) = Len(q) - e
         /\ \A i \in 1 .. Len(q) - e : SubSeq(q, e + 1, Len(q))[i] = q[e + i]
<1> DEFINE z == SubSeq(q, e + 1, Len(q))
<1>1. Len(q) \in Nat /\ e \in Nat /\ e <= Len(q) /\ e + 1 \in Nat \ {0} /\ Len(q) \in 0 .. Len(q)
  BY DEF Text
<1>2. /\ z \in Text /\ Len(z) = (IF e + 1 <= Len(q) THEN Len(q) - (e + 1) + 1 ELSE 0)
      /\ \A i \in 1 .. Len(q) - (e + 1) + 1 : z[i] = q[e + 1 + i - 1]
  BY <1>1, SubText
<1> HIDE DEF z
<1>3. /\ Len(q) - (e + 1) + 1 = Len(q) - e /\ \A i \in 1 .. Len(q) - e : e + 1 + i - 1 = e + i
      /\ (IF e + 1 <= Len(q) THEN Len(q) - (e + 1) + 1 ELSE 0) = Len(q) - e
  BY <1>1
<1>4. Len(z) = Len(q) - e
  BY <1>2, <1>3
<1>5. \A i \in 1 .. Len(q) - e : z[i] = q[e + i]
  BY <1>2, <1>3
<1>6. z \in Text /\ Len(z) = Len(q) - e /\ \A i \in 1 .. Len(q) - e : z[i] = q[e + i]
  BY <1>2, <1>4, <1>5
<1> QED BY <1>6 DEF z

LEMMA SetSpliced ==
  ASSUME NEW q \in Text, NEW p \in Elements(q), NEW mid \in Text, \A i \in 1 .. Len(mid) : mid[i] \notin Separators,
         NEW r \in Text, Replaced(q, p, EndOf(q, p), mid, r)
  PROVE  SetAt(q, p, mid, r)
<1> DEFINE e == EndOf(q, p)
           L == Len(mid)
           a == p - 1
           d == L - (e - p)
<1>1. /\ p \in 1 .. Len(q) /\ q[p] \notin Separators /\ e \in p .. Len(q)
      /\ \A i \in p .. e : q[i] \notin Separators
      /\ e < Len(q) => q[e + 1] \in Separators
      /\ p = 1 \/ q[p - 1] \in Separators
  BY EndOfElement DEF Elements
<1>2. /\ Len(r) = p + L + (Len(q) - e)
      /\ \A i \in 1 .. p : r[i] = q[i]
      /\ \A i \in 1 .. L : r[p + i] = mid[i]
      /\ \A i \in 1 .. Len(q) - e : r[p + L + i] = q[e + i]
  BY DEF Replaced
<1> HIDE DEF e, L
<1>3. /\ Len(q) \in Nat /\ L \in Nat /\ p \in Int /\ e \in Int /\ p <= e /\ e <= Len(q) /\ 1 <= p /\ L = Len(mid)
  BY <1>1 DEF Text, L
<1>4. Len(r) = Len(q) + d /\ d \in Int /\ a \in Nat /\ a <= e /\ a <= e + d /\ e \in Nat
  <2>1. Len(r) = p + L + (Len(q) - e)
    BY <1>2
  <2>2. p + L + (Len(q) - e) = Len(q) + d
    BY <1>3
  <2>3. d \in Int /\ a \in Nat /\ a <= e /\ e \in Nat
    BY <1>3
  <2>4. a <= e + d
    BY <1>3
  <2> QED BY <2>1, <2>2, <2>3, <2>4
<1>5. \A i \in e + 1 .. Len(q) : r[i + d] = q[i]
  <2>1. \A i \in e + 1 .. Len(q) : i - e \in 1 .. Len(q) - e /\ p + L + (i - e) = i + d /\ e + (i - e) = i
    BY <1>3
  <2> HIDE DEF d
  <2> QED BY <1>2, <2>1
<1>6. LowEdge(q, r, a)
  BY <1>1 DEF LowEdge
<1>7. HighEdge(q, r, e, d)
  BY <1>1, <1>3 DEF HighEdge
<1>8. \A i \in 1 .. a : r[i] = q[i]
  BY <1>3, <1>2
<1>9. Splice(q, r, a, e, d)
  BY <1>3, <1>4, <1>5, <1>6, <1>7, <1>8 DEF Splice
<1>10. ASSUME NEW y \in Elements(q), y \in p .. e
       PROVE  y = p
  <2>1. y = 1 \/ q[y - 1] \in Separators
    BY DEF Elements
  <2>2. y > p => y - 1 \in p .. e
    BY <1>3, <1>10
  <2> QED BY <1>1, <1>3, <1>10, <2>1, <2>2
<1>11. r[p] = q[p] /\ \A j \in p .. p + L : r[j] \notin Separators
  <2>1. r[p] = q[p]
    BY <1>3, <1>2
  <2>2. \A j \in p .. p + L : j = p \/ (j - p \in 1 .. L /\ p + (j - p) = j)
    BY <1>3
  <2>3. \A i \in 1 .. L : r[p + i] \notin Separators
    BY <1>3, <1>2
  <2> QED BY <1>1, <2>1, <2>2, <2>3
<1>12. ASSUME NEW s \in Elements(r), s \in p .. p + L
       PROVE  s = p
  <2>1. s = 1 \/ r[s - 1] \in Separators
    BY DEF Elements
  <2>2. s > p => s - 1 \in p .. p + L
    BY <1>3, <1>12
  <2> QED BY <1>3, <1>11, <1>12, <2>1, <2>2
<1>13. p \in Elements(r)
  <2>1. p \in 1 .. Len(r)
    BY <1>3, <1>4
  <2>2. p = 1 \/ (p - 1 \in 1 .. p)
    BY <1>3
  <2> QED BY <1>1, <1>2, <1>11, <2>1, <2>2 DEF Elements, Text
<1>14. EndOf(r, p) = p + L
  <2>1. p + L \in p .. Len(r)
    BY <1>3, <1>4
  <2>2. p + L = Len(r) \/ r[p + L + 1] \in Separators
    <3>1. CASE e = Len(q)
      BY <1>3, <1>4, <3>1
    <3>2. CASE e < Len(q)
      <4>1. e + 1 \in e + 1 .. Len(q) /\ (e + 1) + d = p + L + 1
        BY <1>3, <3>2
      <4>2. r[(e + 1) + d] \in Separators
        <5> HIDE DEF d
        <5> QED BY <1>1, <1>5, <3>2, <4>1
      <4>3. r[p + L + 1] \in Separators
        BY <4>1, <4>2, Zenon
      <4> QED BY <4>3
    <3>3. e = Len(q) \/ e < Len(q)
      BY <1>3
    <3> QED BY <3>1, <3>2, <3>3
  <2> QED BY <1>2, <1>11, <1>13, <2>1, <2>2, EndIs
<1>15. \A i \in 1 .. Len(mid) : r[p + i] = mid[i]
  BY <1>3, <1>2
<1>16. Splice(q, r, p - 1, EndOf(q, p), Len(mid) - (EndOf(q, p) - p))
  BY <1>9 DEF e, L
<1>17. \A y \in Elements(q) : y \in p .. EndOf(q, p) => y = p
  BY <1>10 DEF e
<1>18. /\ \A s \in Elements(r) : s \in p .. p + Len(mid) => s = p
       /\ EndOf(r, p) = p + Len(mid)
  BY <1>12, <1>14 DEF L
<1> QED BY <1>11, <1>13, <1>15, <1>16, <1>17, <1>18 DEF SetAt

\* t is u without the separators at its end, or at its start.
EndTrimmed(u, t, k) ==
  /\ t \in Text /\ Len(t) = k /\ \A i \in 1 .. k : t[i] = u[i]
  /\ k = 0 \/ u[k] \notin Separators
  /\ \A i \in k + 1 .. Len(u) : u[i] \in Separators

StartTrimmed(u, t, k) ==
  /\ t \in Text /\ Len(t) = Len(u) - k /\ \A i \in 1 .. Len(u) - k : t[i] = u[k + i]
  /\ k = Len(u) \/ u[k + 1] \notin Separators
  /\ \A i \in 1 .. k : u[i] \in Separators

LEMMA RTrimOf == ASSUME NEW u \in Text PROVE \E k \in 0 .. Len(u) : EndTrimmed(u, RTrim(u), k)
<1> DEFINE R == {0} \union {i \in DOMAIN u : u[i] \notin Separators}
           k == Max(R)
<1>1. RTrim(u) = SubSeq(u, 1, k)
  BY DEF RTrim
<1>2. R \subseteq Nat /\ R # {} /\ Len(u) \in Nat /\ \A i \in R : i <= Len(u)
  BY DEF Text
<1>3. \A i \in R : i = 0 \/ u[i] \notin Separators
  OBVIOUS
<1>4. \A i \in 1 .. Len(u) : i \notin R => u[i] \in Separators
  BY DEF Text
<1> HIDE DEF R
<1>5. k \in R /\ \A i \in R : i <= k
  BY <1>2, MaxOf
<1> HIDE DEF k
<1>6. k \in 0 .. Len(u)
  BY <1>2, <1>5
<1>7. \A i \in k + 1 .. Len(u) : u[i] \in Separators
  <2>1. \A i \in k + 1 .. Len(u) : i \in 1 .. Len(u) /\ ~ (i <= k)
    BY <1>2, <1>6
  <2> QED BY <1>4, <1>5, <2>1
<1>8. RTrim(u) \in Text /\ Len(RTrim(u)) = k /\ \A i \in 1 .. k : RTrim(u)[i] = u[i]
  BY <1>1, <1>6, StartOf
<1> QED BY <1>3, <1>5, <1>6, <1>7, <1>8 DEF EndTrimmed

LEMMA LTrimOf == ASSUME NEW u \in Text PROVE \E k \in 0 .. Len(u) : StartTrimmed(u, LTrim(u), k)
<1> DEFINE L == {Len(u) + 1} \union {i \in DOMAIN u : u[i] \notin Separators}
           m == Min(L)
           k == m - 1
<1>1. LTrim(u) = SubSeq(u, m, Len(u))
  BY DEF LTrim
<1>2. L \subseteq 1 .. Len(u) + 1 /\ Len(u) + 1 \in L /\ Len(u) \in Nat
  BY DEF Text
<1>3. \A i \in L : i = Len(u) + 1 \/ u[i] \notin Separators
  OBVIOUS
<1>4. \A i \in 1 .. Len(u) : i \notin L => u[i] \in Separators
  BY DEF Text
<1> HIDE DEF L
<1>5. m \in L /\ \A i \in L : m <= i
  <2>1. L \subseteq Nat /\ L # {}
    BY <1>2
  <2> QED BY <2>1, MinOf
<1> HIDE DEF m
<1>6. k \in 0 .. Len(u) /\ k + 1 = m /\ m \in 1 .. Len(u) + 1
  BY <1>2, <1>5
<1>7. \A i \in 1 .. k : u[i] \in Separators
  <2>1. \A i \in 1 .. k : i \in 1 .. Len(u) /\ ~ (m <= i)
    BY <1>2, <1>6
  <2> QED BY <1>4, <1>5, <2>1
<1> HIDE DEF k
<1>8. LTrim(u) = SubSeq(u, k + 1, Len(u))
  BY <1>1, <1>6
<1>9. LTrim(u) \in Text /\ Len(LTrim(u)) = Len(u) - k /\ \A i \in 1 .. Len(u) - k : LTrim(u)[i] = u[k + i]
  BY <1>6, <1>8, RestOf
<1>10. k = Len(u) \/ u[k + 1] \notin Separators
  BY <1>2, <1>3, <1>5, <1>6
<1> QED BY <1>6, <1>7, <1>9, <1>10 DEF StartTrimmed

\* One element is replaced, by none.
DropAt(q, p, r, a, b, d) ==
  /\ Splice(q, r, a, b, d)
  /\ p \in a + 1 .. b
  /\ \A x \in Elements(q) : x \in a + 1 .. b => x = p
  /\ \A s \in Elements(r) : s \notin a + 1 .. b + d

\* The parts before and behind an element, without the separators next to it.
Rest(q, p, pre, suf, k, f) ==
  /\ pre \in Text /\ suf \in Text /\ k \in 0 .. p - 1 /\ f \in EndOf(q, p) .. Len(q)
  /\ Len(pre) = k /\ \A i \in 1 .. k : pre[i] = q[i]
  /\ Len(suf) = Len(q) - f /\ \A i \in 1 .. Len(q) - f : suf[i] = q[f + i]
  /\ k = 0 \/ q[k] \notin Separators
  /\ f = Len(q) \/ q[f + 1] \notin Separators
  /\ \A i \in k + 1 .. p - 1 : q[i] \in Separators
  /\ \A i \in EndOf(q, p) + 1 .. f : q[i] \in Separators

LEMMA RestFound ==
  ASSUME NEW q \in Text, NEW p \in Elements(q), NEW pre, NEW suf,
         pre = RTrim(SubSeq(q, 1, p - 1)), suf = LTrim(SubSeq(q, EndOf(q, p) + 1, Len(q)))
  PROVE  \E k, f : Rest(q, p, pre, suf, k, f)
<1> DEFINE e == EndOf(q, p)
           u == SubSeq(q, 1, p - 1)
           v == SubSeq(q, e + 1, Len(q))
<1>1. p \in 1 .. Len(q) /\ e \in p .. Len(q)
  BY EndOfElement
<1> HIDE DEF e
<1>2. /\ Len(q) \in Nat /\ p - 1 \in 0 .. Len(q) /\ e \in 0 .. Len(q) /\ p \in Int /\ e \in Int /\ 1 <= p /\ p <= e
      /\ e <= Len(q)
  BY <1>1 DEF Text
<1>3. u \in Text /\ Len(u) = p - 1 /\ \A i \in 1 .. p - 1 : u[i] = q[i]
  BY <1>2, StartOf
<1>4. v \in Text /\ Len(v) = Len(q) - e /\ \A i \in 1 .. Len(q) - e : v[i] = q[e + i]
  BY <1>2, RestOf
<1>5. pre = RTrim(u) /\ suf = LTrim(v)
  BY DEF e
<1> HIDE DEF u, v
<1>6. PICK k \in 0 .. Len(u) : EndTrimmed(u, pre, k)
  BY <1>3, <1>5, RTrimOf
<1>7. /\ k \in 0 .. Len(u) /\ pre \in Text /\ Len(pre) = k /\ \A i \in 1 .. k : pre[i] = u[i]
      /\ k = 0 \/ u[k] \notin Separators
      /\ \A i \in k + 1 .. Len(u) : u[i] \in Separators
  BY <1>6 DEF EndTrimmed
<1>8. PICK g \in 0 .. Len(v) : StartTrimmed(v, suf, g)
  BY <1>4, <1>5, LTrimOf
<1>9. /\ g \in 0 .. Len(v) /\ suf \in Text /\ Len(suf) = Len(v) - g /\ \A i \in 1 .. Len(v) - g : suf[i] = v[g + i]
      /\ g = Len(v) \/ v[g + 1] \notin Separators
      /\ \A i \in 1 .. g : v[i] \in Separators
  BY <1>8 DEF StartTrimmed
<1> DEFINE f == e + g
<1>10. k \in 0 .. p - 1 /\ f \in e .. Len(q) /\ k \in Int /\ f \in Int /\ g \in Int
  BY <1>2, <1>3, <1>4
<1>11. Len(pre) = k /\ \A i \in 1 .. k : pre[i] = q[i]
  <2>1. \A i \in 1 .. k : i \in 1 .. p - 1
    BY <1>2, <1>10
  <2> QED BY <1>3, <1>7, <2>1
<1>12. Len(suf) = Len(q) - f /\ \A i \in 1 .. Len(q) - f : suf[i] = q[f + i]
  <2>1. Len(v) - g = Len(q) - f /\ \A i \in 1 .. Len(q) - f : g + i \in 1 .. Len(q) - e /\ e + (g + i) = f + i
    BY <1>2, <1>4, <1>10
  <2> HIDE DEF f
  <2> QED BY <1>4, <1>9, <2>1
<1>13. k = 0 \/ q[k] \notin Separators
  <2>1. k # 0 => k \in 1 .. p - 1
    BY <1>2, <1>10
  <2> QED BY <1>3, <1>7, <2>1
<1>14. f = Len(q) \/ q[f + 1] \notin Separators
  <2>1. g \in 0 .. Len(v) /\ Len(v) = Len(q) - e
    BY <1>4, <1>9
  <2>2. g # Len(v) => g + 1 \in 1 .. Len(q) - e /\ e + (g + 1) = f + 1
    BY <1>2, <2>1
  <2>3. g = Len(v) => f = Len(q)
    BY <1>2, <1>4
  <2> HIDE DEF f
  <2> QED BY <1>4, <1>9, <2>2, <2>3
<1>15. \A i \in k + 1 .. p - 1 : q[i] \in Separators
  <2>1. \A i \in k + 1 .. p - 1 : i \in 1 .. p - 1 /\ i \in k + 1 .. Len(u)
    BY <1>2, <1>3, <1>10
  <2> QED BY <1>3, <1>7, <2>1
<1>16. \A i \in e + 1 .. f : q[i] \in Separators
  <2>1. \A i \in e + 1 .. f : i - e \in 1 .. g /\ i - e \in 1 .. Len(q) - e /\ e + (i - e) = i
    BY <1>2, <1>4, <1>10
  <2> QED BY <1>4, <1>9, <2>1
<1> HIDE DEF f
<1>17. Rest(q, p, pre, suf, k, f)
  BY <1>7, <1>9, <1>10, <1>11, <1>12, <1>13, <1>14, <1>15, <1>16 DEF Rest, e
<1> QED BY <1>17

LEMMA DropSpliced ==
  ASSUME NEW q \in Text, NEW p \in Elements(q)
  PROVE  DropPair(q, p) \in Text /\ \E a, b, d : DropAt(q, p, DropPair(q, p), a, b, d)
<1> DEFINE pre == RTrim(SubSeq(q, 1, p - 1))
           suf == LTrim(SubSeq(q, EndOf(q, p) + 1, Len(q)))
           mid == IF pre # <<>> /\ suf # <<>> THEN <<"&">> ELSE <<>>
           r == pre \o mid \o suf
           e == EndOf(q, p)
<1>1. DropPair(q, p) = r
  BY DEF DropPair
<1>2. PICK k, f : Rest(q, p, pre, suf, k, f)
  BY RestFound
<1> HIDE DEF pre, suf
<1>3. /\ pre \in Text /\ suf \in Text /\ k \in 0 .. p - 1 /\ f \in e .. Len(q)
      /\ Len(pre) = k /\ \A i \in 1 .. k : pre[i] = q[i]
      /\ Len(suf) = Len(q) - f /\ \A i \in 1 .. Len(q) - f : suf[i] = q[f + i]
      /\ k = 0 \/ q[k] \notin Separators
      /\ f = Len(q) \/ q[f + 1] \notin Separators
      /\ \A i \in k + 1 .. p - 1 : q[i] \in Separators
      /\ \A i \in e + 1 .. f : q[i] \in Separators
  BY <1>2 DEF Rest
<1>4. /\ p \in 1 .. Len(q) /\ q[p] \notin Separators /\ e \in p .. Len(q)
      /\ \A i \in p .. e : q[i] \notin Separators
      /\ e < Len(q) => q[e + 1] \in Separators
      /\ p = 1 \/ q[p - 1] \in Separators
  BY EndOfElement DEF Elements
<1> HIDE DEF e
<1>5. /\ Len(q) \in Nat /\ p \in Int /\ e \in Int /\ k \in Nat /\ f \in Nat /\ 1 <= p /\ p <= e /\ e <= f /\ f <= Len(q)
      /\ k <= p - 1 /\ f \in 0 .. Len(q)
  BY <1>3, <1>4 DEF Text
<1>6. pre # <<>> <=> k # 0
  BY <1>3 DEF Text
<1>7. suf # <<>> <=> f # Len(q)
  <2>1. suf # <<>> <=> Len(suf) # 0
    BY <1>3 DEF Text
  <2> QED BY <1>3, <1>5, <2>1
<1>8. /\ mid \in Text /\ (k = 0 \/ f = Len(q) => Len(mid) = 0)
      /\ (k # 0 /\ f # Len(q) => Len(mid) = 1 /\ mid[1] \in Separators)
  <2>1. <<"&">> \in Text /\ <<>> \in Text /\ Len(<<"&">>) = 1 /\ Len(<<>>) = 0 /\ <<"&">>[1] \in Separators
    BY TokenTexts DEF Separators, Text, Token
  <2> QED BY <1>6, <1>7, <2>1
<1> HIDE DEF mid
<1>9. r \in Text /\ Replaced(q, k, f, mid, r)
  <2>1. \A i \in 1 .. Len(pre) : pre[i] = q[i]
    BY <1>3
  <2>2. Len(suf) = Len(q) - f /\ \A i \in 1 .. Len(suf) : suf[i] = q[f + i]
    BY <1>3
  <2>3. pre \o mid \o suf \in Text /\ Replaced(q, Len(pre), f, mid, pre \o mid \o suf)
    BY <1>3, <1>5, <1>8, <2>1, <2>2, ReplacedBy
  <2> QED BY <1>3, <2>3
<1> HIDE DEF r
<1>10. /\ Len(r) = k + Len(mid) + (Len(q) - f)
       /\ \A i \in 1 .. k : r[i] = q[i]
       /\ \A i \in 1 .. Len(mid) : r[k + i] = mid[i]
       /\ \A i \in 1 .. Len(q) - f : r[k + Len(mid) + i] = q[f + i]
  BY <1>9 DEF Replaced
<1> DEFINE L == Len(mid)
           d == k + L - f
<1>11. L \in {0, 1}
  BY <1>8
<1>12. k = 0 \/ L = 1 \/ (L = 0 /\ f = Len(q))
  BY <1>8
<1>13. f = Len(q) \/ k = 0 \/ r[k + 1] \in Separators
  BY <1>8, <1>10
<1>14. k = 0 \/ f = Len(q) => L = 0
  BY <1>8
<1>15. Len(r) = k + L + (Len(q) - f)
  BY <1>10
<1>16. \A i \in 1 .. Len(q) - f : r[k + L + i] = q[f + i]
  BY <1>10
<1>17. \A i \in 1 .. L : r[k + i] \in Separators
  <2>1. L # 0 => k # 0 /\ f # Len(q) /\ L = 1
    BY <1>11, <1>14
  <2>2. \A n \in {0, 1} : \A i \in 1 .. n : i = 1 /\ n # 0
    OBVIOUS
  <2>3. \A i \in 1 .. L : i = 1 /\ L # 0
    <3> HIDE DEF L
    <3> QED BY <1>11, <2>2
  <2> QED BY <1>13, <2>1, <2>3
<1> HIDE DEF L
<1>18. Splice(q, r, k, f, d)
  <2>1. k <= f /\ d \in Int /\ k <= f + d /\ Len(r) = Len(q) + d /\ f + d = k + L
    BY <1>5, <1>11, <1>15
  <2>2. \A i \in f + 1 .. Len(q) : r[i + d] = q[i]
    <3>1. \A i \in f + 1 .. Len(q) : i - f \in 1 .. Len(q) - f /\ k + L + (i - f) = i + d /\ f + (i - f) = i
      BY <1>5, <1>11
    <3> HIDE DEF d
    <3> QED BY <1>16, <3>1
  <2>3. LowEdge(q, r, k)
    <3>1. q[k + 1] \in Separators \/ k = 0
      <4>1. CASE k = p - 1
        BY <1>3, <1>4, <1>5, <4>1
      <4>2. CASE k # p - 1
        <5>1. k + 1 \in k + 1 .. p - 1
          BY <1>5, <4>2
        <5> QED BY <1>3, <5>1
      <4> QED BY <4>1, <4>2
    <3>2. k = Len(r) \/ r[k + 1] \in Separators \/ k = 0
      <4>1. f = Len(q) => k = Len(r)
        BY <1>5, <1>14, <1>15
      <4> QED BY <1>13, <4>1
    <3> QED BY <3>1, <3>2 DEF LowEdge
  <2>4. HighEdge(q, r, f, d)
    <3>1. CASE f = Len(q)
      BY <3>1 DEF HighEdge
    <3>2. CASE f # Len(q)
      <4>1. q[f] \in Separators
        <5>1. CASE f = e
          <6>1. e < Len(q)
            BY <1>5, <3>2, <5>1
          <6> QED BY <1>3, <1>4, <3>2, <5>1, <6>1
        <5>2. CASE f # e
          <6>1. f \in e + 1 .. f
            BY <1>5, <5>2
          <6> QED BY <1>3, <6>1
        <5> QED BY <5>1, <5>2
      <4>2. f + d = 0 \/ r[f + d] \in Separators
        <5>1. CASE k = 0
          BY <1>14, <2>1, <5>1
        <5>2. CASE k # 0
          <6>1. L = 1 /\ f + d = k + 1
            BY <1>12, <2>1, <3>2, <5>2
          <6> HIDE DEF d
          <6> QED BY <1>13, <3>2, <5>2, <6>1
        <5> QED BY <5>1, <5>2
      <4> QED BY <4>1, <4>2 DEF HighEdge
    <3> QED BY <3>1, <3>2
  <2> HIDE DEF d
  <2> QED BY <1>5, <1>10, <2>1, <2>2, <2>3, <2>4 DEF Splice
<1>19. p \in k + 1 .. f
  BY <1>5
<1>20. ASSUME NEW x \in Elements(q), x \in k + 1 .. f
       PROVE  x = p
  <2>1. q[x] \notin Separators /\ (x = 1 \/ q[x - 1] \in Separators)
    BY DEF Elements
  <2>2. x \notin k + 1 .. p - 1 /\ x \notin e + 1 .. f
    BY <1>3, <2>1
  <2>3. x \in p .. e
    BY <1>5, <1>20, <2>2
  <2>4. x > p => x - 1 \in p .. e /\ x # 1
    BY <1>5, <2>3
  <2>5. ~ (x > p)
    BY <1>4, <2>1, <2>4
  <2> QED BY <1>5, <2>3, <2>5
<1>21. ASSUME NEW s \in Elements(r)
       PROVE  s \notin k + 1 .. f + d
  <2>1. r[s] \notin Separators
    BY DEF Elements
  <2>2. f + d = k + L
    BY <1>5, <1>11
  <2>3. \A j \in k + 1 .. k + L : j - k \in 1 .. L /\ k + (j - k) = j
    BY <1>5, <1>11
  <2>4. \A j \in k + 1 .. k + L : r[j] \in Separators
    BY <1>17, <2>3
  <2> HIDE DEF d
  <2> QED BY <2>1, <2>2, <2>4
<1> HIDE DEF d
<1>22. DropAt(q, p, r, k, f, d)
  BY <1>18, <1>19, <1>20, <1>21 DEF DropAt
<1> QED BY <1>1, <1>9, <1>22

-----------------------------------------------------------------------------
(* query_value_update, and what the extractor of values finds after it.    *)

\* An element of the name is put where only elements of the name have been, and none of
\* them is before it.
Puts(q, r, a, b, d, t, name) ==
  /\ Splice(q, r, a, b, d)
  /\ \A x \in Elements(q) : x \in a + 1 .. b => x \in Matching(q, name)
  /\ \A p \in Matching(q, name) : p > a
  /\ t \in Matching(r, name) /\ t \in a + 1 .. b + d
  /\ \A s \in Elements(r) : s \in a + 1 .. b + d => s = t

LEMMA PutFirst ==
  ASSUME NEW q \in Text, NEW r \in Text, NEW a, NEW b, NEW d, NEW t, NEW name, Puts(q, r, a, b, d, t, name)
  PROVE  FindName(r, name, TRUE) = t
<1> DEFINE m == -d
<1>1. /\ Splice(q, r, a, b, d) /\ \A p \in Matching(q, name) : p > a
      /\ t \in Matching(r, name) /\ t \in a + 1 .. b + d
      /\ \A s \in Elements(r) : s \in a + 1 .. b + d => s = t
  BY DEF Puts
<1>2. m = -d /\ a \in Nat /\ b \in Nat /\ d \in Int /\ Len(r) \in Nat
  BY <1>1 DEF Splice, Text
<1> HIDE DEF m
<1>3. Matching(r, name) \subseteq Elements(r) /\ Elements(r) \subseteq Int
  BY DEF Elements, Text, Matching
<1>4. ASSUME NEW s \in Matching(r, name)
      PROVE  t <= s
  <2>1. CASE s \in a + 1 .. b + d
    BY <1>1, <1>2, <1>3, <2>1
  <2>2. CASE s \notin a + 1 .. b + d
    <3>1. SameElement(r, s, q, MovedTo(a, m, s))
      BY <1>1, <1>2, <1>3, <2>2, MovedBack
    <3>2. q[MovedTo(a, m, s)] = r[s] /\ MovedTo(a, m, s) \in Elements(q)
      BY <3>1, SameValue DEF SameElement
    <3>3. MovedTo(a, m, s) \in Matching(q, name)
      <4> HIDE DEF MovedTo
      <4> QED BY <3>2 DEF Matching
    <3>4. MovedTo(a, m, s) > a
      BY <1>1, <3>3
    <3>5. ~ (s <= a)
      BY <1>2, <1>3, <3>4 DEF MovedTo
    <3> QED BY <1>1, <1>2, <1>3, <2>2, <3>5
  <2> QED BY <2>1, <2>2
<1> QED BY <1>1, <1>4, FirstFound

LEMMA PutElsewhere ==
  ASSUME NEW q \in Text, NEW r \in Text, NEW a, NEW b, NEW d, NEW t, NEW name, Puts(q, r, a, b, d, t, name),
         NEW n, NoCase(n) # NoCase(name)
  PROVE  query_value(r, n) = query_value(q, n)
<1>1. Matching(q, n) \intersect Matching(q, name) = {} /\ Matching(r, n) \intersect Matching(r, name) = {}
  BY DEF Matching
<1>2. Matching(q, n) \subseteq Elements(q) /\ Matching(r, n) \subseteq Elements(r)
  BY DEF Matching
<1>3. Apart(q, r, a, b, d, n)
  BY <1>1, <1>2 DEF Apart, Puts
<1> QED BY <1>3, OtherValue

\* The value of an element is what is behind the "=".
LEMMA ReadText ==
  ASSUME NEW r \in Text, NEW t \in Elements(r), NEW text \in Text, EndOf(r, t) = t + 1 + Len(text),
         \A i \in 1 .. Len(text) : r[t + 1 + i] = text[i]
  PROVE  HasEqual(r, t) /\ ValueAt(r, t) = text
<1> DEFINE e == EndOf(r, t)
           v == SubSeq(r, t + 2, e)
<1>1. t \in 1 .. Len(r) /\ e \in t .. Len(r)
  BY EndOfElement
<1>2. /\ Len(r) \in Nat /\ Len(text) \in Nat /\ t \in Int /\ 1 <= t /\ e \in Int /\ e = t + 1 + Len(text)
      /\ t + 2 \in Nat \ {0} /\ e \in 0 .. Len(r)
  BY <1>1 DEF Text
<1> HIDE DEF e
<1>3. /\ v \in Text /\ Len(v) = (IF t + 2 <= e THEN e - (t + 2) + 1 ELSE 0)
      /\ \A i \in 1 .. e - (t + 2) + 1 : v[i] = r[t + 2 + i - 1]
  BY <1>2, SubText
<1> HIDE DEF v
<1>4. /\ e - (t + 2) + 1 = Len(text) /\ (IF t + 2 <= e THEN e - (t + 2) + 1 ELSE 0) = Len(text)
      /\ \A i \in 1 .. Len(text) : t + 2 + i - 1 = t + 1 + i
  BY <1>2
<1>5. Len(v) = Len(text) /\ \A i \in 1 .. Len(text) : v[i] = text[i]
  BY <1>3, <1>4
<1>6. v = text
  <2>1. v \in Seq(Token) /\ text \in Seq(Token)
    BY <1>3 DEF Text
  <2> QED BY <1>5, <2>1
<1>7. t < e
  BY <1>2
<1> QED BY <1>6, <1>7 DEF HasEqual, ValueAt, e, v

\* What a query must be after a value was set.
ValueIn(q, r, name, v) ==
  /\ query_value(r, name) \in {v, IF v = Str(<<>>) THEN NIL_FEATURE ELSE v}
  /\ \A n : NoCase(n) # NoCase(name) => query_value(r, n) = query_value(q, n)

PlainText(text) == text \in Text /\ \A i \in 1 .. Len(text) : text[i] \notin Separators

LEMMA PairSet ==
  ASSUME NEW q \in Text, NEW name, FindName(q, name, TRUE) # 0, NEW text, PlainText(text)
  PROVE  ValueIn(q, SetPair(q, FindName(q, name, TRUE), Str(text)), name, Str(text))
<1> DEFINE p == FindName(q, name, TRUE)
           v == Str(text)
           e == EndOf(q, p)
           mid == IF (HasEqual(q, p) /\ ValueAt(q, p) = <<>>) \/ v # Str(<<>>) THEN <<"=">> \o text ELSE <<>>
           r == SetPair(q, p, v)
<1>1. p \in Matching(q, name) /\ p \in Elements(q) /\ NoCase(q[p]) = NoCase(name)
      /\ \A x \in Matching(q, name) : p <= x
  <2>1. p \in Matching(q, name) /\ \A x \in Matching(q, name) : p <= x
    BY FoundFirst
  <2> QED BY <2>1 DEF Matching
<1>2. Format(v) = text
  BY DEF Format, Scalar, Str, Is, Type, Val, is_nil
<1>3. r = SubSeq(q, 1, p) \o mid \o SubSeq(q, e + 1, Len(q))
  BY <1>2 DEF SetPair
<1> HIDE DEF p, r
<1>4. p \in 1 .. Len(q) /\ e \in p .. Len(q) /\ Len(q) \in Nat
  BY <1>1, EndOfElement DEF Text
<1> HIDE DEF e
<1>5. /\ <<"=">> \o text \in Text /\ Len(<<"=">> \o text) = 1 + Len(text)
      /\ (<<"=">> \o text)[1] = "=" /\ \A i \in 1 .. Len(text) : (<<"=">> \o text)[1 + i] = text[i]
  <2>1. text \in Text /\ <<"=">> \in Text /\ text \in Seq(Token) /\ <<"=">> \in Seq(Token) /\ Len(<<"=">>) = 1
    BY TokenTexts DEF PlainText, Text
  <2>2. /\ <<"=">> \o text \in Seq(Token) /\ Len(<<"=">> \o text) = Len(<<"=">>) + Len(text)
        /\ \A i \in 1 .. Len(<<"=">>) + Len(text) :
             (<<"=">> \o text)[i] = IF i <= Len(<<"=">>) THEN <<"=">>[i] ELSE text[i - Len(<<"=">>)]
    BY <2>1, ConcatProperties
  <2> DEFINE w == <<"=">> \o text
  <2> HIDE DEF w
  <2>3. w \in Seq(Token) /\ Len(w) = 1 + Len(text)
        /\ \A i \in 1 .. 1 + Len(text) : w[i] = IF i <= 1 THEN <<"=">>[i] ELSE text[i - 1]
    BY <2>1, <2>2 DEF w
  <2>4. Len(text) \in Nat /\ <<"=">>[1] = "="
    BY <2>1
  <2>5. \A i \in 1 .. Len(text) : 1 + i \in 1 .. 1 + Len(text) /\ ~ (1 + i <= 1) /\ (1 + i) - 1 = i
    BY <2>4
  <2>6. 1 \in 1 .. 1 + Len(text)
    BY <2>4
  <2>7. w \in Text /\ w[1] = "=" /\ \A i \in 1 .. Len(text) : w[1 + i] = text[i]
    BY <2>3, <2>4, <2>5, <2>6 DEF Text
  <2> QED BY <2>3, <2>7 DEF w
<1>6. mid = <<>> \/ mid = <<"=">> \o text
  OBVIOUS
<1>7. mid # <<"=">> \o text => v = Str(<<>>)
  OBVIOUS
<1>8. mid \in Text /\ \A i \in 1 .. Len(mid) : mid[i] \notin Separators
  <2> HIDE DEF mid
  <2>1. CASE mid = <<>>
    <3>1. Len(<<>>) = 0 /\ \A i \in 1 .. 0 : FALSE
      OBVIOUS
    <3> QED BY <2>1, <3>1, TokenTexts
  <2>2. CASE mid = <<"=">> \o text
    <3>1. Len(text) \in Nat
      BY DEF PlainText, Text
    <3>2. "=" \notin Separators /\ Len(text) \in Nat
      BY <3>1 DEF Separators
    <3>3. \A i \in 1 .. 1 + Len(text) : i = 1 \/ (i - 1 \in 1 .. Len(text) /\ 1 + (i - 1) = i)
      BY <3>2
    <3>4. \A i \in 1 .. 1 + Len(text) : (<<"=">> \o text)[i] \notin Separators
      BY <1>5, <3>2, <3>3 DEF PlainText
    <3> QED BY <1>5, <2>2, <3>4
  <2> QED BY <1>6, <2>1, <2>2
<1> HIDE DEF mid, v
<1>9. r \in Text /\ Replaced(q, p, e, mid, r)
  <2> DEFINE x == SubSeq(q, 1, p)
             z == SubSeq(q, e + 1, Len(q))
  <2>1. p \in 0 .. Len(q) /\ e \in 0 .. Len(q)
    BY <1>4
  <2>2. x \in Text /\ Len(x) = p /\ \A i \in 1 .. p : x[i] = q[i]
    BY <2>1, StartOf
  <2>3. z \in Text /\ Len(z) = Len(q) - e /\ \A i \in 1 .. Len(q) - e : z[i] = q[e + i]
    BY <2>1, RestOf
  <2>4. r = x \o mid \o z
    BY <1>3
  <2> HIDE DEF x, z
  <2>5. (\A i \in 1 .. Len(x) : x[i] = q[i]) /\ (\A i \in 1 .. Len(z) : z[i] = q[e + i])
    BY <2>2, <2>3
  <2>6. x \o mid \o z \in Text /\ Replaced(q, Len(x), e, mid, x \o mid \o z)
    BY <1>8, <2>1, <2>2, <2>3, <2>5, ReplacedBy
  <2> QED BY <2>2, <2>4, <2>6
<1>10. SetAt(q, p, mid, r)
  BY <1>1, <1>8, <1>9, SetSpliced DEF e
<1> DEFINE a == p - 1
           d == Len(mid) - (e - p)
<1>11. /\ Splice(q, r, a, e, d)
       /\ \A x \in Elements(q) : x \in p .. e => x = p
       /\ \A s \in Elements(r) : s \in p .. p + Len(mid) => s = p
       /\ p \in Elements(r) /\ EndOf(r, p) = p + Len(mid) /\ r[p] = q[p]
       /\ \A i \in 1 .. Len(mid) : r[p + i] = mid[i]
  BY <1>10 DEF SetAt, e
<1>12. Len(mid) \in Nat /\ p \in Int /\ e \in Int /\ a + 1 = p /\ e + d = p + Len(mid) /\ p \in p .. p + Len(mid)
  BY <1>4, <1>8 DEF Text
<1>13. Matching(q, name) \subseteq Int
  BY DEF Matching, Elements, Text
<1>14. Puts(q, r, a, e, d, p, name)
  <2>1. \A x \in Elements(q) : x \in a + 1 .. e => x \in Matching(q, name)
    BY <1>1, <1>11, <1>12
  <2>2. \A x \in Matching(q, name) : x > a
    BY <1>1, <1>12, <1>13
  <2>3. p \in Matching(r, name)
    BY <1>1, <1>11 DEF Matching
  <2>4. p \in a + 1 .. e + d /\ \A s \in Elements(r) : s \in a + 1 .. e + d => s = p
    BY <1>11, <1>12
  <2> HIDE DEF a, d
  <2> QED BY <1>11, <2>1, <2>2, <2>3, <2>4 DEF Puts
<1>15. /\ FindName(r, name, TRUE) = p
       /\ \A n : NoCase(n) # NoCase(name) => query_value(r, n) = query_value(q, n)
  <2> HIDE DEF a, d
  <2>1. r \in Text
    BY <1>9
  <2>2. FindName(r, name, TRUE) = p
    BY <1>14, <2>1, PutFirst
  <2>3. \A n : NoCase(n) # NoCase(name) => query_value(r, n) = query_value(q, n)
    BY <1>14, <2>1, PutElsewhere
  <2> QED BY <2>2, <2>3
<1>16. query_value(r, name) \in {v, IF v = Str(<<>>) THEN NIL_FEATURE ELSE v}
  <2>1. p # 0
    BY <1>4
  <2>2. CASE mid = <<>>
    <3>1. v = Str(<<>>)
      <4>1. <<"=">> \o text # <<>>
        BY <1>5 DEF PlainText, Text
      <4> QED BY <1>7, <2>2, <4>1 DEF mid
    <3>2. ~ HasEqual(r, p)
      BY <1>11, <1>12, <2>2 DEF HasEqual
    <3>3. query_value(r, name) = NIL_FEATURE
      BY <1>15, <2>1, <3>2 DEF query_value
    <3> QED BY <3>1, <3>3
  <2>3. CASE mid = <<"=">> \o text
    <3>1. Len(mid) = 1 + Len(text) /\ Len(text) \in Nat
      BY <1>5, <2>3 DEF PlainText, Text
    <3>2. EndOf(r, p) = p + 1 + Len(text)
      BY <1>11, <1>12, <3>1
    <3>3. \A i \in 1 .. Len(text) : r[p + 1 + i] = text[i]
      <4>1. \A i \in 1 .. Len(text) : 1 + i \in 1 .. Len(mid) /\ p + (1 + i) = p + 1 + i
        BY <1>12, <3>1
      <4>2. \A i \in 1 .. Len(text) : mid[1 + i] = text[i]
        BY <1>5, <2>3
      <4> QED BY <1>11, <4>1, <4>2
    <3>4. HasEqual(r, p) /\ ValueAt(r, p) = text
      BY <1>9, <1>11, <3>2, <3>3, ReadText DEF PlainText
    <3>5. query_value(r, name) = Str(text)
      BY <1>15, <2>1, <3>4 DEF query_value
    <3> QED BY <3>5 DEF v
  <2> QED BY <1>6, <2>2, <2>3
<1> QED BY <1>15, <1>16 DEF ValueIn, p, r, v

\* The new element at the end of a query.
Added(q, r, t, name, text) ==
  /\ Len(r) = t + 1 + Len(text) /\ t \in {Len(q) + 1, Len(q) + 2}
  /\ \A i \in 1 .. Len(q) : r[i] = q[i]
  /\ t = Len(q) + 1 => q = <<>>
  /\ t = Len(q) + 2 => r[t - 1] \in Separators
  /\ r[t] = name /\ r[t + 1] = "=" /\ \A i \in 1 .. Len(text) : r[t + 1 + i] = text[i]

LEMMA AddedTo ==
  ASSUME NEW q \in Text, NEW name \in Token, NEW text \in Text
  PROVE  /\ q \o <<"&", name, "=">> \o text \in Text
         /\ Added(q, q \o <<"&", name, "=">> \o text, Len(q) + 2, name, text)
         /\ q = <<>> => <<name, "=">> \o text \in Text /\ Added(q, <<name, "=">> \o text, Len(q) + 1, name, text)
<1>1. "&" \in Token /\ "=" \in Token /\ "&" \in Separators
  BY DEF Token, Separators
<1>2. Len(q) \in Nat /\ Len(text) \in Nat
  BY DEF Text
<1> DEFINE y == <<"&", name, "=">>
           r == q \o y \o text
<1>3. y \in Text /\ Len(y) = 3 /\ y[1] = "&" /\ y[2] = name /\ y[3] = "="
  BY <1>1 DEF Text
<1>4. r \in Text /\ Parts(q, y, text, r)
  BY <1>3, ThreeParts
<1> HIDE DEF y, r
<1>5. /\ Len(r) = Len(q) + 3 + Len(text)
      /\ \A i \in 1 .. Len(q) : r[i] = q[i]
      /\ \A i \in 1 .. 3 : r[Len(q) + i] = y[i]
      /\ \A i \in 1 .. Len(text) : r[Len(q) + 3 + i] = text[i]
  BY <1>3, <1>4 DEF Parts
<1>6. Added(q, r, Len(q) + 2, name, text)
  <2> DEFINE t == Len(q) + 2
  <2>1. t - 1 = Len(q) + 1 /\ t + 1 = Len(q) + 3 /\ t \in {Len(q) + 1, t} /\ t # Len(q) + 1
    BY <1>2
  <2>2. r[Len(q) + 1] = "&" /\ r[Len(q) + 2] = name /\ r[Len(q) + 3] = "="
    BY <1>3, <1>5
  <2>3. Len(r) = t + 1 + Len(text) /\ \A i \in 1 .. Len(text) : t + 1 + i = Len(q) + 3 + i
    BY <1>2, <1>5
  <2>4. \A i \in 1 .. Len(text) : r[t + 1 + i] = text[i]
    BY <1>5, <2>3
  <2>5. r[t - 1] \in Separators /\ r[t] = name /\ r[t + 1] = "="
    BY <1>1, <2>1, <2>2
  <2> QED BY <1>5, <2>1, <2>3, <2>4, <2>5 DEF Added
<1>7. ASSUME q = <<>>
      PROVE  <<name, "=">> \o text \in Text /\ Added(q, <<name, "=">> \o text, Len(q) + 1, name, text)
  <2> DEFINE z == <<name, "=">>
             s == z \o <<>> \o text
             u == z \o text
  <2>1. z \in Text /\ Len(z) = 2 /\ z[1] = name /\ z[2] = "=" 
    BY <1>1 DEF Text
  <2>2. <<>> \in Text /\ Len(<<>>) = 0
    BY TokenTexts
  <2> HIDE DEF z
  <2>3. s \in Text /\ Parts(z, <<>>, text, s)
    BY <2>2, <2>1, ThreeParts
  <2>4. z \o <<>> = z
    BY <2>1, ConcatEmptySeq DEF Text
  <2>5. s = u
    BY <2>4
  <2> HIDE DEF s, u
  <2>6. /\ Len(u) = 2 + Len(text) /\ \A i \in 1 .. 2 : u[i] = z[i]
        /\ \A i \in 1 .. Len(text) : u[2 + i] = text[i]
    <3>1. /\ Len(u) = Len(z) + Len(<<>>) + Len(text) /\ \A i \in 1 .. Len(z) : u[i] = z[i]
          /\ \A i \in 1 .. Len(text) : u[Len(z) + Len(<<>>) + i] = text[i]
      BY <2>3, <2>5 DEF Parts
    <3>2. Len(z) + Len(<<>>) = 2
      BY <2>2, <2>1
    <3> QED BY <2>2, <2>1, <3>1, <3>2
  <2>7. u[1] = name /\ u[2] = "="
    BY <2>1, <2>6
  <2>8. Len(q) = 0 /\ \A i \in 1 .. Len(q) : u[i] = q[i]
    BY <1>7
  <2>9. Added(q, u, 1, name, text)
    BY <1>7, <2>6, <2>7, <2>8 DEF Added
  <2> QED BY <2>3, <2>5, <2>8, <2>9 DEF u, z
<1> QED BY <1>4, <1>6, <1>7 DEF r, y

LEMMA PairAdded ==
  ASSUME NEW q \in Text, NEW name \in Token, name \notin Separators, FindName(q, name, TRUE) = 0,
         NEW text, PlainText(text), NEW r \in Text, NEW t, Added(q, r, t, name, text)
  PROVE  ValueIn(q, r, name, Str(text))
<1> DEFINE a == Len(q)
           d == Len(r) - Len(q)
<1>1. /\ Len(r) = t + 1 + Len(text) /\ t \in {Len(q) + 1, Len(q) + 2}
      /\ \A i \in 1 .. Len(q) : r[i] = q[i]
      /\ t = Len(q) + 1 => q = <<>>
      /\ t = Len(q) + 2 => r[t - 1] \in Separators
      /\ r[t] = name /\ r[t + 1] = "=" /\ \A i \in 1 .. Len(text) : r[t + 1 + i] = text[i]
  BY DEF Added
<1>2. Len(q) \in Nat /\ Len(text) \in Nat /\ t \in Nat /\ t > Len(q) /\ text \in Text /\ Len(r) \in Nat
  BY <1>1 DEF Text, PlainText
<1>3. \A j \in t .. Len(r) : r[j] \notin Separators
  <2>1. "=" \notin Separators
    BY DEF Separators
  <2>2. \A j \in t .. Len(r) : j = t \/ j = t + 1 \/ (j - (t + 1) \in 1 .. Len(text) /\ t + 1 + (j - (t + 1)) = j)
    BY <1>1, <1>2
  <2>3. \A i \in 1 .. Len(text) : r[t + 1 + i] \notin Separators
    BY <1>1 DEF PlainText
  <2> SUFFICES ASSUME NEW j \in t .. Len(r) PROVE r[j] \notin Separators
    OBVIOUS
  <2>4. CASE j = t \/ j = t + 1
    BY <1>1, <2>1, <2>4
  <2>5. CASE j - (t + 1) \in 1 .. Len(text) /\ t + 1 + (j - (t + 1)) = j
    <3>1. r[t + 1 + (j - (t + 1))] \notin Separators
      BY <2>3, <2>5
    <3> QED BY <2>5, <3>1
  <2> QED BY <2>2, <2>4, <2>5
<1>4. t = 1 \/ r[t - 1] \in Separators
  <2>1. q = <<>> => Len(q) = 0
    OBVIOUS
  <2> QED BY <1>1, <2>1
<1>5. t \in Elements(r)
  <2>1. t \in 1 .. Len(r) /\ t \in t .. Len(r)
    BY <1>1, <1>2
  <2> QED BY <1>3, <1>4, <2>1 DEF Elements, Text
<1>6. EndOf(r, t) = t + 1 + Len(text)
  <2>1. Len(r) \in t .. Len(r)
    BY <1>1, <1>2
  <2>2. EndOf(r, t) = Len(r)
    BY <1>3, <1>5, <2>1, EndIs
  <2> QED BY <1>1, <2>2
<1>7. Splice(q, r, a, a, d)
  <2>1. a \in Nat /\ d \in Int /\ a <= a /\ a <= Len(q) /\ a <= a + d /\ Len(r) = Len(q) + d
    BY <1>1, <1>2
  <2>2. \A i \in a + 1 .. Len(q) : r[i + d] = q[i]
    BY <1>2
  <2>3. LowEdge(q, r, a)
    <3>1. CASE t = Len(q) + 1
      BY <1>1, <3>1 DEF LowEdge
    <3>2. CASE t = Len(q) + 2
      <4>1. t - 1 = a + 1
        BY <1>2, <3>2
      <4> QED BY <1>1, <3>2, <4>1 DEF LowEdge
    <3> QED BY <1>1, <3>1, <3>2
  <2>4. HighEdge(q, r, a, d)
    BY DEF HighEdge
  <2> QED BY <1>1, <2>1, <2>2, <2>3, <2>4 DEF Splice
<1>8. a + d = Len(r) /\ t \in a + 1 .. Len(r)
  BY <1>1, <1>2
<1>9. ASSUME NEW s \in Elements(r), s \in a + 1 .. Len(r)
      PROVE  s = t
  <2>1. r[s] \notin Separators /\ (s = 1 \/ r[s - 1] \in Separators)
    BY DEF Elements
  <2>2. s < t => s = t - 1 /\ t = Len(q) + 2
    BY <1>1, <1>2, <1>9
  <2>3. ~ (s < t)
    BY <1>1, <2>1, <2>2
  <2>4. s > t => s - 1 \in t .. Len(r) /\ s # 1
    BY <1>2, <1>9
  <2>5. ~ (s > t)
    BY <1>3, <2>1, <2>4
  <2> QED BY <1>2, <1>9, <2>3, <2>5
<1>10. Matching(q, name) = {}
  BY FoundFirst
<1>11. Puts(q, r, a, a, d, t, name)
  <2>1. \A x \in Elements(q) : x \notin a + 1 .. a
    BY <1>2
  <2>2. t \in Matching(r, name)
    BY <1>1, <1>5 DEF Matching
  <2>3. t \in a + 1 .. a + d /\ \A s \in Elements(r) : s \in a + 1 .. a + d => s = t
    BY <1>8, <1>9
  <2> HIDE DEF a, d
  <2> QED BY <1>7, <1>10, <2>1, <2>2, <2>3 DEF Puts
<1> HIDE DEF a, d
<1>12. FindName(r, name, TRUE) = t
  BY <1>11, PutFirst
<1>13. \A n : NoCase(n) # NoCase(name) => query_value(r, n) = query_value(q, n)
  BY <1>11, PutElsewhere
<1>14. HasEqual(r, t) /\ ValueAt(r, t) = text
  BY <1>1, <1>2, <1>5, <1>6, ReadText
<1>15. query_value(r, name) = Str(text)
  <2>1. t # 0
    BY <1>2
  <2> QED BY <1>12, <1>14, <2>1 DEF query_value
<1> QED BY <1>13, <1>15 DEF ValueIn

\* One element of the name goes, and nothing else.
Removed(q, r, name) ==
  /\ CountName(r, name) = CountName(q, name) - 1
  /\ \A n : NoCase(n) # NoCase(name) => query_value(r, n) = query_value(q, n)

LEMMA PairDropped ==
  ASSUME NEW q \in Text, NEW name, FindName(q, name, TRUE) # 0
  PROVE  Removed(q, DropPair(q, FindName(q, name, TRUE)), name)
<1> DEFINE p == FindName(q, name, TRUE)
           r == DropPair(q, p)
<1>1. p \in Matching(q, name) /\ p \in Elements(q) /\ NoCase(q[p]) = NoCase(name)
  <2>1. p \in Matching(q, name)
    BY FoundFirst
  <2> QED BY <2>1 DEF Matching
<1>2. r \in Text /\ \E a, b, d : DropAt(q, p, r, a, b, d)
  BY <1>1, DropSpliced
<1> HIDE DEF p, r
<1>3. PICK a, b, d : DropAt(q, p, r, a, b, d)
  BY <1>2
<1>4. /\ r \in Text /\ Splice(q, r, a, b, d) /\ p \in a + 1 .. b
      /\ \A x \in Elements(q) : x \in a + 1 .. b => x = p
      /\ \A s \in Elements(r) : s \notin a + 1 .. b + d
  BY <1>2, <1>3 DEF DropAt
<1>5. ASSUME NEW n
      PROVE  /\ Matching(q, n) \intersect (a + 1 .. b) \subseteq {p}
             /\ Matching(r, n) \intersect (a + 1 .. b + d) = {}
  BY <1>4 DEF Matching
<1>6. CountName(r, name) = CountName(q, name) - 1
  <2>1. Matching(q, name) \intersect (a + 1 .. b) = {p} /\ Matching(r, name) \intersect (a + 1 .. b + d) = {}
    BY <1>1, <1>4, <1>5
  <2> QED BY <1>1, <1>4, <2>1, OneGone
<1>7. ASSUME NEW n, NoCase(n) # NoCase(name)
      PROVE  query_value(r, n) = query_value(q, n)
  <2>1. p \notin Matching(q, n)
    BY <1>1, <1>7 DEF Matching
  <2>2. Apart(q, r, a, b, d, n)
    BY <1>4, <1>5, <2>1 DEF Apart
  <2> QED BY <1>4, <2>2, OtherValue
<1> QED BY <1>6, <1>7 DEF Removed, p, r

\* What QueryKept says of a query.
Updated(q, r, name, v) ==
  IF is_nil(v) THEN FindName(q, name, TRUE) # 0 => Removed(q, r, name) ELSE ValueIn(q, r, name, v)

LEMMA QueryUpdated ==
  ASSUME PlainQuery, NEW q \in Text, NEW name \in QueryName, NEW v \in ValueArg
  PROVE  Updated(q, query_value_update(q, name, v), name, v)
<1> DEFINE p == FindName(q, name, TRUE)
           r == query_value_update(q, name, v)
<1>1. name \in Token /\ name \notin Separators /\ v \in Feature
  BY Arguments DEF PlainQuery
<1>2. CASE is_nil(v)
  <2>1. p # 0 => r = DropPair(q, p)
    BY <1>2 DEF query_value_update
  <2>2. p # 0 => Removed(q, r, name)
    BY <2>1, PairDropped
  <2> QED BY <1>2, <2>2 DEF Updated
<1>3. CASE ~ is_nil(v)
  <2>1. Is(v, "STRING") /\ \A i \in DOMAIN Val(v) : Val(v)[i] \notin Separators
    BY <1>3 DEF PlainQuery
  <2>2. v = Str(Val(v)) /\ Val(v) \in Text
    BY <1>1, <2>1, StringIs
  <2> DEFINE text == Val(v)
  <2>3. PlainText(text)
    BY <2>1, <2>2 DEF PlainText, Text
  <2>4. Format(v) = text
    BY <1>3, <2>1 DEF Format, Scalar, Is, is_nil
  <2> HIDE DEF text
  <2>5. v = Str(text) /\ text \in Text
    BY <2>2 DEF text
  <2>6. CASE q = <<>>
    <3>1. r = <<name, "=">> \o text
      BY <1>3, <2>4, <2>6 DEF query_value_update
    <3> HIDE DEF r
    <3>2. r \in Text /\ Added(q, r, Len(q) + 1, name, text)
      BY <1>1, <2>5, <2>6, <3>1, AddedTo
    <3>3. p = 0
      <4>1. Elements(q) = {}
        BY <2>6 DEF Elements
      <4>2. Matching(q, name) = {}
        BY <4>1 DEF Matching
      <4> QED BY <4>2, FoundFirst
    <3>4. ValueIn(q, r, name, Str(text))
      BY <1>1, <2>3, <3>2, <3>3, PairAdded
    <3> QED BY <1>3, <2>5, <3>4 DEF Updated, r
  <2>7. CASE q # <<>> /\ p = 0
    <3>1. r = q \o <<"&", name, "=">> \o text
      BY <1>3, <2>4, <2>7 DEF query_value_update
    <3> HIDE DEF r
    <3>2. r \in Text /\ Added(q, r, Len(q) + 2, name, text)
      BY <1>1, <2>5, <3>1, AddedTo
    <3>3. ValueIn(q, r, name, Str(text))
      BY <1>1, <2>3, <2>7, <3>2, PairAdded
    <3> QED BY <1>3, <2>5, <3>3 DEF Updated, r
  <2>8. CASE q # <<>> /\ p # 0
    <3>1. r = SetPair(q, p, v)
      BY <1>3, <2>8 DEF query_value_update
    <3>2. ValueIn(q, SetPair(q, p, Str(text)), name, Str(text))
      BY <2>3, <2>8, PairSet
    <3>3. ValueIn(q, r, name, v)
      BY <2>5, <3>1, <3>2
    <3> QED BY <1>3, <3>3 DEF Updated
  <2> QED BY <2>6, <2>7, <2>8
<1> QED BY <1>2, <1>3

\* The values that QueryValueExtractor finds in the query of a message.
LEMMA ValuesSeen ==
  ASSUME TypeOK, NEW which \in {"ua", "preq"}, msgs[which].valid
  PROVE  /\ msgs[which].url.query \in Text
         /\ \A n : ValueSeen(which, n) = query_value(msgs[which].url.query, n)
<1>1. msgs[which].url \in Url
  BY MessageOf, RequestOf
<1>2. msgs[which].url.valid /\ msgs[which].url.query \in Text
  BY <1>1 DEF Url
<1> QED BY <1>2 DEF Query, ValueSeen

LEMMA QueryStep ==
  ASSUME IInv, [Next]_httpVars, PlainQuery, NEW which \in {"ua", "preq"},
         Done({"ua-req-query-value", "proxy-req-query-value"}), About(did'.name) = which, end' = "error",
         msgs[which].valid
  PROVE  LET name == did'.value[1]
             v == did'.value[2]
             before == msgs[which].url.query
         IN (is_nil(v) => FindName(before, name, TRUE) # 0) =>
            /\ IF is_nil(v) THEN CountName(msgs'[which].url.query, name) = CountName(before, name) - 1
               ELSE \A n \in QueryName :
                      n = name => ValueSeen(which, n)' \in {v, IF v = Str(<<>>) THEN NIL_FEATURE ELSE v}
            /\ \A n \in QueryName :
                 NoCase(n) # NoCase(name) => ValueSeen(which, n)' = ValueSeen(which, n)
<1>1. {"ua-req-query-value", "proxy-req-query-value"} \subseteq UrlNames
  BY DEF UrlNames
<1>2. TypeOK /\ TypeOK' /\ OnUrls /\ did'.name \in {"ua-req-query-value", "proxy-req-query-value"}
  BY <1>1, IsDirective, InGroup, NextInv DEF IInv
<1>3. About("ua-req-query-value") = "ua" /\ About("proxy-req-query-value") = "preq"
  BY Abouts DEF OfUa, OfPreq
<1>4. PICK name \in QueryName, v \in ValueArg : UpdateQuery(which, name, v) /\ did'.value = <<name, v>>
  <2>1. CASE did'.name = "ua-req-query-value"
    <3>1. PICK name \in QueryName, v \in ValueArg : Do_ua_req_query_value(name, v)
      BY <1>2, <2>1, UrlByName
    <3> QED BY <1>3, <2>1, <3>1, ValueOf DEF Do_ua_req_query_value
  <2>2. CASE did'.name = "proxy-req-query-value"
    <3>1. PICK name \in QueryName, v \in ValueArg : Do_proxy_req_query_value(name, v)
      BY <1>2, <2>2, UrlByName
    <3> QED BY <1>3, <2>2, <3>1, ValueOf DEF Do_proxy_req_query_value
  <2> QED BY <1>2, <2>1, <2>2
<1> DEFINE q == msgs[which].url.query
           r == query_value_update(q, name, v)
<1>5. msgs' = [msgs EXCEPT ![which].url.query = r]
  BY <1>4 DEF UpdateQuery, Throw, Leave, Fail
<1>6. msgs[which] \in Request /\ which \in DOMAIN msgs
  BY <1>2, MessageOf DEF TypeOK, MsgType
<1>7. msgs'[which].url.query = r /\ msgs'[which].valid
  BY <1>5, <1>6 DEF Request, Url
<1>8. q \in Text /\ \A n : ValueSeen(which, n) = query_value(q, n)
  BY <1>2, ValuesSeen
<1>9. \A n : ValueSeen(which, n)' = query_value(r, n)
  <2>1. (TypeOK /\ msgs[which].valid => \A n : ValueSeen(which, n) = query_value(msgs[which].url.query, n))'
    BY ValuesSeen, PTL
  <2> QED BY <1>2, <1>7, <2>1
<1> HIDE DEF q, r
<1>10. Updated(q, r, name, v)
  BY <1>8, QueryUpdated DEF r
<1>11. did'.value[1] = name /\ did'.value[2] = v
  BY <1>4
<1>12. ASSUME is_nil(v) => FindName(q, name, TRUE) # 0
       PROVE  /\ IF is_nil(v) THEN CountName(r, name) = CountName(q, name) - 1
                 ELSE query_value(r, name) \in {v, IF v = Str(<<>>) THEN NIL_FEATURE ELSE v}
              /\ \A n : NoCase(n) # NoCase(name) => query_value(r, n) = query_value(q, n)
  BY <1>10, <1>12 DEF Updated, Removed, ValueIn
<1> QED BY <1>7, <1>8, <1>9, <1>11, <1>12 DEF q

\* For any query, if names and values have no separators in them: a directive that sets a
\* value of a query gives the name that value there, one that removes a name takes one element, and the values
\* of all other names are what they were.
THEOREM QueriesKept == ASSUME PlainQuery PROVE Spec => QueryKept
<1>1. IInv /\ [Next]_httpVars =>
        [\A which \in {"ua", "preq"} :
           Done({"ua-req-query-value", "proxy-req-query-value"}) /\ About(did'.name) = which /\ end' = "error"
             /\ msgs[which].valid =>
           LET name == did'.value[1]
               v == did'.value[2]
               before == msgs[which].url.query
           IN (is_nil(v) => FindName(before, name, TRUE) # 0) =>
              /\ IF is_nil(v) THEN CountName(msgs'[which].url.query, name) = CountName(before, name) - 1
                 ELSE \A n \in QueryName :
                        n = name => ValueSeen(which, n)' \in {v, IF v = Str(<<>>) THEN NIL_FEATURE ELSE v}
              /\ \A n \in QueryName :
                   NoCase(n) # NoCase(name) => ValueSeen(which, n)' = ValueSeen(which, n)]_httpVars
  BY QueryStep
<1> QED BY <1>1, Invariant, PTL DEF QueryKept, Spec
=============================================================================
