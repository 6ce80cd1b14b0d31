------------------------- MODULE FeatureGroupProofs -------------------------
(***************************************************************************)
(* Proofs about FeatureGroup, for any directive, any value of it and any   *)
(* number of keys and references.                                          *)
(***************************************************************************)
EXTENDS FeatureGroup, SequenceTheorems, FiniteSetTheorems, WellFoundedInduction, TLAPS

Tracking == 1 .. Len(info)

\* No key is tracked twice.
Distinct == \A i, j \in Tracking : info[i].key = info[j].key => i = j

\* What is tracked has to be loaded.
Wanted == \A i \in Tracking : info[i].key \in Keys /\ info[i].key \in Needed

\* Slots and the keys that have one belong to each other.
Slots ==
  /\ \A s \in 1 .. Len(order) : info[order[s]].exf = s
  /\ \A i \in Tracking : info[i].exf # INVALID_IDX =>
       order[info[i].exf] = i /\ info[i].mark = "done" /\ ~ ExprOf(i).literal
  /\ \A i \in Tracking : info[i].dependent => order # <<>>
  /\ node.form # "map" => order = <<>>

\* Reference p of key i was followed: the key is loaded and, if it is not a literal,
\* has a slot, before the slot of i.
Settled(i, p) ==
  \E j \in Tracking :
    /\ info[j].key = ExprOf(i).refs[p] /\ info[j].mark = "done"
    /\ \/ ExprOf(j).literal
       \/ /\ info[j].exf # INVALID_IDX /\ info[i].dependent
          /\ info[i].exf # INVALID_IDX => info[j].exf < info[i].exf

Settling ==
  /\ \A i \in Tracking : info[i].mark = "done" =>
       /\ ExprOf(i).valid
       /\ node.form = "map" => \A p \in 1 .. Len(ExprOf(i).refs) : Settled(i, p)
  /\ \A m \in 1 .. Len(stack) : \A p \in 1 .. stack[m].at - 1 : Settled(stack[m].idx, p)

\* The stack: the keys in play, each of which refers to the next.
Frames ==
  /\ \A m \in 1 .. Len(stack) :
       info[stack[m].idx].mark = "playing" /\ stack[m].at <= Len(ExprOf(stack[m].idx).refs) + 1
  /\ \A i \in Tracking : info[i].mark = "playing" => \E m \in 1 .. Len(stack) : stack[m].idx = i
  /\ \A m, n \in 1 .. Len(stack) : stack[m].idx = stack[n].idx => m = n
  /\ \A m \in 1 .. Len(stack) - 1 :
       /\ stack[m].at <= Len(ExprOf(stack[m].idx).refs)
       /\ ExprOf(stack[m].idx).refs[stack[m].at] = info[stack[m + 1].idx].key

\* How far load is with the listed keys.
RootInv ==
  /\ phase = "begin" =>
       /\ root \in 1 .. Len(Listed) + 1 /\ stack = <<>> /\ order = <<>>
       /\ node.form # "map" => info = <<>>
       /\ \A i \in Tracking : info[i].mark = "none" /\ \E j \in 1 .. root - 1 : info[i].key = Listed[j]
       /\ \A j \in 1 .. root - 1 :
            IF Listed[j] \in Keys THEN \E i \in Tracking : info[i].key = Listed[j]
            ELSE Listed[j] \notin Required
  /\ phase = "load" =>
       /\ node.form = "map" /\ Required \subseteq Keys
       /\ root \in 1 .. limit + 1
       /\ \A k \in Listing \intersect Keys : \E i \in Tracking : info[i].key = k
       /\ \A i \in Tracking : info[i].mark = "none" => i \in root .. limit
  /\ phase = "ready" => \A i \in Tracking : info[i].mark = "done"

\* What is in the slots, and what was found there.
CacheInv ==
  /\ phase # "ready" => features = <<>> /\ fill = 0 /\ asked = 0 /\ seen = {}
  /\ fill # 0 => features # <<>>
  /\ \A s \in 1 .. Len(features) :
       IF fill # 0 /\ s >= fill THEN features[s] = Unset
       ELSE features[s] \in Value /\ features[s].key = info[order[s]].key
  /\ \A x \in seen : \E s \in 1 .. Len(features) :
       features[s] \in Value /\ x = <<info[order[s]].key, features[s]>>

LoadInv == Distinct /\ Wanted /\ Slots /\ Settling /\ Frames /\ RootInv
IInv == TypeOK /\ LoadInv /\ CacheInv /\ Verdict

-----------------------------------------------------------------------------
LEMMA NodeFacts ==
  ASSUME TypeOK
  PROVE  /\ Keys \subseteq Key /\ IsFiniteSet(Keys)
         /\ \A k \in Keys :
              /\ node.expr[k] \in Expr /\ node.expr[k].refs \in Seq(Key)
              /\ Len(node.expr[k].refs) \in Nat
              /\ node.expr[k].literal => Len(node.expr[k].refs) = 0
              /\ \A p \in 1 .. Len(node.expr[k].refs) : node.expr[k].refs[p] \in Key
<1>1. node \in Nodes
  BY DEF TypeOK
<1>2. /\ IsFiniteSet(DOMAIN node.expr) /\ DOMAIN node.expr \subseteq Key
      /\ \A k \in DOMAIN node.expr :
            node.expr[k] \in Expr /\ (node.expr[k].literal => node.expr[k].refs = <<>>)
  BY <1>1, NodeAssumption
<1> QED BY <1>2 DEF Keys, Expr

LEMMA ListedFacts ==
  /\ Len(Listed) \in Nat
  /\ \A i \in 1 .. Len(Listed) : Listed[i] \in Key /\ Listed[i] \in Listing
  /\ Required \subseteq Listing
  BY NodeAssumption DEF Listing

LEMMA UnsetNotValue == Unset \notin Value
<1> SUFFICES ASSUME Unset \in Value PROVE FALSE
  OBVIOUS
<1>1. "at" \in DOMAIN Unset
  BY DEF Value
<1> QED BY <1>1 DEF Unset

\* A needed key needs those it refers to; the listed keys that are there are needed.
LEMMA NeedsRefs ==
  ASSUME TypeOK, NEW k \in Keys, k \in Needed, NEW r \in Refs(k)
  PROVE  r \in Needed
<1>1. r \in Key
  BY NodeFacts DEF Refs
<1>2. ASSUME NEW S \in SUBSET Key, Closed(S) PROVE r \in S
  BY <1>2 DEF Needed, Closed
<1> QED BY <1>1, <1>2 DEF Needed

LEMMA NeedsListed ==
  ASSUME TypeOK, NEW k \in Keys, k \in Listing
  PROVE  k \in Needed
  BY NodeFacts DEF Needed, Closed

\* What is tracked, as a set of keys.
LEMMA NotLoadable ==
  ASSUME TypeOK, NEW S \in SUBSET Needed, S # {}, \A k \in S : Refs(k) \intersect S # {}
  PROVE  ~ Loadable
  BY DEF Loadable

-----------------------------------------------------------------------------
LEMMA InitInv == Init => IInv
<1> SUFFICES ASSUME Init PROVE IInv
  OBVIOUS
<1>1. TypeOK
  BY NodeAssumption DEF Init, TypeOK
<1>2. LoadInv
  BY ListedFacts DEF Init, LoadInv, Distinct, Wanted, Slots, Settling, Frames, RootInv, Tracking
<1>3. CacheInv /\ Verdict
  BY DEF Init, CacheInv, Verdict
<1> QED BY <1>1, <1>2, <1>3 DEF IInv

\* Nothing but the phase and the place in the list changes.
LEMMA SameNode ==
  ASSUME node' = node
  PROVE  Keys' = Keys /\ Needed' = Needed /\ Loadable' = Loadable
  BY DEF Needed, Closed, Loadable, Refs, Keys

LEMMA SameInfo ==
  ASSUME LoadInv, node' = node, info' = info, order' = order, stack' = stack
  PROVE  (Distinct /\ Wanted /\ Slots /\ Settling /\ Frames)'
<1>1. Keys' = Keys /\ Needed' = Needed
  BY SameNode
<1>2. Tracking' = Tracking /\ \A i : ExprOf(i)' = ExprOf(i)
  BY DEF Tracking, ExprOf
<1>3. Distinct' /\ Wanted'
  BY <1>1, <1>2 DEF LoadInv, Distinct, Wanted
<1>4. Slots'
  BY <1>2 DEF LoadInv, Slots
<1>5. Settling'
  <2>1. ASSUME NEW i, NEW p, Settled(i, p) PROVE Settled(i, p)'
    BY <1>2, <2>1 DEF Settled
  <2> QED BY <1>2, <2>1 DEF LoadInv, Settling
<1>6. Frames'
  BY <1>2 DEF LoadInv, Frames
<1> QED BY <1>3, <1>4, <1>5, <1>6

\* A value that is refused.
LEMMA Fails ==
  ASSUME IInv, LoadFails, phase # "ready", ~ Loadable
  PROVE  IInv'
<1>1. TypeOK'
  BY DEF IInv, TypeOK, LoadFails, txnVars, Keys
<1>2. (Distinct /\ Wanted /\ Slots /\ Settling /\ Frames)'
  BY SameInfo DEF IInv, LoadFails
<1>3. RootInv'
  BY DEF RootInv, LoadFails
<1>4. CacheInv'
  BY DEF IInv, CacheInv, LoadFails, txnVars
<1>5. Verdict'
  BY SameNode DEF Verdict, LoadFails
<1> QED BY <1>1, <1>2, <1>3, <1>4, <1>5 DEF IInv, LoadInv

-----------------------------------------------------------------------------
\* The stack.
LEMMA StackFacts ==
  ASSUME TypeOK, Frames
  PROVE  /\ Len(stack) \in Nat /\ Len(info) \in Nat
         /\ \A m \in 1 .. Len(stack) : stack[m].idx \in Tracking /\ stack[m].at \in Nat \ {0}
         /\ \A i \in Tracking : info[i] \in Info
         /\ stack # <<>> => Len(stack) \in 1 .. Len(stack)
<1>1. stack \in Seq([idx : 1 .. Len(info), at : Nat \ {0}]) /\ info \in Seq(Info)
  BY DEF TypeOK
<1>2. \A m \in 1 .. Len(stack) : stack[m] \in [idx : 1 .. Len(info), at : Nat \ {0}]
  BY <1>1, ElementOfSeq
<1>3. \A i \in Tracking : info[i] \in Info
  BY <1>1, ElementOfSeq DEF Tracking
<1> QED BY <1>1, <1>2, <1>3, EmptySeq, LenProperties DEF Tracking

\* The top of the stack, and what it refers to.
LEMMA TopFacts ==
  ASSUME IInv, Loading
  PROVE  /\ Top.idx \in Tracking /\ info[Top.idx].mark = "playing"
         /\ info[Top.idx].key \in Keys /\ info[Top.idx].key \in Needed
         /\ Top.at \in Nat \ {0} /\ node.form = "map"
         /\ AtRef => /\ Ref \in Key /\ Ref \in Needed /\ Ref \in Refs(info[Top.idx].key)
                     /\ Ref = ExprOf(Top.idx).refs[Top.at]
<1>1. /\ Top.idx \in Tracking /\ info[Top.idx].mark = "playing" /\ Top.at \in Nat \ {0}
  BY StackFacts DEF IInv, LoadInv, Frames, Loading, Top
<1>2. info[Top.idx].key \in Keys /\ info[Top.idx].key \in Needed
  BY <1>1 DEF IInv, LoadInv, Wanted
<1>3. node.form = "map"
  BY DEF IInv, LoadInv, RootInv, Loading
<1>4. ASSUME AtRef PROVE Ref \in Key /\ Ref \in Refs(info[Top.idx].key)
  <2> DEFINE k == info[Top.idx].key
  <2>1. /\ Len(node.expr[k].refs) \in Nat
        /\ \A p \in 1 .. Len(node.expr[k].refs) : node.expr[k].refs[p] \in Key
    BY <1>2, NodeFacts DEF IInv
  <2>2. Top.at \in 1 .. Len(node.expr[k].refs) /\ Ref = node.expr[k].refs[Top.at]
    <3>1. ExprOf(Top.idx) = node.expr[k]
      BY DEF ExprOf
    <3>2. Top.at <= Len(ExprOf(Top.idx).refs) /\ Ref = ExprOf(Top.idx).refs[Top.at]
      BY <1>4 DEF AtRef, Ref
    <3>3. Top.at <= Len(node.expr[k].refs) /\ Ref = node.expr[k].refs[Top.at]
      BY <3>1, <3>2
    <3>4. Len(node.expr[k].refs) \in Nat
      BY <2>1
    <3>5. Top.at \in Nat \ {0}
      BY <1>1
    <3> HIDE DEF k
    <3> QED BY <3>3, <3>4, <3>5
  <2> QED BY <1>3, <2>1, <2>2 DEF Refs
<1> QED BY <1>1, <1>2, <1>3, <1>4, NeedsRefs DEF IInv, Ref

LEMMA DescribeFailsStep ==
  ASSUME IInv, DescribeFails
  PROVE  IInv'
<1>1. ~ (Required \subseteq Keys) /\ node.form # "scalar"
  BY DEF DescribeFails
<1> QED BY <1>1, Fails DEF DescribeFails, Loadable

LEMMA ParseFailsStep ==
  ASSUME IInv, ParseFails
  PROVE  IInv'
<1>1. ~ Loadable
  BY TopFacts DEF ParseFails, ExprOf, Loadable
<1> QED BY <1>1, Fails DEF ParseFails, Loading

LEMMA MissingKeyStep ==
  ASSUME IInv, MissingKey
  PROVE  IInv'
<1>1. ~ Loadable
  BY TopFacts DEF MissingKey, AtRef, Loadable
<1> QED BY <1>1, Fails DEF MissingKey, AtRef, Loading

\* The keys from the one that is in play to the top of the stack are a cycle.
LEMMA CircularStep ==
  ASSUME IInv, Circular
  PROVE  IInv'
<1>1. Loading /\ AtRef
  BY DEF Circular, AtRef
<1>2. PICK n \in 1 .. Len(stack) : info[stack[n].idx].key = Ref
  <2>1. PICK i \in Tracked(Ref) : info[i].mark = "playing"
    BY DEF Circular
  <2>2. i \in Tracking /\ info[i].key = Ref
    BY DEF Tracked, Tracking
  <2> QED BY <2>1, <2>2 DEF IInv, LoadInv, Frames
<1> DEFINE S == {info[stack[m].idx].key : m \in n .. Len(stack)}
<1>3. S \subseteq Needed /\ Ref \in S
  BY <1>1, <1>2, StackFacts DEF IInv, LoadInv, Wanted
<1>4. ASSUME NEW m \in n .. Len(stack)
      PROVE  Refs(info[stack[m].idx].key) \intersect S # {}
  <2>1. CASE m = Len(stack)
    BY <1>1, <1>3, <2>1, TopFacts DEF Top
  <2>2. CASE m < Len(stack)
    <3>1. m \in 1 .. Len(stack) - 1 /\ m + 1 \in n .. Len(stack) /\ stack[m].idx \in Tracking
      BY <2>2, StackFacts DEF IInv, LoadInv
    <3>2. /\ stack[m].at \in 1 .. Len(ExprOf(stack[m].idx).refs)
          /\ ExprOf(stack[m].idx).refs[stack[m].at] = info[stack[m + 1].idx].key
      <4>1. stack[m].at \in Nat \ {0}
        BY StackFacts DEF IInv, LoadInv
      <4>2. info[stack[m].idx].key \in Keys
        BY <3>1 DEF IInv, LoadInv, Wanted
      <4>3. Len(ExprOf(stack[m].idx).refs) \in Nat
        BY <4>2, NodeFacts DEF IInv, ExprOf
      <4>4. /\ stack[m].at <= Len(ExprOf(stack[m].idx).refs)
            /\ ExprOf(stack[m].idx).refs[stack[m].at] = info[stack[m + 1].idx].key
        BY <3>1 DEF IInv, LoadInv, Frames
      <4> QED BY <4>1, <4>3, <4>4
    <3> QED BY <1>1, <3>1, <3>2, TopFacts DEF Refs, ExprOf
  <2> QED BY <2>1, <2>2, StackFacts DEF IInv, LoadInv
<1>5. ~ Loadable
  <2>1. \A k \in S : Refs(k) \intersect S # {}
    BY <1>4
  <2>2. S \in SUBSET Needed /\ S # {}
    BY <1>3
  <2> QED BY <2>1, <2>2, NotLoadable DEF IInv
<1> QED BY <1>1, <1>5, Fails DEF Circular, Loading

-----------------------------------------------------------------------------
\* The other steps of loading leave the transaction alone.
LEMMA NoCache ==
  ASSUME CacheInv, UNCHANGED txnVars, phase # "ready"
  PROVE  CacheInv'
  BY DEF CacheInv, txnVars

\* Slots.
LEMMA OrderFacts ==
  ASSUME TypeOK
  PROVE  /\ Len(order) \in Nat
         /\ \A s \in 1 .. Len(order) : order[s] \in Tracking
         /\ \A i \in Tracking : info[i].exf \in Nat /\ info[i].exf <= Len(order)
<1>1. order \in Seq(1 .. Len(info)) /\ info \in Seq(Info)
  BY DEF TypeOK
<1>2. Len(order) \in Nat /\ \A s \in 1 .. Len(order) : order[s] \in Tracking
  BY <1>1, ElementOfSeq, LenProperties DEF Tracking
<1>3. \A i \in Tracking : info[i] \in Info
  BY <1>1, ElementOfSeq DEF Tracking
<1>4. \A i \in Tracking : info[i].exf <= Len(order)
  BY DEF TypeOK, Tracking
<1> QED BY <1>2, <1>3, <1>4 DEF Info

\* A key that is appended to those that are tracked.
Mark == {"none", "playing", "done"}
Grows(k, m) == info' = Append(info, Untracked(k, m))

LEMMA AppendInfo ==
  ASSUME info \in Seq(Info), NEW k \in Key, NEW m \in Mark,
         Grows(k, m)
  PROVE  /\ info' \in Seq(Info) /\ Len(info') = Len(info) + 1 /\ Len(info) \in Nat
         /\ \A i \in Tracking : info'[i] = info[i]
         /\ info'[Len(info) + 1] = Untracked(k, m)
<1>1. Untracked(k, m) \in Info
  BY DEF Untracked, Info, INVALID_IDX, Mark
<1> HIDE DEF Info
<1>2. Len(info) \in Nat
  BY LenProperties
<1>3. /\ info' \in Seq(Info) /\ Len(info') = Len(info) + 1
      /\ \A i \in 1 .. Len(info) : info'[i] = info[i]
      /\ info'[Len(info) + 1] = Untracked(k, m)
  <2>1. Untracked(k, m) \in Info /\ info \in Seq(Info)
    BY <1>1
  <2>2. info' = Append(info, Untracked(k, m))
    BY Zenon DEF Grows
  <2>3. /\ Append(info, Untracked(k, m)) \in Seq(Info)
        /\ Len(Append(info, Untracked(k, m))) = Len(info) + 1
        /\ \A i \in 1 .. Len(info) : Append(info, Untracked(k, m))[i] = info[i]
        /\ Append(info, Untracked(k, m))[Len(info) + 1] = Untracked(k, m)
    BY <2>1, AppendProperties
  <2> QED BY <2>2, <2>3, Zenon
<1> QED BY <1>2, <1>3 DEF Tracking

\* A step of loading after which at least as many keys are tracked.
LEMMA TypeGrows ==
  ASSUME TypeOK, node' = node, phase' = phase, order' = order, limit' = limit, root' \in Nat,
         UNCHANGED txnVars, info' \in Seq(Info), Len(info) <= Len(info'),
         \A i \in 1 .. Len(info') : info'[i].exf <= Len(order),
         stack' \in Seq([idx : 1 .. Len(info'), at : Nat \ {0}])
  PROVE  TypeOK'
<1>1. Len(info) \in Nat /\ Len(info') \in Nat
  BY LenProperties DEF TypeOK
<1>2. order' \in Seq(1 .. Len(info'))
  <2>1. order \in Seq(1 .. Len(info)) /\ 1 .. Len(info) \subseteq 1 .. Len(info')
    BY <1>1 DEF TypeOK
  <2> QED BY <2>1, SeqMonotonic
<1>3. limit' \in 0 .. Len(info') /\ asked' \in 0 .. Len(info')
  <2>1. limit \in 0 .. Len(info) /\ asked \in 0 .. Len(info)
    BY DEF TypeOK
  <2>2. limit' = limit /\ asked' = asked
    BY DEF txnVars
  <2> QED BY <1>1, <2>1, <2>2
<1>4. /\ features' \in Seq(Value \union {Unset}) /\ Len(features') \in {0, Len(order')}
      /\ fill' \in 0 .. Len(order') /\ now' \in 0 .. MaxTime
      /\ seen' \subseteq Key \X (Value \union {Unset})
  <2>1. UNCHANGED <<features, order, fill, now, seen>>
    BY DEF txnVars
  <2> QED BY <2>1, Zenon DEF TypeOK
<1> QED BY <1>2, <1>3, <1>4 DEF TypeOK

LEMMA DescribeStep ==
  ASSUME IInv, Describe
  PROVE  IInv'
<1>1. /\ phase = "begin" /\ phase' = "begin" /\ node.form = "map" /\ root \in 1 .. Len(Listed)
      /\ stack = <<>> /\ order = <<>> /\ root' = root + 1
      /\ UNCHANGED <<node, phase, order, stack, limit, txnVars>>
  BY ListedFacts DEF Describe, IInv, LoadInv, RootInv
<1>2. /\ info \in Seq(Info) /\ Len(info) \in Nat /\ features = <<>>
      /\ \A i \in Tracking : /\ info[i].mark = "none" /\ info[i] \in Info
                             /\ \E j \in 1 .. root - 1 : info[i].key = Listed[j]
  BY <1>1, StackFacts DEF IInv, LoadInv, RootInv, CacheInv, TypeOK
<1>3. CASE Listed[root] \notin Keys
  <2>1. info' = info
    BY <1>3 DEF Describe
  <2>2. TypeOK'
    BY <1>1, <1>3, <2>1 DEF IInv, TypeOK, txnVars
  <2>3. (Distinct /\ Wanted /\ Slots /\ Settling /\ Frames)'
    BY <1>1, <2>1, SameInfo DEF IInv
  <2>4. RootInv'
    BY <1>1, <1>3, <2>1, ListedFacts, SameNode DEF IInv, LoadInv, RootInv, Describe, Tracking
  <2> QED BY <1>1, <2>2, <2>3, <2>4, NoCache DEF IInv, LoadInv, Verdict
<1>4. CASE Listed[root] \in Keys
  <2> DEFINE k == Listed[root]
  <2>1. k \in Key /\ k \in Needed /\ Grows(k, "none")
    BY <1>1, <1>4, ListedFacts, NeedsListed DEF Describe, IInv, Grows
  <2> HIDE DEF k
  <2>2. /\ info' \in Seq(Info) /\ Len(info') = Len(info) + 1
        /\ \A i \in Tracking : info'[i] = info[i]
        /\ info'[Len(info) + 1] = Untracked(k, "none")
    BY <1>2, <2>1, AppendInfo DEF Mark
  <2>3. \A i \in Tracking : info[i].key # k
    BY <1>1, <1>2, NodeAssumption DEF k
  <2>4. TypeOK'
    <3>1. \A i \in 1 .. Len(info') : info'[i].exf <= Len(order)
      <4>1. Len(order) = 0 /\ \A i \in Tracking : info[i].exf <= Len(order)
        BY <1>1, OrderFacts DEF IInv
      <4>2. info'[Len(info) + 1].exf <= Len(order)
        BY <2>2, <4>1 DEF Untracked, INVALID_IDX
      <4>3. \A i \in 1 .. Len(info') : i \in Tracking \/ i = Len(info) + 1
        BY <1>2, <2>2 DEF Tracking
      <4> QED BY <2>2, <4>1, <4>2, <4>3
    <3>2. stack' \in Seq([idx : 1 .. Len(info'), at : Nat \ {0}])
      BY <1>1
    <3> QED BY <1>1, <1>2, <2>2, <3>1, <3>2, TypeGrows, ListedFacts DEF IInv
  <2>5. Distinct' /\ Wanted'
    <3>1. Distinct'
      BY <1>2, <2>2, <2>3 DEF IInv, LoadInv, Distinct, Tracking, Untracked
    <3>2. Wanted'
      BY <1>1, <1>2, <1>4, <2>1, <2>2, SameNode DEF IInv, LoadInv, Wanted, Tracking, Untracked, k
    <3> QED BY <3>1, <3>2
  <2>6. Slots' /\ Settling' /\ Frames'
    <3>1. \A i \in Tracking' : /\ info'[i].mark = "none" /\ info'[i].exf = INVALID_IDX
                                /\ ~ info'[i].dependent
      BY <1>1, <1>2, <2>2 DEF Tracking, Untracked, IInv, LoadInv, Slots
    <3>2. order' = <<>> /\ stack' = <<>>
      BY <1>1
    <3>3. Len(order') = 0 /\ Len(stack') = 0
      BY <3>2
    <3>4. Slots'
      BY <3>1, <3>2, <3>3 DEF Slots
    <3>5. Settling' /\ Frames'
      <4>1. Settling'
        BY <3>1, <3>3 DEF Settling
      <4>2. Frames'
        <5>1. 1 .. Len(stack') = {} /\ 1 .. Len(stack') - 1 = {}
          BY <3>3
        <5>2. \A i \in Tracking' : info'[i].mark # "playing"
          BY <3>1
        <5> QED BY <5>1, <5>2, Zenon DEF Frames
      <4> QED BY <4>1, <4>2
    <3> QED BY <3>4, <3>5
  <2>7. RootInv'
    <3>1. ASSUME NEW i \in Tracking'
          PROVE  info'[i].mark = "none" /\ \E j \in 1 .. root' - 1 : info'[i].key = Listed[j]
      <4>1. CASE i \in Tracking
        <5>1. info'[i] = info[i] /\ info[i].mark = "none"
          BY <1>2, <2>2, <4>1
        <5>2. PICK j \in 1 .. root - 1 : info[i].key = Listed[j]
          BY <1>2, <4>1
        <5>3. j \in 1 .. root' - 1
          BY <1>1
        <5> QED BY <5>1, <5>2, <5>3, Zenon
      <4>2. CASE i = Len(info) + 1
        <5>1. info'[i].key = k /\ info'[i].mark = "none"
          BY <2>2, <4>2 DEF Untracked
        <5>2. root \in 1 .. root' - 1
          BY <1>1
        <5> QED BY <5>1, <5>2 DEF k
      <4> QED BY <1>2, <2>2, <4>1, <4>2 DEF Tracking
    <3>2. \A j \in 1 .. root' - 1 :
            IF Listed[j] \in Keys THEN \E i \in Tracking' : info'[i].key = Listed[j]
            ELSE Listed[j] \notin Required
      <4>1. ASSUME NEW j \in 1 .. root - 1, Listed[j] \in Keys
            PROVE  \E i \in Tracking' : info'[i].key = Listed[j]
        <5>1. PICK i \in Tracking : info[i].key = Listed[j]
          BY <1>1, <4>1 DEF IInv, LoadInv, RootInv
        <5> QED BY <1>2, <2>2, <5>1 DEF Tracking
      <4>2. \E i \in Tracking' : info'[i].key = k
        BY <1>2, <2>2 DEF Tracking, Untracked
      <4>3. ASSUME NEW j \in 1 .. root - 1, Listed[j] \notin Keys PROVE Listed[j] \notin Required
        BY <1>1, <4>3 DEF IInv, LoadInv, RootInv
      <4>4. \E i \in Tracking' : info'[i].key = Listed[root]
        BY <4>2 DEF k
      <4>5. ASSUME NEW j \in 1 .. root' - 1 PROVE j \in 1 .. root - 1 \/ j = root
        BY <1>1
      <4> QED BY <1>4, <4>1, <4>3, <4>4, <4>5
    <3> QED BY <1>1, <3>1, <3>2, ListedFacts, SameNode DEF RootInv
  <2> QED BY <1>1, <2>4, <2>5, <2>6, <2>7, NoCache DEF IInv, LoadInv, Verdict
<1> QED BY <1>3, <1>4

LEMMA DescribedStep ==
  ASSUME IInv, Described
  PROVE  IInv'
<1>1. /\ phase = "begin" /\ phase' = "load" /\ node.form = "map" /\ root = Len(Listed) + 1
      /\ stack = <<>> /\ order = <<>> /\ root' = 1 /\ limit' = Len(info)
      /\ UNCHANGED <<node, info, order, stack, txnVars>>
  BY ListedFacts DEF Described, IInv, LoadInv, RootInv
<1>2. TypeOK'
  BY <1>1 DEF IInv, TypeOK, txnVars
<1>3. (Distinct /\ Wanted /\ Slots /\ Settling /\ Frames)'
  BY <1>1, SameInfo DEF IInv
<1>4. RootInv'
  <2>1. \A j \in 1 .. Len(Listed) :
          IF Listed[j] \in Keys THEN \E i \in Tracking : info[i].key = Listed[j]
          ELSE Listed[j] \notin Required
    BY <1>1, ListedFacts DEF IInv, LoadInv, RootInv
  <2>2. \A k \in Listing \intersect Keys : \E i \in Tracking : info[i].key = k
    BY <2>1 DEF Listing
  <2>3. Required \subseteq Keys
    BY <2>1, NodeAssumption
  <2>4. limit' \in Nat /\ Tracking' = 1 .. limit'
    BY <1>1 DEF IInv, TypeOK, Tracking
  <2>5. Keys' = Keys
    BY <1>1, SameNode
  <2> QED BY <1>1, <2>2, <2>3, <2>4, <2>5 DEF RootInv, Tracking
<1> QED BY <1>1, <1>2, <1>3, <1>4, NoCache DEF IInv, LoadInv, Verdict

-----------------------------------------------------------------------------
\* What was settled stays so while keys are added, loaded and given slots.
LEMMA SettledKept ==
  ASSUME TypeOK, NEW i \in Tracking, NEW p, Settled(i, p), node' = node,
         Tracking \subseteq Tracking',
         \A j \in Tracking :
           /\ info'[j].key = info[j].key
           /\ info[j].mark = "done" => info'[j].mark = "done"
           /\ info[j].exf # INVALID_IDX => info'[j].exf = info[j].exf
         , info[i].dependent => info'[i].dependent,
         \/ info'[i].exf = info[i].exf
         \/ info'[i].exf = Len(order) + 1
  PROVE  Settled(i, p)'
<1>1. PICK j \in Tracking :
        /\ info[j].key = ExprOf(i).refs[p] /\ info[j].mark = "done"
        /\ \/ ExprOf(j).literal
           \/ /\ info[j].exf # INVALID_IDX /\ info[i].dependent
              /\ info[i].exf # INVALID_IDX => info[j].exf < info[i].exf
  BY DEF Settled
<1>2. ExprOf(i)' = ExprOf(i) /\ ExprOf(j)' = ExprOf(j)
  BY DEF ExprOf
<1>3. info'[j].key = ExprOf(i)'.refs[p] /\ info'[j].mark = "done" /\ j \in Tracking'
  BY <1>1, <1>2
<1>4. CASE ExprOf(j).literal
  BY <1>2, <1>3, <1>4 DEF Settled
<1>5. CASE ~ ExprOf(j).literal
  <2>1. info[j].exf \in Nat /\ info[j].exf <= Len(order) /\ Len(order) \in Nat
    <3>1. info \in Seq(Info) /\ order \in Seq(1 .. Len(info))
      BY DEF TypeOK
    <3>2. info[j] \in Info
      BY <3>1, ElementOfSeq DEF Tracking
    <3> QED BY <3>1, <3>2, LenProperties DEF TypeOK, Tracking, Info
  <2>2. info'[j].exf = info[j].exf /\ info[j].exf # INVALID_IDX /\ info'[i].dependent
    BY <1>1, <1>5
  <2>3. info'[i].exf # INVALID_IDX => info'[j].exf < info'[i].exf
    BY <1>1, <1>5, <2>1, <2>2
  <2> QED BY <1>2, <1>3, <2>2, <2>3 DEF Settled
<1> QED BY <1>4, <1>5

FrameOf(n) == [idx : 1 .. n, at : Nat \ {0}]

\* What load_key does first: key k, at index i, is in play.
Entered(i, k) ==
  /\ i \in 1 .. Len(info) + 1
  /\ info' \in Seq(Info) /\ Len(info') = IF i = Len(info) + 1 THEN i ELSE Len(info)
  /\ \A j \in Tracking : j # i => info'[j] = info[j]
  /\ i \in Tracking => info[i].key = k /\ info[i].mark = "none" /\ info'[i].dependent = info[i].dependent
  /\ i \notin Tracking => ~ info'[i].dependent
  /\ info'[i].key = k /\ info'[i].mark = "playing" /\ info'[i].exf = INVALID_IDX
  /\ k \in Keys /\ k \in Needed /\ \A j \in Tracking : info[j].key = k => j = i
  /\ stack' \in Seq(FrameOf(Len(info'))) /\ Len(stack') = Len(stack) + 1
  /\ stack'[Len(stack) + 1] = [idx |-> i, at |-> 1]
  /\ \A m \in 1 .. Len(stack) : stack'[m] = stack[m]

\* What is a sequence, and a sequence of which the mark of an element is set.
LEMMA IsSeq ==
  ASSUME NEW S, NEW n \in Nat, NEW t, t = [j \in 1 .. n |-> t[j]], \A j \in 1 .. n : t[j] \in S
  PROVE  t \in Seq(S) /\ Len(t) = n
  OBVIOUS

MarkSet(s, i, m, t) == t = [s EXCEPT ![i].mark = m]

LEMMA SetMark ==
  ASSUME NEW s \in Seq(Info), NEW i \in 1 .. Len(s), NEW m \in {"none", "playing", "done"},
         NEW t, MarkSet(s, i, m, t)
  PROVE  /\ t \in Seq(Info) /\ Len(t) = Len(s)
         /\ \A j \in 1 .. Len(s) : j # i => t[j] = s[j]
         /\ t[i].key = s[i].key /\ t[i].mark = m /\ t[i].exf = s[i].exf
         /\ t[i].dependent = s[i].dependent
<1> DEFINE e == [s[i] EXCEPT !.mark = m]
<1>1. \A j \in 1 .. Len(s) : s[j] \in Info
  BY ElementOfSeq
<1>2. e \in Info /\ e.key = s[i].key /\ e.mark = m /\ e.exf = s[i].exf
      /\ e.dependent = s[i].dependent
  BY <1>1 DEF Info
<1>3. Len(s) \in Nat /\ DOMAIN s = 1 .. Len(s)
  BY LenProperties
<1>4. t = [j \in 1 .. Len(s) |-> t[j]] /\ t[i] = e /\ \A j \in 1 .. Len(s) : j # i => t[j] = s[j]
  BY <1>3 DEF MarkSet
<1>5. \A j \in 1 .. Len(s) : t[j] \in Info
  <2> HIDE DEF e
  <2> QED BY <1>1, <1>2, <1>4
<1> HIDE DEF e
<1>6. t \in Seq(Info) /\ Len(t) = Len(s)
  BY <1>3, <1>4, <1>5, IsSeq
<1> QED BY <1>2, <1>6, <1>4, Zenon

LEMMA StackGrows ==
  ASSUME TypeOK, NEW n \in Nat, Len(info) <= n, NEW i \in 1 .. n,
         stack' = Append(stack, [idx |-> i, at |-> 1])
  PROVE  /\ stack' \in Seq(FrameOf(n)) /\ Len(stack') = Len(stack) + 1
         /\ stack'[Len(stack) + 1] = [idx |-> i, at |-> 1]
         /\ \A m \in 1 .. Len(stack) : stack'[m] = stack[m]
<1>1. stack \in Seq(FrameOf(n))
  <2>1. stack \in Seq(FrameOf(Len(info))) /\ Len(info) \in Nat
    BY LenProperties DEF TypeOK, FrameOf
  <2>2. FrameOf(Len(info)) \subseteq FrameOf(n)
    BY <2>1 DEF FrameOf
  <2> QED BY <2>1, <2>2, SeqMonotonic
<1>2. [idx |-> i, at |-> 1] \in FrameOf(n)
  BY DEF FrameOf
<1> QED BY <1>1, <1>2, AppendProperties

EnterTracked(i) == i \in Tracking /\ info[i].mark = "none" /\ Enter(i, InPlay(i))

LEMMA TrackedEntered ==
  ASSUME IInv, NEW i, EnterTracked(i)
  PROVE  Entered(i, info[i].key)
<1>1. Len(info) \in Nat /\ info \in Seq(Info) /\ i \in 1 .. Len(info)
  BY StackFacts DEF IInv, LoadInv, EnterTracked, TypeOK, Tracking
<1>2. /\ info' \in Seq(Info) /\ Len(info') = Len(info)
      /\ \A j \in 1 .. Len(info) : j # i => info'[j] = info[j]
      /\ info'[i].key = info[i].key /\ info'[i].mark = "playing" /\ info'[i].exf = info[i].exf
      /\ info'[i].dependent = info[i].dependent
  <2>1. MarkSet(info, i, "playing", info')
    BY DEF EnterTracked, Enter, InPlay, MarkSet
  <2> HIDE DEF Info
  <2> QED BY <1>1, <2>1, SetMark
<1>3. info[i].exf = INVALID_IDX /\ info[i].mark = "none"
  BY DEF IInv, LoadInv, Slots, EnterTracked
<1>4. info[i].key \in Keys /\ info[i].key \in Needed /\ \A j \in Tracking : info[j].key = info[i].key => j = i
  BY DEF EnterTracked, IInv, LoadInv, Wanted, Distinct
<1>5. /\ stack' \in Seq(FrameOf(Len(info))) /\ Len(stack') = Len(stack) + 1
      /\ stack'[Len(stack) + 1] = [idx |-> i, at |-> 1]
      /\ \A m \in 1 .. Len(stack) : stack'[m] = stack[m]
  <2>1. Len(info) <= Len(info) /\ stack' = Append(stack, [idx |-> i, at |-> 1]) /\ TypeOK
    <3>1. TypeOK /\ stack' = Append(stack, [idx |-> i, at |-> 1])
      BY DEF EnterTracked, Enter, IInv
    <3> QED BY <1>1, <3>1
  <2> QED BY <1>1, <2>1, StackGrows, Zenon
<1>6. i \in 1 .. Len(info) + 1 /\ i # Len(info) + 1 /\ Tracking = 1 .. Len(info)
  BY <1>1 DEF Tracking
<1> HIDE DEF Info
<1> QED BY <1>1, <1>2, <1>3, <1>4, <1>5, <1>6 DEF Entered

EnterNew(k) ==
  /\ k \in Keys /\ k \in Needed /\ Tracked(k) = {}
  /\ Enter(Len(info) + 1, Append(info, Untracked(k, "playing")))

LEMMA NewEntered ==
  ASSUME IInv, NEW k, EnterNew(k)
  PROVE  Entered(Len(info) + 1, k)
<1>1. Len(info) \in Nat /\ info \in Seq(Info) /\ k \in Key /\ k \in Keys /\ k \in Needed
  BY StackFacts, NodeFacts DEF EnterNew, IInv, LoadInv, TypeOK
<1>2. /\ Grows(k, "playing")
      /\ stack' = Append(stack, [idx |-> Len(info) + 1, at |-> 1])
  BY DEF EnterNew, Enter, Grows
<1>3. /\ info' \in Seq(Info) /\ Len(info') = Len(info) + 1
      /\ \A i \in Tracking : info'[i] = info[i]
      /\ info'[Len(info) + 1] = Untracked(k, "playing")
  BY <1>1, <1>2, AppendInfo DEF Mark
<1>4. \A j \in Tracking : info[j].key # k
  BY DEF EnterNew, Tracked, Tracking
<1> DEFINE n == Len(info) + 1
<1>5. n \in Nat /\ Len(info) <= n /\ n \in 1 .. n /\ n \notin Tracking
  BY <1>1 DEF Tracking
<1>6. /\ stack' \in Seq(FrameOf(n)) /\ Len(stack') = Len(stack) + 1
      /\ stack'[Len(stack) + 1] = [idx |-> n, at |-> 1]
      /\ \A m \in 1 .. Len(stack) : stack'[m] = stack[m]
  BY <1>2, <1>5, StackGrows DEF IInv
<1>7. /\ info'[n].key = k /\ info'[n].mark = "playing" /\ info'[n].exf = INVALID_IDX
      /\ info'[n].dependent = FALSE
  <2>1. info'[n] = Untracked(k, "playing")
    BY <1>3
  <2> HIDE DEF n
  <2>2. /\ Untracked(k, "playing").key = k /\ Untracked(k, "playing").mark = "playing"
        /\ Untracked(k, "playing").exf = INVALID_IDX /\ Untracked(k, "playing").dependent = FALSE
    BY DEF Untracked
  <2> QED BY <2>1, <2>2, Zenon
<1> HIDE DEF n
<1>8. Entered(n, k)
  <2>1. n = Len(info) + 1
    BY DEF n
  <2> QED BY <1>1, <1>3, <1>4, <1>5, <1>6, <1>7, <2>1 DEF Entered
<1> QED BY <1>8 DEF n

\* A key comes into play, because load is at it or because the top of the stack
\* refers to it.
LEMMA EnteredStep ==
  ASSUME IInv, NEW i, NEW k, Entered(i, k), phase = "load",
         UNCHANGED <<node, phase, order, limit, txnVars>>,
         \/ root' = root
         \/ root' = root + 1 /\ i = root /\ root <= limit,
         stack # <<>> => AtRef /\ Ref = k
  PROVE  IInv'
<1> DEFINE n == Len(info')
<1>1. /\ Len(info) \in Nat /\ n \in Nat /\ Len(info) <= n /\ i \in 1 .. n
      /\ \A j \in 1 .. n : j \in Tracking \/ j = i
      /\ \A j \in Tracking : j \in 1 .. n
      /\ Len(stack) \in Nat /\ Len(order) \in Nat
      /\ Tracking' = 1 .. n
  <2>1. Len(info) \in Nat /\ Len(stack) \in Nat /\ Len(order) \in Nat
    BY StackFacts, OrderFacts DEF IInv, LoadInv
  <2>2. i \in 1 .. Len(info) + 1 /\ n = IF i = Len(info) + 1 THEN i ELSE Len(info)
    BY DEF Entered
  <2>3. Tracking = 1 .. Len(info) /\ Tracking' = 1 .. n
    BY DEF Tracking
  <2> HIDE DEF n
  <2> QED BY <2>1, <2>2, <2>3
<1>2. /\ info' \in Seq(Info) /\ \A j \in Tracking : j # i => info'[j] = info[j]
      /\ info'[i].key = k /\ info'[i].mark = "playing" /\ info'[i].exf = INVALID_IDX
      /\ k \in Keys /\ k \in Needed /\ \A j \in Tracking : info[j].key = k => j = i
  BY DEF Entered
<1>3. i \in Tracking => /\ info[i].key = k /\ info[i].mark = "none" /\ info[i].exf = INVALID_IDX
                        /\ info'[i].dependent = info[i].dependent
  BY DEF Entered, IInv, LoadInv, Slots
<1>4. /\ stack' \in Seq(FrameOf(n)) /\ Len(stack') = Len(stack) + 1
      /\ stack'[Len(stack) + 1] = [idx |-> i, at |-> 1]
      /\ \A m \in 1 .. Len(stack) : stack'[m] = stack[m]
  BY DEF Entered
<1>5. /\ node' = node /\ phase' = phase /\ order' = order /\ limit' = limit
      /\ UNCHANGED txnVars /\ Keys' = Keys /\ Needed' = Needed
  BY SameNode
<1>6. \A j \in Tracking : info'[j].key = info[j].key /\ info'[j].exf = info[j].exf
  BY <1>2, <1>3
<1>7. TypeOK'
  <2>1. \A j \in 1 .. n : info'[j].exf <= Len(order)
    <3>1. \A j \in 1 .. Len(info) : info[j].exf <= Len(order)
      BY DEF IInv, TypeOK
    <3>2. \A j \in Tracking : info[j].exf <= Len(order)
      BY <3>1 DEF Tracking
    <3>3. INVALID_IDX <= Len(order)
      BY <1>1 DEF INVALID_IDX
    <3> HIDE DEF n
    <3>4. ASSUME NEW j \in Tracking PROVE info'[j].exf <= Len(order)
      BY <1>6, <3>2
    <3> QED BY <1>1, <1>2, <3>3, <3>4
  <2>2. root' \in Nat /\ TypeOK
    <3>1. TypeOK
      BY DEF IInv
    <3>2. root \in Nat
      BY <3>1 DEF TypeOK
    <3>3. root + 1 \in Nat
      BY <3>2
    <3> QED BY <3>1, <3>2, <3>3, Zenon
  <2>3. stack' \in Seq([idx : 1 .. n, at : Nat \ {0}])
    BY <1>4 DEF FrameOf
  <2> QED BY <1>1, <1>2, <1>5, <2>1, <2>2, <2>3, TypeGrows
<1> HIDE DEF n
<1>8. Distinct' /\ Wanted'
  <2>1. \A j \in 1 .. n : \A l \in 1 .. n : info'[j].key = info'[l].key => j = l
    <3>1. ASSUME NEW j \in Tracking, info'[j].key = k PROVE j = i
      BY <3>1, <1>2, <1>6
    <3>2. ASSUME NEW j \in Tracking, NEW l \in Tracking, info'[j].key = info'[l].key PROVE j = l
      BY <3>2, <1>6 DEF IInv, LoadInv, Distinct
    <3>3. info'[i].key = k
      BY <1>2
    <3> QED BY <3>1, <3>2, <3>3, <1>1
  <2>2. \A j \in 1 .. n : info'[j].key \in Keys /\ info'[j].key \in Needed
    BY <1>1, <1>2, <1>6 DEF IInv, LoadInv, Wanted
  <2> QED BY <1>1, <1>5, <2>1, <2>2 DEF Distinct, Wanted
<1>9. \A j \in Tracking : ExprOf(j)' = ExprOf(j)
  BY <1>5, <1>6 DEF ExprOf
<1>10. Slots'
  <2>1. ASSUME NEW s \in 1 .. Len(order)
        PROVE  order[s] \in Tracking /\ info'[order[s]].exf = s
    BY <2>1, <1>6, OrderFacts DEF IInv, LoadInv, Slots
  <2>2. ASSUME NEW j \in 1 .. n, info'[j].exf # INVALID_IDX
        PROVE  order[info'[j].exf] = j /\ info'[j].mark = "done" /\ ~ ExprOf(j)'.literal
    <3>1. j # i /\ j \in Tracking
      BY <2>2, <1>1, <1>2
    <3>2. info'[j] = info[j] /\ ExprOf(j)' = ExprOf(j)
      BY <3>1, <1>2, <1>9
    <3> QED BY <2>2, <3>1, <3>2 DEF IInv, LoadInv, Slots
  <2>3. ASSUME NEW j \in 1 .. n, info'[j].dependent PROVE order # <<>>
    <3>1. j \in Tracking
      BY <2>3, <1>1 DEF Entered
    <3>2. info[j].dependent
      BY <2>3, <3>1, <1>2, <1>3
    <3> QED BY <3>1, <3>2 DEF IInv, LoadInv, Slots
  <2>4. node.form # "map" => order = <<>>
    BY DEF IInv, LoadInv, Slots
  <2> QED BY <1>1, <1>5, <2>1, <2>2, <2>3, <2>4 DEF Slots
<1>11. ASSUME NEW j \in Tracking, NEW p, Settled(j, p) PROVE Settled(j, p)'
  <2>1. Tracking \subseteq Tracking'
    BY <1>1
  <2>2. \A l \in Tracking : info[l].mark = "done" => info'[l].mark = "done"
    BY <1>2, <1>3
  <2>3. info[j].dependent => info'[j].dependent
    <3>1. CASE j # i
      BY <3>1, <1>2
    <3>2. CASE j = i
      BY <3>2, <1>3
    <3> QED BY <3>1, <3>2
  <2> QED BY <1>5, <1>6, <1>11, <2>1, <2>2, <2>3, SettledKept DEF IInv
<1>12. Settling'
  <2>1. ASSUME NEW j \in 1 .. n, info'[j].mark = "done"
        PROVE  /\ ExprOf(j)'.valid
               /\ node.form = "map" => \A p \in 1 .. Len(ExprOf(j)'.refs) : Settled(j, p)'
    <3>1. j # i /\ j \in Tracking
      BY <2>1, <1>1, <1>2
    <3>2. info[j].mark = "done" /\ ExprOf(j)' = ExprOf(j)
      BY <2>1, <3>1, <1>2, <1>9
    <3> QED BY <3>1, <3>2, <1>11 DEF IInv, LoadInv, Settling
  <2>2. ASSUME NEW m \in 1 .. Len(stack), NEW p \in 1 .. stack[m].at - 1
        PROVE  Settled(stack[m].idx, p)'
    <3>1. stack[m].idx \in Tracking
      BY StackFacts DEF IInv, LoadInv
    <3>2. Settled(stack[m].idx, p)
      BY DEF IInv, LoadInv, Settling
    <3>3. stack[m].idx = stack'[m].idx
      BY <1>4
    <3> QED BY <3>1, <3>2, <3>3, <1>11
  <2>3. \A m \in 1 .. Len(stack') : m \in 1 .. Len(stack) \/ m = Len(stack) + 1
    BY <1>1, <1>4
  <2>4. 1 .. stack'[Len(stack) + 1].at - 1 = {}
    BY <1>4
  <2> QED BY <1>1, <1>4, <1>5, <2>1, <2>2, <2>3, <2>4 DEF Settling
<1>13. Frames'
  <2>1. ASSUME NEW m \in 1 .. Len(stack)
        PROVE  /\ stack[m].idx \in Tracking /\ stack[m].idx # i
               /\ info'[stack[m].idx] = info[stack[m].idx]
    <3>1. stack[m].idx \in Tracking /\ info[stack[m].idx].mark = "playing"
      BY StackFacts DEF IInv, LoadInv, Frames
    <3>2. stack[m].idx # i
      BY <3>1, <1>3
    <3>3. info'[stack[m].idx] = info[stack[m].idx]
      BY <3>1, <3>2, <1>2
    <3> QED BY <3>1, <3>2, <3>3
  <2>2. ExprOf(i)' = node.expr[k] /\ 1 <= Len(node.expr[k].refs) + 1
    <3>1. Len(node.expr[k].refs) \in Nat
      BY <1>2, NodeFacts DEF IInv
    <3>2. 1 <= Len(node.expr[k].refs) + 1
      BY <3>1
    <3>3. ExprOf(i)' = node.expr[k]
      BY <1>2, <1>5 DEF ExprOf
    <3> QED BY <3>2, <3>3
  <2>3. \A m \in 1 .. Len(stack') : m \in 1 .. Len(stack) \/ m = Len(stack) + 1
    BY <1>1, <1>4
  <2>4. \A m \in 1 .. Len(stack') :
          /\ info'[stack'[m].idx].mark = "playing"
          /\ stack'[m].at <= Len(node.expr[info'[stack'[m].idx].key].refs) + 1
    <3>1. ASSUME NEW m \in 1 .. Len(stack)
          PROVE  /\ info'[stack'[m].idx].mark = "playing"
                 /\ stack'[m].at <= Len(node.expr[info'[stack'[m].idx].key].refs) + 1
      <4>1. /\ info[stack[m].idx].mark = "playing"
            /\ stack[m].at <= Len(node.expr[info[stack[m].idx].key].refs) + 1
        BY DEF IInv, LoadInv, Frames, ExprOf
      <4>2. stack'[m] = stack[m] /\ info'[stack[m].idx] = info[stack[m].idx]
        BY <2>1, <1>4
      <4> QED BY <4>1, <4>2
    <3>2. /\ info'[stack'[Len(stack) + 1].idx].mark = "playing"
          /\ stack'[Len(stack) + 1].at <= Len(node.expr[info'[stack'[Len(stack) + 1].idx].key].refs) + 1
      <4>1. stack'[Len(stack) + 1].idx = i /\ stack'[Len(stack) + 1].at = 1
        BY <1>4
      <4>2. info'[i].key = k /\ info'[i].mark = "playing"
        BY <1>2
      <4>3. 1 <= Len(node.expr[k].refs) + 1
        BY <2>2
      <4> QED BY <4>1, <4>2, <4>3
    <3> QED BY <3>1, <3>2, <2>3
  <2>5. ASSUME NEW j \in 1 .. n, info'[j].mark = "playing"
        PROVE  \E m \in 1 .. Len(stack') : stack'[m].idx = j
    <3>1. CASE j = i
      BY <3>1, <1>1, <1>4
    <3>2. CASE j # i
      <4>1. j \in Tracking /\ info[j].mark = "playing"
        BY <2>5, <3>2, <1>1, <1>2
      <4>2. PICK m \in 1 .. Len(stack) : stack[m].idx = j
        BY <4>1 DEF IInv, LoadInv, Frames
      <4> QED BY <4>2, <1>1, <1>4
    <3> QED BY <3>1, <3>2
  <2>6. \A m, l \in 1 .. Len(stack') : stack'[m].idx = stack'[l].idx => m = l
    <3>1. \A m, l \in 1 .. Len(stack) : stack[m].idx = stack[l].idx => m = l
      BY DEF IInv, LoadInv, Frames
    <3>2. \A m \in 1 .. Len(stack) : stack'[m].idx # stack'[Len(stack) + 1].idx
      BY <2>1, <1>4
    <3> QED BY <3>1, <3>2, <2>3, <1>4
  <2>7. ASSUME NEW m \in 1 .. Len(stack') - 1
        PROVE  /\ stack'[m].at <= Len(node.expr[info'[stack'[m].idx].key].refs)
               /\ node.expr[info'[stack'[m].idx].key].refs[stack'[m].at]
                    = info'[stack'[m + 1].idx].key
    <3>1. m \in 1 .. Len(stack) /\ stack'[m] = stack[m] /\ info'[stack[m].idx] = info[stack[m].idx]
      BY <1>1, <1>4, <2>1
    <3>2. CASE m = Len(stack)
      <4>1. stack # <<>>
        BY <3>1, <3>2
      <4>2. AtRef /\ Ref = k /\ Top = stack[m]
        BY <4>1, <3>2 DEF Top
      <4>3. stack'[m + 1].idx = i
        BY <3>2, <1>4
      <4> QED BY <4>2, <4>3, <3>1, <1>2 DEF AtRef, Ref, ExprOf
    <3>3. CASE m # Len(stack)
      <4>1. m \in 1 .. Len(stack) - 1 /\ m + 1 \in 1 .. Len(stack)
        BY <3>1, <3>3, <1>1
      <4>2. stack'[m + 1] = stack[m + 1] /\ info'[stack[m + 1].idx] = info[stack[m + 1].idx]
        BY <4>1, <2>1, <1>4
      <4>3. /\ stack[m].at <= Len(node.expr[info[stack[m].idx].key].refs)
            /\ node.expr[info[stack[m].idx].key].refs[stack[m].at] = info[stack[m + 1].idx].key
        BY <4>1 DEF IInv, LoadInv, Frames, ExprOf
      <4> QED BY <4>2, <4>3, <3>1
    <3> QED BY <3>2, <3>3
  <2> QED BY <1>1, <1>5, <2>4, <2>5, <2>6, <2>7 DEF Frames, ExprOf
<1>14. RootInv'
  <2>1. /\ node.form = "map" /\ Required \subseteq Keys /\ root \in 1 .. limit + 1
        /\ \A l \in Listing \intersect Keys : \E j \in Tracking : info[j].key = l
        /\ \A j \in Tracking : info[j].mark = "none" => j \in root .. limit
    BY DEF IInv, LoadInv, RootInv
  <2>2. limit \in Int
    BY <1>1 DEF IInv, TypeOK
  <2>3. root' \in 1 .. limit + 1
    BY <2>1, <2>2
  <2>4. \A l \in Listing \intersect Keys : \E j \in 1 .. n : info'[j].key = l
    BY <2>1, <1>1, <1>6
  <2>5. ASSUME NEW j \in 1 .. n, info'[j].mark = "none" PROVE j \in root' .. limit
    <3>1. j # i /\ j \in Tracking /\ info[j].mark = "none"
      BY <2>5, <1>1, <1>2
    <3> QED BY <3>1, <2>1, <2>2
  <2> QED BY <1>1, <1>5, <2>1, <2>3, <2>4, <2>5 DEF RootInv
<1> QED BY <1>5, <1>7, <1>8, <1>10, <1>12, <1>13, <1>14, NoCache DEF IInv, LoadInv, Verdict

LEMMA LoadRootStep ==
  ASSUME IInv, LoadRoot
  PROVE  IInv'
<1>1. /\ phase = "load" /\ stack = <<>> /\ root <= limit /\ root' = root + 1
      /\ UNCHANGED <<node, phase, order, limit, txnVars>>
  BY DEF LoadRoot
<1>2. root \in Tracking /\ limit \in Nat /\ limit <= Len(info) /\ Len(info) \in Nat
  <2>1. limit \in 0 .. Len(info) /\ Len(info) \in Nat
    BY StackFacts DEF IInv, TypeOK, LoadInv
  <2>2. root \in 1 .. limit + 1
    BY <1>1 DEF IInv, LoadInv, RootInv
  <2> QED BY <1>1, <2>1, <2>2 DEF Tracking
<1>3. CASE info[root].mark = "none"
  <2>1. EnterTracked(root)
    BY <1>2, <1>3 DEF LoadRoot, EnterTracked
  <2>2. Entered(root, info[root].key)
    BY <2>1, TrackedEntered
  <2> QED BY <1>1, <2>2, EnteredStep
<1>4. CASE info[root].mark # "none"
  <2>1. info' = info /\ stack' = stack
    BY <1>4 DEF LoadRoot
  <2>2. (Distinct /\ Wanted /\ Slots /\ Settling /\ Frames)'
    BY <1>1, <2>1, SameInfo DEF IInv
  <2>3. TypeOK'
    <3>1. root' \in Nat /\ Len(info) <= Len(info)
      BY <1>1, <1>2 DEF Tracking
    <3>2. /\ info' \in Seq(Info) /\ \A i \in 1 .. Len(info') : info'[i].exf <= Len(order)
          /\ stack' \in Seq([idx : 1 .. Len(info'), at : Nat \ {0}])
      BY <2>1 DEF IInv, TypeOK
    <3> QED BY <1>1, <2>1, <3>1, <3>2, TypeGrows DEF IInv
  <2>4. RootInv'
    <3>1. \A i \in Tracking : info[i].mark = "none" => i \in root .. limit /\ i # root
      BY <1>1, <1>4 DEF IInv, LoadInv, RootInv
    <3>2. \A i \in Tracking : info[i].mark = "none" => i \in root' .. limit
      BY <1>1, <1>2, <3>1 DEF Tracking
    <3>3. root' \in 1 .. limit + 1
      BY <1>1, <1>2 DEF Tracking
    <3>4. Keys' = Keys
      BY <1>1, SameNode
    <3> QED BY <1>1, <2>1, <3>2, <3>3, <3>4 DEF IInv, LoadInv, RootInv, Tracking
  <2> QED BY <1>1, <2>2, <2>3, <2>4, NoCache DEF IInv, LoadInv, Verdict
<1> QED BY <1>3, <1>4

LEMMA DescendStep ==
  ASSUME IInv, Descend
  PROVE  IInv'
<1>1. /\ AtRef /\ Loading /\ phase = "load" /\ Ref \in Keys /\ root' = root
      /\ UNCHANGED <<node, phase, order, limit, txnVars>>
  BY DEF Descend, AtRef, Loading
<1>2. Ref \in Needed
  BY <1>1, TopFacts
<1>3. CASE Tracked(Ref) = {} /\ Enter(Len(info) + 1, Append(info, Untracked(Ref, "playing")))
  <2>1. EnterNew(Ref)
    BY <1>1, <1>2, <1>3 DEF EnterNew
  <2>2. Entered(Len(info) + 1, Ref)
    BY <2>1, NewEntered
  <2> QED BY <1>1, <2>2, EnteredStep
<1>4. CASE \E i \in Tracked(Ref) : info[i].mark = "none" /\ Enter(i, InPlay(i))
  <2>1. PICK i \in Tracked(Ref) : info[i].mark = "none" /\ Enter(i, InPlay(i))
    BY <1>4
  <2>2. EnterTracked(i) /\ info[i].key = Ref
    BY <2>1 DEF EnterTracked, Tracked, Tracking
  <2>3. Entered(i, Ref)
    BY <2>2, TrackedEntered
  <2> QED BY <1>1, <2>3, EnteredStep
<1> QED BY <1>3, <1>4 DEF Descend

-----------------------------------------------------------------------------
\* The top of the stack goes on to its next reference.
LEMMA NextRefFacts ==
  ASSUME TypeOK, stack # <<>>, NextRef
  PROVE  /\ stack' \in Seq(FrameOf(Len(info))) /\ Len(stack') = Len(stack)
         /\ \A m \in 1 .. Len(stack) : stack'[m].idx = stack[m].idx
         /\ \A m \in 1 .. Len(stack) - 1 : stack'[m].at = stack[m].at
         /\ stack'[Len(stack)].at = Top.at + 1
<1>1. stack \in Seq(FrameOf(Len(info))) /\ Len(stack) \in Nat \ {0} /\ DOMAIN stack = 1 .. Len(stack)
  BY EmptySeq, LenProperties DEF TypeOK, FrameOf
<1>2. \A m \in 1 .. Len(stack) : stack[m] \in FrameOf(Len(info))
  BY <1>1, ElementOfSeq
<1> DEFINE e == [idx |-> Top.idx, at |-> Top.at + 1]
<1>3. e \in FrameOf(Len(info))
  <2>1. Len(stack) \in 1 .. Len(stack)
    BY <1>1
  <2>2. Top \in FrameOf(Len(info))
    BY <1>2, <2>1 DEF Top
  <2> QED BY <2>2 DEF FrameOf
<1>4. /\ stack' = [m \in 1 .. Len(stack) |-> stack'[m]]
      /\ stack'[Len(stack)] = e
      /\ \A m \in 1 .. Len(stack) : m # Len(stack) => stack'[m] = stack[m]
  <2>1. Len(stack) \in DOMAIN stack /\ [Top EXCEPT !.at = @ + 1] = e
    <3>1. Top \in FrameOf(Len(info))
      BY <1>1, <1>2 DEF Top
    <3> QED BY <1>1, <3>1 DEF FrameOf
  <2>2. stack' = [stack EXCEPT ![Len(stack)] = [Top EXCEPT !.at = @ + 1]]
    BY DEF NextRef, Top
  <2>3. stack' = [stack EXCEPT ![Len(stack)] = e]
    BY <2>1, <2>2
  <2> HIDE DEF e
  <2> QED BY <1>1, <2>1, <2>3
<1>5. \A m \in 1 .. Len(stack) : stack'[m] \in FrameOf(Len(info))
  <2> HIDE DEF e
  <2> QED BY <1>2, <1>3, <1>4
<1>6. stack' \in Seq(FrameOf(Len(info))) /\ Len(stack') = Len(stack)
  BY <1>1, <1>4, <1>5, IsSeq
<1>7. e.idx = Top.idx /\ e.at = Top.at + 1
  OBVIOUS
<1> HIDE DEF e
<1> QED BY <1>1, <1>4, <1>6, <1>7 DEF Top

DependentSet(s, i, t) == t = [s EXCEPT ![i].dependent = TRUE]
SlotSet(s, d, i, x, t) == t = [s EXCEPT ![d].dependent = TRUE, ![i].exf = x]

LEMMA SetDependent ==
  ASSUME NEW s \in Seq(Info), NEW i \in 1 .. Len(s), NEW t, DependentSet(s, i, t)
  PROVE  /\ t \in Seq(Info) /\ Len(t) = Len(s)
         /\ \A j \in 1 .. Len(s) : j # i => t[j] = s[j]
         /\ t[i].key = s[i].key /\ t[i].mark = s[i].mark /\ t[i].exf = s[i].exf
         /\ t[i].dependent = TRUE
<1> DEFINE e == [s[i] EXCEPT !.dependent = TRUE]
<1>1. \A j \in 1 .. Len(s) : s[j] \in Info
  BY ElementOfSeq
<1>2. e \in Info /\ e.key = s[i].key /\ e.mark = s[i].mark /\ e.exf = s[i].exf /\ e.dependent = TRUE
  BY <1>1 DEF Info
<1>3. Len(s) \in Nat /\ DOMAIN s = 1 .. Len(s)
  BY LenProperties
<1>4. t = [j \in 1 .. Len(s) |-> t[j]] /\ t[i] = e /\ \A j \in 1 .. Len(s) : j # i => t[j] = s[j]
  BY <1>3 DEF DependentSet
<1>5. \A j \in 1 .. Len(s) : t[j] \in Info
  <2> HIDE DEF e
  <2> QED BY <1>1, <1>2, <1>4
<1> HIDE DEF e
<1>6. t \in Seq(Info) /\ Len(t) = Len(s)
  BY <1>3, <1>4, <1>5, IsSeq
<1> QED BY <1>2, <1>6, <1>4, Zenon

SlotIsSet(s, d, i, x, t) ==
  /\ t \in Seq(Info) /\ Len(t) = Len(s)
  /\ \A j \in 1 .. Len(s) : j # d /\ j # i => t[j] = s[j]
  /\ t[d].key = s[d].key /\ t[d].mark = s[d].mark /\ t[d].exf = s[d].exf
  /\ t[d].dependent = TRUE
  /\ t[i].key = s[i].key /\ t[i].mark = s[i].mark /\ t[i].exf = x
  /\ t[i].dependent = s[i].dependent

LEMMA SetSlot ==
  ASSUME NEW s \in Seq(Info), NEW d \in 1 .. Len(s), NEW i \in 1 .. Len(s), d # i,
         NEW x \in Nat, NEW t, SlotSet(s, d, i, x, t)
  PROVE  SlotIsSet(s, d, i, x, t)
<1> DEFINE e == [s[d] EXCEPT !.dependent = TRUE]
           f == [s[i] EXCEPT !.exf = x]
<1>1. \A j \in 1 .. Len(s) : s[j] \in Info
  BY ElementOfSeq
<1>2. /\ e \in Info /\ e.key = s[d].key /\ e.mark = s[d].mark /\ e.exf = s[d].exf
      /\ e.dependent = TRUE
      /\ f \in Info /\ f.key = s[i].key /\ f.mark = s[i].mark /\ f.exf = x
      /\ f.dependent = s[i].dependent
  BY <1>1 DEF Info
<1>3. Len(s) \in Nat /\ DOMAIN s = 1 .. Len(s)
  BY LenProperties
<1>4. /\ t = [j \in 1 .. Len(s) |-> t[j]] /\ t[d] = e /\ t[i] = f
      /\ \A j \in 1 .. Len(s) : j # d /\ j # i => t[j] = s[j]
  BY <1>3 DEF SlotSet
<1>5. \A j \in 1 .. Len(s) : t[j] \in Info
  <2> HIDE DEF e, f
  <2> QED BY <1>1, <1>2, <1>4
<1> HIDE DEF e, f
<1>6. t \in Seq(Info) /\ Len(t) = Len(s)
  BY <1>3, <1>4, <1>5, IsSeq
<1> QED BY <1>2, <1>6, <1>4, Zenon DEF SlotIsSet

\* What Refer does to the keys, for the key at index i.
Referred(i) ==
  /\ i \in Tracking /\ info[i].key = Ref /\ info[i].mark = "done"
  /\ info' \in Seq(Info) /\ Len(info') = Len(info)
  /\ \A j \in Tracking : info'[j].key = info[j].key /\ info'[j].mark = info[j].mark
  /\ \A j \in Tracking : info[j].dependent => info'[j].dependent
  /\ \A j \in Tracking : info'[j].dependent => info[j].dependent \/ ~ ExprOf(i).literal
  /\ ~ ExprOf(i).literal => info'[Top.idx].dependent
  /\ \A j \in Tracking : j # i => info'[j].exf = info[j].exf
  /\ \/ /\ ExprOf(i).literal \/ info[i].exf # INVALID_IDX
        /\ info'[i].exf = info[i].exf /\ order' = order
     \/ /\ ~ ExprOf(i).literal /\ info[i].exf = INVALID_IDX
        /\ info'[i].exf = Len(order) + 1 /\ order' = Append(order, i)

LEMMA ReferIsReferred ==
  ASSUME IInv, Refer
  PROVE  \E i : Referred(i)
<1>1. PICK i \in Tracked(Ref) :
        /\ info[i].mark = "done"
        /\ IF ExprOf(i).literal THEN UNCHANGED <<info, order>>
           ELSE IF info[i].exf # INVALID_IDX
           THEN info' = [info EXCEPT ![Top.idx].dependent = TRUE] /\ UNCHANGED order
           ELSE /\ info' = [info EXCEPT ![Top.idx].dependent = TRUE,
                                        ![i].exf = Len(order) + 1]
                /\ order' = Append(order, i)
  BY DEF Refer
<1>2. i \in Tracking /\ info[i].key = Ref /\ info[i].mark = "done"
  BY <1>1 DEF Tracked, Tracking
<1>3. PICK d : d = Top.idx
  OBVIOUS
<1>4. d \in Tracking /\ info[d].mark = "playing" /\ d # i
  BY <1>2, <1>3, TopFacts DEF Refer, AtRef
<1>5. info \in Seq(Info) /\ Tracking = 1 .. Len(info)
  BY DEF IInv, TypeOK, Tracking
<1>6. CASE ExprOf(i).literal
  <2>1. info' = info /\ order' = order
    BY <1>1, <1>6
  <2> QED BY <1>2, <1>5, <1>6, <2>1 DEF Referred
<1>7. CASE ~ ExprOf(i).literal /\ info[i].exf # INVALID_IDX
  <2>1. DependentSet(info, d, info') /\ order' = order
    BY <1>1, <1>3, <1>7 DEF DependentSet
  <2>2. /\ info' \in Seq(Info) /\ Len(info') = Len(info)
        /\ \A j \in Tracking : j # d => info'[j] = info[j]
        /\ info'[d].key = info[d].key /\ info'[d].mark = info[d].mark
        /\ info'[d].exf = info[d].exf /\ info'[d].dependent = TRUE
    BY <1>4, <1>5, <2>1, SetDependent
  <2>3. order' = order
    BY <2>1
  <2> QED BY <1>2, <1>3, <1>4, <1>7, <2>2, <2>3 DEF Referred
<1>8. CASE ~ ExprOf(i).literal /\ info[i].exf = INVALID_IDX
  <2>1. PICK x \in Nat : x = Len(order) + 1
    BY OrderFacts DEF IInv
  <2>2. order' = Append(order, i)
    BY <1>1, <1>8
  <2>3. SlotSet(info, d, i, x, info')
    BY <1>1, <1>3, <1>8, <2>1 DEF SlotSet
  <2>4. /\ info' \in Seq(Info) /\ Len(info') = Len(info)
        /\ \A j \in Tracking : j # d /\ j # i => info'[j] = info[j]
        /\ info'[d].key = info[d].key /\ info'[d].mark = info[d].mark
        /\ info'[d].exf = info[d].exf /\ info'[d].dependent = TRUE
        /\ info'[i].key = info[i].key /\ info'[i].mark = info[i].mark
        /\ info'[i].exf = x /\ info'[i].dependent = info[i].dependent
    <3>1. i \in 1 .. Len(info) /\ d \in 1 .. Len(info) /\ d # i
      BY <1>2, <1>4, <1>5
    <3>2. SlotIsSet(info, d, i, x, info')
      BY <1>5, <2>3, <3>1, SetSlot
    <3> QED BY <1>5, <3>2 DEF SlotIsSet
  <2> QED BY <1>2, <1>3, <1>4, <1>8, <2>1, <2>2, <2>4 DEF Referred
<1> QED BY <1>6, <1>7, <1>8

LEMMA ReferStep ==
  ASSUME IInv, Refer
  PROVE  IInv'
<1>1. PICK i : Referred(i)
  BY ReferIsReferred
<1> DEFINE L == Len(order)
<1>0. PICK d, q : d = Top.idx /\ q = Top.at
  OBVIOUS
<1>2. /\ AtRef /\ Loading /\ phase = "load" /\ NextRef /\ stack # <<>>
      /\ node' = node /\ phase' = phase /\ root' = root /\ limit' = limit /\ UNCHANGED txnVars
      /\ Keys' = Keys /\ Needed' = Needed
  BY SameNode DEF Refer, AtRef, Loading
<1>3. /\ d \in Tracking /\ info[d].mark = "playing" /\ node.form = "map"
      /\ Ref = ExprOf(d).refs[q] /\ q \in Nat \ {0} /\ q <= Len(ExprOf(d).refs)
      /\ Len(ExprOf(d).refs) \in Nat
  <2>1. Len(ExprOf(d).refs) \in Nat
    BY <1>2, <1>0, TopFacts, NodeFacts DEF IInv, ExprOf
  <2> QED BY <2>1, <1>2, <1>0, TopFacts DEF AtRef
<1>4. /\ i \in Tracking /\ info[i].key = Ref /\ info[i].mark = "done"
      /\ info' \in Seq(Info) /\ Len(info') = Len(info)
      /\ \A j \in Tracking : info'[j].key = info[j].key /\ info'[j].mark = info[j].mark
      /\ \A j \in Tracking : info[j].dependent => info'[j].dependent
      /\ \A j \in Tracking : info'[j].dependent => info[j].dependent \/ ~ ExprOf(i).literal
      /\ ~ ExprOf(i).literal => info'[d].dependent
      /\ \A j \in Tracking : j # i => info'[j].exf = info[j].exf
  BY <1>1, <1>0 DEF Referred
<1>5. \/ /\ ExprOf(i).literal \/ info[i].exf # INVALID_IDX
         /\ info'[i].exf = info[i].exf /\ order' = order
      \/ /\ ~ ExprOf(i).literal /\ info[i].exf = INVALID_IDX
         /\ info'[i].exf = L + 1 /\ order' = Append(order, i)
  BY <1>1 DEF Referred
<1>6. /\ stack' \in Seq(FrameOf(Len(info))) /\ Len(stack') = Len(stack)
      /\ \A m \in 1 .. Len(stack) : stack'[m].idx = stack[m].idx
      /\ \A m \in 1 .. Len(stack) - 1 : stack'[m].at = stack[m].at
      /\ stack'[Len(stack)].at = q + 1 /\ stack[Len(stack)].idx = d
  BY <1>2, <1>0, NextRefFacts DEF IInv, Top
<1>7. /\ L \in Nat /\ Len(info) \in Nat /\ Len(stack) \in Nat \ {0}
      /\ Tracking' = Tracking /\ Tracking = 1 .. Len(info)
      /\ order \in Seq(1 .. Len(info))
      /\ \A s \in 1 .. L : order[s] \in Tracking
      /\ \A j \in Tracking : info[j].exf \in Nat /\ info[j].exf <= L
  <2>1. Len(stack) \in Nat \ {0} /\ Len(info) \in Nat
    BY <1>2, StackFacts, EmptySeq DEF IInv, LoadInv
  <2>2. Tracking' = Tracking
    BY <1>4 DEF Tracking
  <2> QED BY <2>1, <2>2, OrderFacts DEF IInv, TypeOK, Tracking
<1> HIDE DEF L
<1>8. \A j \in Tracking : ExprOf(j)' = ExprOf(j)
  BY <1>2, <1>4 DEF ExprOf
<1>9. order' = order \/ order' = Append(order, i)
  BY <1>5
<1>10. /\ order' \in Seq(1 .. Len(info)) /\ Len(order') \in Nat /\ L <= Len(order')
       /\ \A s \in 1 .. L : order'[s] = order[s]
       /\ order' = Append(order, i) => Len(order') = L + 1 /\ order'[L + 1] = i
  <2>1. CASE order' = order
    <3>1. Append(order, i) # order
      BY <1>4, <1>7, AppendProperties DEF L
    <3> QED BY <2>1, <3>1, <1>7 DEF L
  <2>2. CASE order' = Append(order, i)
    <3>1. i \in 1 .. Len(info)
      BY <1>4, <1>7
    <3> QED BY <2>2, <3>1, <1>7, AppendProperties DEF L
  <2> QED BY <2>1, <2>2, <1>9
<1>11. \A j \in Tracking : info'[j].exf <= Len(order')
  <2>1. ASSUME NEW j \in Tracking, j # i PROVE info'[j].exf <= Len(order')
    <3>1. info'[j].exf = info[j].exf
      BY <2>1, <1>4
    <3>2. info[j].exf \in Nat /\ info[j].exf <= L
      BY <1>7
    <3> QED BY <3>1, <3>2, <1>7, <1>10
  <2>2. info'[i].exf <= Len(order')
    <3>1. info[i].exf \in Nat /\ info[i].exf <= L
      BY <1>4, <1>7
    <3>2. CASE info'[i].exf = info[i].exf
      BY <3>1, <3>2, <1>7, <1>10
    <3>3. CASE info'[i].exf = L + 1 /\ order' = Append(order, i)
      BY <3>3, <1>7, <1>10
    <3> QED BY <3>2, <3>3, <1>5
  <2> QED BY <2>1, <2>2
<1>12. TypeOK'
  <2>1. features = <<>> /\ fill = 0
    BY <1>2 DEF IInv, CacheInv
  <2>2. features' = <<>> /\ fill' = 0 /\ asked' = asked /\ now' = now /\ seen' = seen
    BY <1>2, <2>1 DEF txnVars
  <2>3. asked \in 0 .. Len(info') /\ now \in 0 .. MaxTime /\ seen \subseteq Key \X (Value \union {Unset})
    BY <1>4 DEF IInv, TypeOK
  <2>4. /\ node' \in Nodes /\ phase' \in {"begin", "load", "failed", "ready"}
        /\ limit' \in 0 .. Len(info') /\ root' \in Nat
    BY <1>2, <1>4 DEF IInv, TypeOK
  <2>5. fill' \in 0 .. Len(order')
    BY <1>10, <2>2
  <2>6. features' \in Seq(Value \union {Unset}) /\ Len(features') \in {0, Len(order')}
    BY <2>2, EmptySeq
  <2>7. \A j \in 1 .. Len(info') : info'[j].exf <= Len(order')
    BY <1>4, <1>7, <1>11
  <2>8. /\ order' \in Seq(1 .. Len(info')) /\ stack' \in Seq([idx : 1 .. Len(info'), at : Nat \ {0}])
        /\ info' \in Seq(Info)
    BY <1>4, <1>6, <1>10 DEF FrameOf
  <2>9. asked' \in 0 .. Len(info') /\ now' \in 0 .. MaxTime /\ seen' \subseteq Key \X (Value \union {Unset})
    BY <2>2, <2>3
  <2> QED BY <2>4, <2>5, <2>6, <2>7, <2>8, <2>9, Zenon DEF TypeOK
<1>13. Distinct' /\ Wanted'
  <2>1. \A j \in Tracking : info'[j].key = info[j].key
    BY <1>4
  <2>2. Tracking' = Tracking /\ Keys' = Keys /\ Needed' = Needed
    BY <1>2, <1>7
  <2> QED BY <2>1, <2>2 DEF IInv, LoadInv, Distinct, Wanted
<1>14. Slots'
  <2>1. ASSUME NEW s \in 1 .. Len(order') PROVE info'[order'[s]].exf = s
    <3>1. CASE s \in 1 .. L
      <4>1. order[s] \in Tracking /\ info[order[s]].exf = s /\ order'[s] = order[s]
        BY <3>1, <1>7, <1>10 DEF IInv, LoadInv, Slots, L
      <4>2. s # INVALID_IDX
        BY <3>1 DEF INVALID_IDX
      <4> QED BY <4>1, <4>2, <1>4, <1>5
    <3>2. CASE s \notin 1 .. L
      <4>1. order' # order
        BY <3>2 DEF L
      <4>2. s = L + 1 /\ order'[s] = i /\ info'[i].exf = L + 1
        BY <3>2, <4>1, <1>5, <1>7, <1>10
      <4> QED BY <4>2
    <3> QED BY <3>1, <3>2
  <2>2. ASSUME NEW j \in Tracking, info'[j].exf # INVALID_IDX
        PROVE  order'[info'[j].exf] = j /\ info'[j].mark = "done" /\ ~ ExprOf(j)'.literal
    <3>1. CASE info[j].exf # INVALID_IDX
      <4>1. info'[j].exf = info[j].exf
        BY <3>1, <1>4, <1>5
      <4>2. order[info[j].exf] = j /\ info[j].mark = "done" /\ ~ ExprOf(j).literal
        BY <3>1 DEF IInv, LoadInv, Slots
      <4>3. info[j].exf \in 1 .. L
        BY <3>1, <1>7 DEF INVALID_IDX
      <4> QED BY <4>1, <4>2, <4>3, <1>4, <1>8, <1>10
    <3>2. CASE info[j].exf = INVALID_IDX
      <4>1. j = i
        BY <2>2, <3>2, <1>4
      <4>2. info'[i].exf = L + 1 /\ order' = Append(order, i) /\ ~ ExprOf(i).literal
        BY <2>2, <3>2, <4>1, <1>5
      <4> QED BY <4>1, <4>2, <1>4, <1>8, <1>10
    <3> QED BY <3>1, <3>2
  <2>3. ASSUME NEW j \in Tracking, info'[j].dependent PROVE order' # <<>>
    <3>1. CASE info[j].dependent \/ info[i].exf # INVALID_IDX
      <4>1. order # <<>>
        <5>1. CASE info[j].dependent
          BY <5>1 DEF IInv, LoadInv, Slots
        <5>2. CASE info[i].exf # INVALID_IDX
          <6>1. 1 <= L
            BY <5>2, <1>4, <1>7 DEF INVALID_IDX
          <6> QED BY <6>1 DEF L
        <5> QED BY <3>1, <5>1, <5>2
      <4>2. L # 0
        BY <4>1, EmptySeq, <1>7 DEF L
      <4> QED BY <4>2, <1>7, <1>10
    <3>2. CASE ~ info[j].dependent /\ info[i].exf = INVALID_IDX
      <4>1. order' = Append(order, i)
        BY <2>3, <3>2, <1>4, <1>5
      <4> QED BY <4>1, <1>7, <1>10
    <3> QED BY <3>1, <3>2
  <2> QED BY <1>2, <1>3, <1>7, <2>1, <2>2, <2>3 DEF Slots
<1>15. ASSUME NEW j \in Tracking, NEW p, Settled(j, p) PROVE Settled(j, p)'
  <2>1. \A l \in Tracking : info[l].exf # INVALID_IDX => info'[l].exf = info[l].exf
    BY <1>4, <1>5
  <2>2. info'[j].exf = info[j].exf \/ info'[j].exf = Len(order) + 1
    BY <1>4, <1>5 DEF L
  <2> QED BY <1>2, <1>4, <1>7, <1>15, <2>1, <2>2, SettledKept DEF IInv
<1>16. Settled(d, q)'
  <2>1. ExprOf(d)' = ExprOf(d) /\ ExprOf(i)' = ExprOf(i)
    BY <1>3, <1>4, <1>8
  <2>2. info'[d].exf = INVALID_IDX
    <3>1. info[d].exf = INVALID_IDX /\ d # i
      BY <1>3, <1>4 DEF IInv, LoadInv, Slots
    <3> QED BY <3>1, <1>3, <1>4
  <2>3. ~ ExprOf(i).literal => info'[i].exf # INVALID_IDX
    BY <1>5, <1>7 DEF INVALID_IDX
  <2>4. info'[i].key = ExprOf(d)'.refs[q] /\ info'[i].mark = "done" /\ i \in Tracking'
    BY <2>1, <1>3, <1>4, <1>7
  <2> QED BY <2>1, <2>2, <2>3, <2>4, <1>4 DEF Settled
<1>17. Settling'
  <2>1. ASSUME NEW j \in Tracking, info'[j].mark = "done"
        PROVE  /\ ExprOf(j)'.valid
               /\ node.form = "map" => \A p \in 1 .. Len(ExprOf(j)'.refs) : Settled(j, p)'
    <3>1. info[j].mark = "done" /\ ExprOf(j)' = ExprOf(j)
      BY <2>1, <1>4, <1>8
    <3> QED BY <3>1, <1>15 DEF IInv, LoadInv, Settling
  <2>2. ASSUME NEW m \in 1 .. Len(stack), NEW p \in 1 .. stack'[m].at - 1
        PROVE  Settled(stack[m].idx, p)' 
    <3>1. PICK j : j = stack[m].idx
      OBVIOUS
    <3>2. j \in Tracking /\ stack'[m].idx = j
      BY <3>1, <1>6, StackFacts DEF IInv, LoadInv
    <3>3. CASE m # Len(stack) \/ p # q
      <4>1. p \in 1 .. stack[m].at - 1
        <5>1. CASE m # Len(stack)
          BY <5>1, <1>6, <1>7
        <5>2. CASE m = Len(stack) /\ p # q
          <6>1. stack[m].at = q
            BY <5>2, <1>0 DEF Top
          <6>2. stack'[m].at = q + 1
            BY <5>2, <1>6
          <6>3. q \in Nat
            BY <1>3
          <6>4. p \in 1 .. q + 1 - 1 /\ q \in Nat
            BY <6>2, <6>3
          <6>5. p \in 1 .. q - 1
            BY <5>2, <6>4
          <6> QED BY <6>1, <6>5
        <5> QED BY <3>3, <5>1, <5>2
      <4>2. Settled(j, p)
        BY <3>1, <4>1 DEF IInv, LoadInv, Settling
      <4> QED BY <3>2, <4>2, <1>15
    <3>4. CASE m = Len(stack) /\ p = q
      BY <3>1, <3>2, <3>4, <1>6, <1>16
    <3> QED BY <3>3, <3>4
  <2> QED BY <1>2, <1>6, <1>7, <2>1, <2>2 DEF Settling
<1>18. Frames'
  <2>1. ASSUME NEW m \in 1 .. Len(stack)
        PROVE  /\ info'[stack'[m].idx].mark = "playing"
               /\ stack'[m].at <= Len(node.expr[info'[stack'[m].idx].key].refs) + 1
    <3>1. PICK j \in Tracking : j = stack[m].idx
      BY StackFacts DEF IInv, LoadInv
    <3>2. /\ info[j].mark = "playing" /\ stack[m].at <= Len(node.expr[info[j].key].refs) + 1
          /\ info'[j].mark = info[j].mark /\ info'[j].key = info[j].key /\ stack'[m].idx = j
      BY <3>1, <1>4, <1>6 DEF IInv, LoadInv, Frames, ExprOf
    <3>3. stack'[m].at <= Len(node.expr[info[j].key].refs) + 1
      <4>1. CASE m = Len(stack)
        <5>1. j = d /\ stack'[m].at = q + 1
          BY <3>1, <4>1, <1>6
        <5>2. Len(node.expr[info[j].key].refs) \in Nat /\ q <= Len(node.expr[info[j].key].refs)
          BY <5>1, <1>3 DEF ExprOf
        <5>3. q + 1 <= Len(node.expr[info[j].key].refs) + 1
          <6>1. q \in Nat
            BY <1>3
          <6> DEFINE R == Len(node.expr[info[j].key].refs)
          <6>2. R \in Nat /\ q <= R
            BY <5>2
          <6> HIDE DEF R
          <6>3. q + 1 <= R + 1
            BY <6>1, <6>2
          <6> QED BY <6>3 DEF R
        <5> QED BY <5>1, <5>3
      <4>2. CASE m # Len(stack)
        <5>1. m \in 1 .. Len(stack) - 1
          BY <4>2, <1>7
        <5>2. stack'[m].at = stack[m].at
          BY <5>1, <1>6
        <5> QED BY <3>2, <5>2
      <4> QED BY <4>1, <4>2
    <3> QED BY <3>2, <3>3
  <2>2. ASSUME NEW j \in Tracking, info'[j].mark = "playing"
        PROVE  \E m \in 1 .. Len(stack) : stack'[m].idx = j
    <3>1. info[j].mark = "playing"
      BY <2>2, <1>4
    <3>2. PICK m \in 1 .. Len(stack) : stack[m].idx = j
      BY <3>1 DEF IInv, LoadInv, Frames
    <3> QED BY <3>2, <1>6
  <2>3. \A m, l \in 1 .. Len(stack) : stack'[m].idx = stack'[l].idx => m = l
    BY <1>6 DEF IInv, LoadInv, Frames
  <2>4. ASSUME NEW m \in 1 .. Len(stack) - 1
        PROVE  /\ stack'[m].at <= Len(node.expr[info'[stack'[m].idx].key].refs)
               /\ node.expr[info'[stack'[m].idx].key].refs[stack'[m].at]
                    = info'[stack'[m + 1].idx].key
    <3>1. m \in 1 .. Len(stack) /\ m + 1 \in 1 .. Len(stack)
      BY <1>7
    <3>2. /\ stack[m].at <= Len(node.expr[info[stack[m].idx].key].refs)
          /\ node.expr[info[stack[m].idx].key].refs[stack[m].at] = info[stack[m + 1].idx].key
      BY DEF IInv, LoadInv, Frames, ExprOf
    <3>3. stack[m].idx \in Tracking /\ stack[m + 1].idx \in Tracking
      BY <3>1, StackFacts DEF IInv, LoadInv
    <3>4. /\ info'[stack[m].idx].key = info[stack[m].idx].key
          /\ info'[stack[m + 1].idx].key = info[stack[m + 1].idx].key
      BY <3>3, <1>4
    <3>5. stack'[m].idx = stack[m].idx /\ stack'[m + 1].idx = stack[m + 1].idx /\ stack'[m].at = stack[m].at
      BY <3>1, <1>6
    <3> QED BY <3>2, <3>4, <3>5
  <2> QED BY <1>2, <1>6, <1>7, <2>1, <2>2, <2>3, <2>4 DEF Frames, ExprOf
<1>19. RootInv'
  <2>1. \A j \in Tracking : info'[j].key = info[j].key /\ info'[j].mark = info[j].mark
    BY <1>4
  <2>2. Tracking' = Tracking /\ Keys' = Keys
    BY <1>2, <1>7
  <2> QED BY <1>2, <2>1, <2>2 DEF IInv, LoadInv, RootInv
<1> QED BY <1>2, <1>12, <1>13, <1>14, <1>17, <1>18, <1>19, NoCache DEF IInv, LoadInv, Verdict

\* A key is loaded: all its references are settled.
LEMMA LoadedStep ==
  ASSUME IInv, Loaded
  PROVE  IInv'
<1>0. PICK d : d = Top.idx
  OBVIOUS
<1>1. /\ Loading /\ phase = "load" /\ stack # <<>>
      /\ node' = node /\ phase' = phase /\ root' = root /\ limit' = limit /\ order' = order
      /\ UNCHANGED txnVars /\ Keys' = Keys /\ Needed' = Needed
  BY SameNode DEF Loaded, Loading
<1>2. /\ d \in Tracking /\ info[d].mark = "playing" /\ node.form = "map" /\ ExprOf(d).valid
      /\ Top.at > Len(ExprOf(d).refs)
  BY <1>0, <1>1, TopFacts DEF Loaded
<1>3. /\ Len(stack) \in Nat \ {0} /\ Len(info) \in Nat /\ info \in Seq(Info)
      /\ stack \in Seq(FrameOf(Len(info)))
  BY <1>1, StackFacts, EmptySeq DEF IInv, LoadInv, TypeOK, FrameOf
<1>4. /\ info' \in Seq(Info) /\ Len(info') = Len(info)
      /\ \A j \in Tracking : j # d => info'[j] = info[j]
      /\ info'[d].key = info[d].key /\ info'[d].mark = "done" /\ info'[d].exf = info[d].exf
      /\ info'[d].dependent = info[d].dependent
  <2>1. MarkSet(info, d, "done", info')
    BY <1>0 DEF Loaded, MarkSet
  <2>2. d \in 1 .. Len(info) /\ Tracking = 1 .. Len(info) /\ info \in Seq(Info)
    BY <1>2, <1>3 DEF Tracking
  <2>3. /\ info' \in Seq(Info) /\ Len(info') = Len(info)
        /\ \A j \in 1 .. Len(info) : j # d => info'[j] = info[j]
        /\ info'[d].key = info[d].key /\ info'[d].mark = "done" /\ info'[d].exf = info[d].exf
        /\ info'[d].dependent = info[d].dependent
    BY <2>1, <2>2, SetMark
  <2> QED BY <2>2, <2>3
<1>5. /\ stack' \in Seq(FrameOf(Len(info))) /\ Len(stack') = Len(stack) - 1
      /\ \A m \in 1 .. Len(stack) - 1 : stack'[m] = stack[m]
      /\ Tracking' = Tracking
  <2>1. \A m \in 1 .. Len(stack) - 1 : stack[m] \in FrameOf(Len(info))
    BY <1>3, ElementOfSeq
  <2>2. stack' = SubSeq(stack, 1, Len(stack) - 1)
    BY DEF Loaded
  <2>3. /\ stack' \in Seq(FrameOf(Len(info)))
        /\ Len(stack') = (IF 1 <= Len(stack) - 1 THEN Len(stack) - 1 - 1 + 1 ELSE 0)
        /\ \A m \in 1 .. Len(stack) - 1 - 1 + 1 : stack'[m] = stack[1 + m - 1]
    BY <1>3, <2>1, <2>2, SubSeqProperties
  <2>4. Tracking' = Tracking
    BY <1>4 DEF Tracking
  <2>5. Len(stack) \in Nat \ {0}
    BY <1>3
  <2>6. ASSUME NEW m \in 1 .. Len(stack) - 1 PROVE m \in 1 .. Len(stack) - 1 - 1 + 1 /\ 1 + m - 1 = m
    BY <2>5
  <2>7. \A m \in 1 .. Len(stack) - 1 : stack'[m] = stack[m]
    <3>1. ASSUME NEW m \in 1 .. Len(stack) - 1 PROVE stack'[m] = stack[1 + m - 1]
      BY <2>3, <2>6
    <3> QED BY <2>6, <3>1
  <2>8. Len(stack') = Len(stack) - 1
    <3>1. \A l \in Nat \ {0} : (IF 1 <= l - 1 THEN l - 1 - 1 + 1 ELSE 0) = l - 1
      OBVIOUS
    <3> QED BY <2>3, <2>5, <3>1
  <2> QED BY <2>3, <2>4, <2>7, <2>8
<1>6. \A j \in Tracking : /\ info'[j].key = info[j].key /\ info'[j].exf = info[j].exf
                          /\ info'[j].dependent = info[j].dependent
                          /\ info[j].mark = "done" => info'[j].mark = "done"
  BY <1>2, <1>4
<1>7. \A j \in Tracking : ExprOf(j)' = ExprOf(j)
  BY <1>1, <1>6 DEF ExprOf
<1>8. TypeOK'
  <2>1. \A i \in 1 .. Len(info') : info'[i].exf <= Len(order)
    BY <1>4, <1>6 DEF IInv, TypeOK, Tracking
  <2>2. stack' \in Seq([idx : 1 .. Len(info'), at : Nat \ {0}])
    BY <1>4, <1>5 DEF FrameOf
  <2>3. root' \in Nat /\ Len(info) <= Len(info')
    BY <1>1, <1>3, <1>4 DEF IInv, TypeOK
  <2> QED BY <1>1, <1>4, <2>1, <2>2, <2>3, TypeGrows DEF IInv
<1>9. Distinct' /\ Wanted'
  BY <1>1, <1>5, <1>6 DEF IInv, LoadInv, Distinct, Wanted
<1>10. Slots'
  <2>1. \A s \in 1 .. Len(order) : info'[order[s]].exf = s
    BY <1>6, OrderFacts DEF IInv, LoadInv, Slots
  <2>2. \A j \in Tracking : info'[j].exf # INVALID_IDX =>
          order[info'[j].exf] = j /\ info'[j].mark = "done" /\ ~ ExprOf(j)'.literal
    BY <1>6, <1>7 DEF IInv, LoadInv, Slots
  <2>3. \A j \in Tracking : info'[j].dependent => order # <<>>
    BY <1>6 DEF IInv, LoadInv, Slots
  <2> QED BY <1>1, <1>2, <1>5, <2>1, <2>2, <2>3 DEF Slots
<1>11. ASSUME NEW j \in Tracking, NEW p, Settled(j, p) PROVE Settled(j, p)'
  BY <1>1, <1>5, <1>6, <1>11, SettledKept DEF IInv
<1>12. Settling'
  <2>1. ASSUME NEW j \in Tracking, info'[j].mark = "done"
        PROVE  /\ ExprOf(j)'.valid
               /\ node.form = "map" => \A p \in 1 .. Len(ExprOf(j)'.refs) : Settled(j, p)'
    <3>1. ExprOf(j)' = ExprOf(j)
      BY <1>7
    <3>2. CASE j # d
      <4>1. info[j].mark = "done"
        BY <2>1, <3>2, <1>4
      <4> QED BY <3>1, <4>1, <1>11 DEF IInv, LoadInv, Settling
    <3>3. CASE j = d
      <4>1. \A p \in 1 .. Top.at - 1 : Settled(Top.idx, p)
        BY <1>3 DEF IInv, LoadInv, Settling, Top
      <4>2. Len(ExprOf(d).refs) \in Nat /\ Top.at \in Nat
        BY <1>0, <1>1, TopFacts, NodeFacts DEF IInv, ExprOf
      <4>3. \A p \in 1 .. Len(ExprOf(d).refs) : p \in 1 .. Top.at - 1
        <5> DEFINE R == Len(ExprOf(d).refs)
        <5>1. R \in Nat /\ Top.at \in Nat /\ Top.at > R
          BY <4>2, <1>2
        <5> HIDE DEF R
        <5>2. \A p \in 1 .. R : p \in 1 .. Top.at - 1
          BY <5>1
        <5> QED BY <5>2 DEF R
      <4> QED BY <3>1, <3>3, <4>1, <4>3, <1>0, <1>2, <1>11
    <3> QED BY <3>2, <3>3
  <2>2. ASSUME NEW m \in 1 .. Len(stack) - 1, NEW p \in 1 .. stack[m].at - 1
        PROVE  Settled(stack[m].idx, p)'
    <3>1. PICK j : j = stack[m].idx
      OBVIOUS
    <3>2. m \in 1 .. Len(stack)
      BY <1>3
    <3>3. j \in Tracking /\ stack'[m].idx = j
      BY <3>1, <3>2, <1>5, StackFacts DEF IInv, LoadInv
    <3>4. Settled(j, p)
      BY <3>1, <3>2 DEF IInv, LoadInv, Settling
    <3> QED BY <3>3, <3>4, <1>11
  <2> QED BY <1>1, <1>5, <2>1, <2>2 DEF Settling
<1>13. Frames'
  <2>1. ASSUME NEW m \in 1 .. Len(stack) - 1
        PROVE  /\ stack[m].idx \in Tracking /\ stack[m].idx # d
               /\ info'[stack[m].idx] = info[stack[m].idx] /\ m \in 1 .. Len(stack)
    <3>1. m \in 1 .. Len(stack) /\ m # Len(stack) /\ Len(stack) \in 1 .. Len(stack)
      BY <1>3
    <3>2. stack[m].idx \in Tracking
      BY <3>1, StackFacts DEF IInv, LoadInv
    <3>3. stack[m].idx # stack[Len(stack)].idx
      BY <3>1 DEF IInv, LoadInv, Frames
    <3>4. stack[m].idx # d
      BY <3>3, <1>0 DEF Top
    <3> QED BY <3>1, <3>2, <3>4, <1>4
  <2>2. ASSUME NEW m \in 1 .. Len(stack) - 1
        PROVE  /\ info'[stack'[m].idx].mark = "playing"
               /\ stack'[m].at <= Len(node.expr[info'[stack'[m].idx].key].refs) + 1
    <3>1. /\ info[stack[m].idx].mark = "playing"
          /\ stack[m].at <= Len(node.expr[info[stack[m].idx].key].refs) + 1
      BY <2>1 DEF IInv, LoadInv, Frames, ExprOf
    <3>2. stack'[m] = stack[m] /\ info'[stack[m].idx] = info[stack[m].idx]
      BY <2>1, <1>5
    <3> QED BY <3>1, <3>2
  <2>3. ASSUME NEW j \in Tracking, info'[j].mark = "playing"
        PROVE  \E m \in 1 .. Len(stack) - 1 : stack'[m].idx = j
    <3>1. j # d /\ info[j].mark = "playing"
      BY <2>3, <1>4
    <3>2. PICK m \in 1 .. Len(stack) : stack[m].idx = j
      BY <3>1 DEF IInv, LoadInv, Frames
    <3>3. m # Len(stack)
      BY <3>1, <3>2, <1>0 DEF Top
    <3>4. m \in 1 .. Len(stack) - 1
      BY <3>3, <1>3
    <3> QED BY <3>2, <3>4, <1>5
  <2>4. \A m, l \in 1 .. Len(stack) - 1 : stack'[m].idx = stack'[l].idx => m = l
    <3>1. \A m, l \in 1 .. Len(stack) - 1 : stack[m].idx = stack[l].idx => m = l
      BY <2>1 DEF IInv, LoadInv, Frames
    <3> QED BY <3>1, <1>5
  <2>5. ASSUME NEW m \in 1 .. Len(stack) - 1 - 1
        PROVE  /\ stack'[m].at <= Len(node.expr[info'[stack'[m].idx].key].refs)
               /\ node.expr[info'[stack'[m].idx].key].refs[stack'[m].at]
                    = info'[stack'[m + 1].idx].key
    <3>1. m \in 1 .. Len(stack) - 1 /\ m + 1 \in 1 .. Len(stack) - 1
      BY <1>3
    <3>2. /\ stack[m].at <= Len(node.expr[info[stack[m].idx].key].refs)
          /\ node.expr[info[stack[m].idx].key].refs[stack[m].at] = info[stack[m + 1].idx].key
      BY <3>1 DEF IInv, LoadInv, Frames, ExprOf
    <3>3. /\ stack'[m] = stack[m] /\ info'[stack[m].idx] = info[stack[m].idx]
          /\ stack'[m + 1] = stack[m + 1] /\ info'[stack[m + 1].idx] = info[stack[m + 1].idx]
      BY <3>1, <2>1, <1>5
    <3> QED BY <3>2, <3>3
  <2> QED BY <1>1, <1>5, <2>2, <2>3, <2>4, <2>5 DEF Frames, ExprOf
<1>14. RootInv'
  <2>1. \A j \in Tracking : info'[j].mark = "none" => info[j].mark = "none"
    BY <1>4
  <2> QED BY <1>1, <1>5, <1>6, <2>1 DEF IInv, LoadInv, RootInv
<1> QED BY <1>1, <1>8, <1>9, <1>10, <1>12, <1>13, <1>14, NoCache DEF IInv, LoadInv, Verdict

-----------------------------------------------------------------------------
LEMMA Least ==
  ASSUME NEW T, T \subseteq Nat, T # {}
  PROVE  \E x \in T : \A y \in T : ~ (y < x)
<1> DEFINE R == OpToRel(<, Nat)
<1>1. IsWellFoundedOn(R, Nat)
  BY NatLessThanWellFounded
<1>2. \A x, y \in Nat : y < x => <<y, x>> \in R
  BY DEF OpToRel
<1> HIDE DEF R
<1>3. PICK x \in T : \A y \in T : ~ (<<y, x>> \in R)
  BY <1>1, WFMin, Zenon
<1> QED BY <1>2, <1>3

\* All keys that are needed are tracked once every listed key is loaded.
LEMMA NeededTracked ==
  ASSUME IInv, node.form = "map",
         \A k \in Listing \intersect Keys : \E i \in Tracking : info[i].key = k,
         \A i \in Tracking : info[i].mark = "done"
  PROVE  \A k \in Needed : \E i \in Tracking : info[i].key = k
<1> DEFINE S == {info[i].key : i \in Tracking}
<1>1. S \in SUBSET Key
  BY NodeFacts DEF IInv, LoadInv, Wanted
<1>2. ASSUME NEW k \in S, NEW r \in Refs(k) PROVE r \in S
  <2>1. PICK i \in Tracking : info[i].key = k
    OBVIOUS
  <2>2. PICK p \in 1 .. Len(ExprOf(i).refs) : r = ExprOf(i).refs[p]
    BY <2>1 DEF Refs, ExprOf
  <2>3. Settled(i, p)
    BY <2>1, <2>2 DEF IInv, LoadInv, Settling
  <2> QED BY <2>2, <2>3 DEF Settled
<1>3. Closed(S)
  <2>1. Listing \intersect Keys \subseteq S
    OBVIOUS
  <2> HIDE DEF S
  <2> QED BY <1>2, <2>1 DEF Closed
<1>4. Needed \subseteq S
  <2> HIDE DEF S
  <2> QED BY <1>1, <1>3 DEF Needed
<1> QED BY <1>4

\* Keys that are settled are not a cycle: the one with the first slot would refer to
\* one with an earlier slot.
LEMMA NoCycle ==
  ASSUME IInv, node.form = "map", \A i \in Tracking : info[i].mark = "done",
         NEW S, S # {}, \A k \in S : \E i \in Tracking : info[i].key = k,
         \A k \in S : Refs(k) \intersect S # {}
  PROVE  FALSE
<1>1. ASSUME NEW i \in Tracking, info[i].key \in S
      PROVE  \E j \in Tracking : /\ info[j].key \in S /\ info[j].exf # INVALID_IDX
                                 /\ info[i].exf # INVALID_IDX => info[j].exf < info[i].exf
  <2>1. PICK r \in S : r \in Refs(info[i].key)
    BY <1>1
  <2>2. PICK p \in 1 .. Len(ExprOf(i).refs) : r = ExprOf(i).refs[p]
    BY <2>1 DEF Refs, ExprOf
  <2>3. Settled(i, p)
    BY <2>2 DEF IInv, LoadInv, Settling
  <2>4. PICK j \in Tracking :
          /\ info[j].key = r
          /\ \/ ExprOf(j).literal
             \/ /\ info[j].exf # INVALID_IDX
                /\ info[i].exf # INVALID_IDX => info[j].exf < info[i].exf
    BY <2>2, <2>3 DEF Settled
  <2>5. ~ ExprOf(j).literal
    <3>1. PICK q \in 1 .. Len(node.expr[r].refs) : TRUE
      BY <2>1 DEF Refs
    <3>2. r \in Keys
      BY <2>4 DEF IInv, LoadInv, Wanted
    <3>3. node.expr[r].literal => Len(node.expr[r].refs) = 0
      BY <3>2, NodeFacts DEF IInv
    <3>4. ~ node.expr[r].literal
      BY <3>1, <3>3
    <3> QED BY <2>4, <3>4 DEF ExprOf
  <2> QED BY <2>1, <2>4, <2>5
<1> DEFINE T == {info[j].exf : j \in {j \in Tracking : info[j].key \in S /\ info[j].exf # INVALID_IDX}}
<1>2. T \subseteq Nat
  BY OrderFacts DEF IInv
<1>3. T # {}
  <2>1. PICK i \in Tracking : info[i].key \in S
    OBVIOUS
  <2>2. PICK j \in Tracking : info[j].key \in S /\ info[j].exf # INVALID_IDX
    <3> HIDE DEF T
    <3> QED BY <2>1, <1>1
  <2>3. info[j].exf \in T
    BY <2>2
  <2> QED BY <2>3
<1>4. PICK x \in T : \A y \in T : ~ (y < x)
  <2> HIDE DEF T
  <2> QED BY <1>2, <1>3, Least
<1>5. PICK i \in Tracking : info[i].key \in S /\ info[i].exf # INVALID_IDX /\ info[i].exf = x
  OBVIOUS
<1> HIDE DEF T
<1>6. PICK j \in Tracking : info[j].key \in S /\ info[j].exf # INVALID_IDX /\ info[j].exf < x
  <2>1. PICK j \in Tracking : /\ info[j].key \in S /\ info[j].exf # INVALID_IDX
                              /\ info[i].exf # INVALID_IDX => info[j].exf < info[i].exf
    BY <1>1, <1>5
  <2> QED BY <1>5, <2>1
<1>7. info[j].exf \in T
  BY <1>6 DEF T
<1> QED BY <1>4, <1>6, <1>7

LEMMA PersistStep ==
  ASSUME IInv, Persist
  PROVE  IInv'
<1>1. /\ phase = "load" /\ stack = <<>> /\ root > limit /\ phase' = "ready"
      /\ node' = node /\ info' = info /\ order' = order /\ stack' = stack
      /\ root' = root /\ limit' = limit /\ UNCHANGED txnVars
  BY DEF Persist
<1>2. /\ node.form = "map" /\ Required \subseteq Keys
      /\ \A k \in Listing \intersect Keys : \E i \in Tracking : info[i].key = k
  BY <1>1 DEF IInv, LoadInv, RootInv
<1>3. ASSUME NEW i \in Tracking PROVE info[i].mark = "done"
  <2>1. info[i].mark # "none"
    <3>1. root .. limit = {}
      BY <1>1 DEF IInv, TypeOK
    <3> QED BY <1>1, <3>1 DEF IInv, LoadInv, RootInv
  <2>2. info[i].mark # "playing"
    <3>1. 1 .. Len(stack) = {}
      BY <1>1
    <3>2. info[i].mark = "playing" => \E m \in 1 .. Len(stack) : stack[m].idx = i
      BY DEF IInv, LoadInv, Frames
    <3> QED BY <3>1, <3>2, Zenon
  <2>3. info[i] \in Info
    BY StackFacts DEF IInv, LoadInv
  <2> QED BY <2>1, <2>2, <2>3 DEF Info
<1>4. Loadable
  <2>1. \A k \in Needed : \E i \in Tracking : info[i].key = k
    BY <1>2, <1>3, NeededTracked
  <2>2. Needed \subseteq Keys
    BY <2>1 DEF IInv, LoadInv, Wanted
  <2>3. \A k \in Needed : node.expr[k].valid
    BY <2>1, <1>3 DEF IInv, LoadInv, Settling, ExprOf
  <2>4. ASSUME NEW S \in SUBSET Needed, S # {}
        PROVE  \E k \in S : Refs(k) \intersect S = {}
    <3>1. \A k \in S : \E i \in Tracking : info[i].key = k
      BY <2>1
    <3> QED BY <1>2, <1>3, <2>4, <3>1, NoCycle
  <2> QED BY <1>2, <2>2, <2>3, <2>4 DEF Loadable
<1>5. TypeOK'
  BY <1>1 DEF IInv, TypeOK, txnVars
<1>6. (Distinct /\ Wanted /\ Slots /\ Settling /\ Frames)'
  BY <1>1, SameInfo DEF IInv
<1>7. RootInv'
  BY <1>1, <1>3 DEF RootInv, Tracking
<1>8. CacheInv'
  <2>1. features = <<>> /\ fill = 0 /\ asked = 0 /\ seen = {}
    BY <1>1 DEF IInv, CacheInv
  <2>2. features' = <<>> /\ fill' = 0 /\ asked' = 0 /\ seen' = {}
    BY <1>1, <2>1 DEF txnVars
  <2>3. Len(features') = 0
    BY <2>2
  <2> QED BY <2>2, <2>3 DEF CacheInv
<1>9. Verdict'
  BY <1>1, <1>4, SameNode DEF Verdict
<1> QED BY <1>5, <1>6, <1>7, <1>8, <1>9 DEF IInv, LoadInv

-----------------------------------------------------------------------------
\* A list or a single expression has no references.
LEMMA OthersLoadable ==
  ASSUME TypeOK, node.form # "map", Keys \subseteq Listing,
         node.form # "scalar" => Required \subseteq Keys
  PROVE  Loadable <=> \A k \in Keys : node.expr[k].valid
<1>1. \A k : Refs(k) = {}
  BY DEF Refs
<1>2. Keys \in SUBSET Key
  BY NodeFacts
<1>3. Closed(Keys)
  BY <1>1 DEF Closed
<1>4. Needed \subseteq Keys
  BY <1>2, <1>3 DEF Needed
<1>5. Keys \subseteq Needed
  BY NeedsListed
<1>6. \A S \in SUBSET Needed : S # {} => \E k \in S : Refs(k) \intersect S = {}
  BY <1>1
<1> QED BY <1>4, <1>5, <1>6 DEF Loadable

LEMMA OthersStep ==
  ASSUME IInv, phase = "begin", node.form # "map", Keys \subseteq Listing,
         node.form # "scalar" => Required \subseteq Keys,
         NEW found, DOMAIN found = 1 .. Len(found), Len(found) \in Nat,
         \A i \in 1 .. Len(found) : found[i] \in Keys,
         \A i, j \in 1 .. Len(found) : found[i] = found[j] => i = j,
         LoadOthers(found)
  PROVE  IInv'
<1>1. CASE ~ \A k \in Keys : node.expr[k].valid
  <2>1. ~ Loadable /\ LoadFails
    BY <1>1, OthersLoadable DEF LoadOthers, IInv
  <2> QED BY <2>1, Fails
<1>2. CASE \A k \in Keys : node.expr[k].valid
  <2> DEFINE n == Len(found)
  <2>1. /\ phase' = "ready" /\ info' = [i \in 1 .. n |-> Untracked(found[i], "done")]
        /\ node' = node /\ order' = order /\ stack' = stack /\ root' = root /\ limit' = limit
        /\ UNCHANGED txnVars /\ Keys' = Keys /\ Needed' = Needed /\ Loadable' = Loadable
    BY <1>2, SameNode DEF LoadOthers
  <2>2. n \in Nat /\ \A i \in 1 .. n : found[i] \in Keys /\ found[i] \in Key /\ found[i] \in Needed
    BY NodeFacts, NeedsListed DEF IInv
  <2>3. order = <<>> /\ stack = <<>> /\ info = <<>> /\ features = <<>> /\ fill = 0 /\ asked = 0 /\ seen = {}
    BY DEF IInv, LoadInv, RootInv, CacheInv
  <2>4. \A k \in Key : Untracked(k, "done") \in Info
    BY DEF Untracked, Info, INVALID_IDX
  <2> HIDE DEF n
  <2>5. info' \in Seq(Info) /\ Len(info') = n
    <3>1. info' = [i \in 1 .. n |-> info'[i]] /\ \A i \in 1 .. n : info'[i] = Untracked(found[i], "done")
      BY <2>1
    <3>2. \A i \in 1 .. n : info'[i] \in Info
      BY <2>2, <2>4, <3>1
    <3> QED BY <2>2, <3>1, <3>2, IsSeq
  <2>6. Tracking' = 1 .. n
    BY <2>5 DEF Tracking
  <2>7. \A i \in 1 .. n : /\ info'[i].key = found[i] /\ info'[i].mark = "done"
                         /\ info'[i].exf = INVALID_IDX /\ info'[i].dependent = FALSE
    BY <2>1 DEF Untracked
  <2>8. TypeOK'
    <3>1. limit = 0
      <4>1. limit \in 0 .. Len(info) /\ Len(info) = 0
        BY <2>3 DEF IInv, TypeOK
      <4> QED BY <4>1
    <3>2. node' \in Nodes /\ root' \in Nat /\ now' \in 0 .. MaxTime /\ limit' = 0
      BY <2>1, <3>1 DEF IInv, TypeOK, txnVars
    <3>3. features' = <<>> /\ fill' = 0 /\ asked' = 0 /\ seen' = {} /\ order' = <<>> /\ stack' = <<>>
      BY <2>1, <2>3 DEF txnVars
    <3>4. \A i \in 1 .. Len(info') : info'[i].exf <= Len(order')
      <4>1. Len(order') = 0
        BY <3>3
      <4> QED BY <2>5, <2>7, <4>1 DEF INVALID_IDX
    <3>5. fill' \in 0 .. Len(order') /\ asked' \in 0 .. Len(info') /\ limit' \in 0 .. Len(info')
      <4>1. Len(order') = 0 /\ Len(info') \in Nat
        BY <2>2, <2>5, <3>3
      <4> QED BY <3>2, <3>3, <4>1
    <3>6. /\ order' \in Seq(1 .. Len(info')) /\ stack' \in Seq([idx : 1 .. Len(info'), at : Nat \ {0}])
          /\ features' \in Seq(Value \union {Unset}) /\ Len(features') \in {0, Len(order')}
      BY <3>3, EmptySeq
    <3>7. phase' \in {"begin", "load", "failed", "ready"} /\ seen' \subseteq Key \X (Value \union {Unset})
      BY <2>1, <3>3
    <3> QED BY <2>5, <3>2, <3>4, <3>5, <3>6, <3>7, Zenon DEF TypeOK
  <2>9. Distinct' /\ Wanted'
    BY <2>1, <2>2, <2>6, <2>7 DEF Distinct, Wanted, n
  <2>10. Slots'
    <3>1. order' = <<>> /\ 1 .. Len(order') = {}
      BY <2>1, <2>3
    <3> QED BY <2>6, <2>7, <3>1, Zenon DEF Slots
  <2>11. Settling' /\ Frames'
    <3>1. 1 .. Len(stack') = {} /\ 1 .. Len(stack') - 1 = {}
      BY <2>1, <2>3
    <3>2. \A i \in 1 .. n : ExprOf(i)'.valid
      BY <1>2, <2>1, <2>2, <2>7 DEF ExprOf
    <3>3. \A i \in 1 .. n : info'[i].mark # "playing"
      BY <2>7
    <3>4. node'.form # "map"
      BY <2>1
    <3> QED BY <2>6, <3>1, <3>2, <3>3, <3>4, Zenon DEF Settling, Frames
  <2>12. RootInv'
    BY <2>1, <2>6, <2>7 DEF RootInv
  <2>13. CacheInv'
    <3>1. features' = <<>> /\ fill' = 0 /\ asked' = 0 /\ seen' = {} /\ 1 .. Len(features') = {}
      BY <2>1, <2>3 DEF txnVars
    <3> QED BY <3>1 DEF CacheInv
  <2>14. Verdict'
    <3>1. Loadable
      BY <1>2, OthersLoadable DEF IInv
    <3> QED BY <2>1, <3>1 DEF Verdict
  <2> QED BY <2>8, <2>9, <2>10, <2>11, <2>12, <2>13, <2>14 DEF IInv, LoadInv
<1> QED BY <1>1, <1>2

LEMMA LoadAsTupleStep ==
  ASSUME IInv, LoadAsTuple
  PROVE  IInv'
<1>1. phase = "begin" /\ node.form = "list" /\ node \in Nodes
  BY DEF LoadAsTuple, IInv, TypeOK
<1>2. CASE ~ (Required \subseteq Keys)
  <2>1. LoadFails /\ ~ Loadable
    BY <1>1, <1>2 DEF LoadAsTuple, Loadable
  <2> QED BY <1>1, <2>1, Fails
<1>3. CASE Required \subseteq Keys
  <2> DEFINE c == Cardinality(Keys)
             found == [i \in 1 .. c |-> Listed[i]]
  <2>1. c <= Len(Listed) /\ Keys = {Listed[i] : i \in 1 .. c}
    BY <1>1, NodeAssumption DEF Keys
  <2>2. c \in Nat /\ Len(Listed) \in Nat
    BY FS_CardinalityType, NodeFacts, ListedFacts DEF IInv
  <2>3. \A i \in 1 .. c : i \in 1 .. Len(Listed)
    <3> HIDE DEF c
    <3> QED BY <2>1, <2>2
  <2>4. LoadOthers(found)
    BY <1>1, <1>3 DEF LoadAsTuple
  <2>5. Keys \subseteq Listing
    <3> HIDE DEF c
    <3> QED BY <2>1, <2>3 DEF Listing
  <2> HIDE DEF c
  <2>6. DOMAIN found = 1 .. Len(found) /\ Len(found) = c
    BY <2>2
  <2>7. \A i \in 1 .. Len(found) : found[i] \in Keys
    BY <2>1, <2>6
  <2>8. \A i, j \in 1 .. Len(found) : found[i] = found[j] => i = j
    BY <2>3, <2>6, NodeAssumption
  <2> HIDE DEF found
  <2> QED BY <1>1, <1>3, <2>2, <2>4, <2>5, <2>6, <2>7, <2>8, OthersStep
<1> QED BY <1>2, <1>3

LEMMA LoadAsScalarStep ==
  ASSUME IInv, LoadAsScalar
  PROVE  IInv'
<1>1. phase = "begin" /\ node.form = "scalar" /\ node \in Nodes
  BY DEF LoadAsScalar, IInv, TypeOK
<1>2. PICK i \in 1 .. Len(Listed) : Keys = {Listed[i]}
  BY <1>1, NodeAssumption DEF Keys
<1>3. PICK k \in Keys : LoadOthers(<<k>>)
  BY DEF LoadAsScalar
<1>4. Keys \subseteq Listing
  BY <1>2 DEF Listing
<1> DEFINE found == <<k>>
<1>5. DOMAIN found = 1 .. Len(found) /\ Len(found) = 1 /\ \A j \in 1 .. Len(found) : found[j] \in Keys
  OBVIOUS
<1>6. \A i1, i2 \in 1 .. Len(found) : found[i1] = found[i2] => i1 = i2
  OBVIOUS
<1>7. LoadOthers(found)
  BY <1>3
<1> HIDE DEF found
<1> QED BY <1>1, <1>4, <1>5, <1>6, <1>7, OthersStep

-----------------------------------------------------------------------------
\* The steps of a transaction leave what was loaded alone.
LEMMA LoadKept ==
  ASSUME IInv, UNCHANGED loadVars
  PROVE  LoadInv' /\ Verdict' /\ Tracking' = Tracking
<1>1. /\ node' = node /\ phase' = phase /\ info' = info /\ order' = order /\ stack' = stack
      /\ root' = root /\ limit' = limit /\ Keys' = Keys /\ Loadable' = Loadable
  BY SameNode DEF loadVars
<1>2. (Distinct /\ Wanted /\ Slots /\ Settling /\ Frames)'
  BY <1>1, SameInfo DEF IInv
<1>3. RootInv' /\ Tracking' = Tracking
  BY <1>1 DEF IInv, LoadInv, RootInv, Tracking
<1> QED BY <1>1, <1>2, <1>3 DEF IInv, LoadInv, Verdict

LEMMA TypeKept ==
  ASSUME TypeOK, UNCHANGED loadVars,
         features' \in Seq(Value \union {Unset}), Len(features') \in {0, Len(order)},
         fill' \in 0 .. Len(order), asked' \in 0 .. Len(info), now' \in 0 .. MaxTime,
         seen' \subseteq Key \X (Value \union {Unset})
  PROVE  TypeOK'
<1>1. UNCHANGED <<node, phase, info, order, stack, root, limit>>
  BY DEF loadVars
<1> QED BY <1>1, Zenon DEF TypeOK

LEMMA CacheFacts ==
  ASSUME IInv
  PROVE  /\ features \in Seq(Value \union {Unset}) /\ Len(features) \in Nat
         /\ features # <<>> => Len(features) = Len(order)
         /\ fill \in 0 .. Len(order) /\ asked \in 0 .. Len(info) /\ now \in 0 .. MaxTime
         /\ seen \subseteq Key \X (Value \union {Unset})
<1>1. features \in Seq(Value \union {Unset}) /\ Len(features) \in {0, Len(order)}
  BY DEF IInv, TypeOK
<1>2. features # <<>> => Len(features) # 0
  BY <1>1, EmptySeq
<1> QED BY <1>1, <1>2, LenProperties DEF IInv, TypeOK

LEMMA ChangeStep ==
  ASSUME IInv, Change
  PROVE  IInv'
<1>1. UNCHANGED <<features, fill, asked, seen, order, info>> /\ UNCHANGED loadVars /\ phase = "ready"
  BY DEF Change, loadVars
<1>2. now' \in 0 .. MaxTime
  BY NodeAssumption, CacheFacts DEF Change
<1>3. TypeOK'
  BY <1>1, <1>2, TypeKept DEF IInv, TypeOK
<1>4. CacheInv'
  BY <1>1 DEF IInv, CacheInv, loadVars
<1> QED BY <1>1, <1>3, <1>4, LoadKept DEF IInv

LEMMA StartFillStep ==
  ASSUME IInv, NEW i \in Tracking, StartFill(i)
  PROVE  IInv'
<1>1. /\ UNCHANGED loadVars /\ phase = "ready" /\ NeedsCache(i) /\ features = <<>>
      /\ features' = [s \in 1 .. Len(order) |-> Unset] /\ fill' = 1 /\ asked' = i
      /\ now' = now /\ seen' = seen
  BY DEF StartFill
<1>2. Len(order) \in Nat /\ 1 <= Len(order)
  <2>1. Len(order) \in Nat
    BY OrderFacts DEF IInv
  <2>2. CASE info[i].dependent
    <3>1. order # <<>>
      BY <2>2 DEF IInv, LoadInv, Slots
    <3>2. order \in Seq(1 .. Len(info))
      BY DEF IInv, TypeOK
    <3> QED BY <2>1, <3>1, <3>2, EmptySeq
  <2>3. CASE info[i].exf # INVALID_IDX
    <3>1. info[i].exf \in Nat /\ info[i].exf <= Len(order)
      BY OrderFacts DEF IInv
    <3> QED BY <2>1, <2>3, <3>1 DEF INVALID_IDX
  <2> QED BY <1>1, <2>2, <2>3 DEF NeedsCache
<1>3. features' \in Seq({Unset}) /\ Len(features') = Len(order) /\ \A s \in 1 .. Len(order) : features'[s] = Unset
  <2>1. features' = [s \in 1 .. Len(order) |-> features'[s]] /\ \A s \in 1 .. Len(order) : features'[s] = Unset
    BY <1>1
  <2>2. \A s \in 1 .. Len(order) : features'[s] \in {Unset}
    BY <2>1
  <2> QED BY <1>2, <2>1, <2>2, IsSeq
<1>4. features' \in Seq(Value \union {Unset})
  BY <1>3, SeqMonotonic
<1>5. fill' \in 0 .. Len(order) /\ asked' \in 0 .. Len(info) /\ now' \in 0 .. MaxTime
  <2>1. i \in 0 .. Len(info) /\ now \in 0 .. MaxTime
    BY CacheFacts DEF Tracking
  <2> QED BY <1>1, <1>2, <2>1
<1>6. TypeOK'
  <2>1. seen' \subseteq Key \X (Value \union {Unset})
    BY <1>1, CacheFacts
  <2>2. Len(features') \in {0, Len(order)}
    BY <1>3
  <2> QED BY <1>1, <1>4, <1>5, <2>1, <2>2, TypeKept DEF IInv
<1>7. CacheInv'
  <2>1. seen = {}
    <3>1. 1 .. Len(features) = {}
      BY <1>1
    <3>2. \A x \in seen : \E s \in 1 .. Len(features) :
            features[s] \in Value /\ x = <<info[order[s]].key, features[s]>>
      BY DEF IInv, CacheInv
    <3> QED BY <3>1, <3>2, Zenon
  <2>2. features' # <<>>
    <3>1. Len(features') # 0
      BY <1>2, <1>3
    <3> QED BY <3>1
  <2>3. phase' = "ready" /\ seen' = {}
    BY <1>1, <2>1 DEF loadVars
  <2>4. \A s \in 1 .. Len(features') : fill' # 0 /\ s >= fill' /\ features'[s] = Unset
    BY <1>1, <1>2, <1>3
  <2> QED BY <2>2, <2>3, <2>4 DEF CacheInv
<1> QED BY <1>1, <1>6, <1>7, LoadKept DEF IInv

\* What the references of a key find is in slots before its own.
LEMMA FoundByFacts ==
  ASSUME IInv, phase = "ready", NEW i \in Tracking, NEW x \in FoundBy(i)
  PROVE  \E s \in 1 .. Len(order) :
           /\ x = <<info[order[s]].key, features[s]>> /\ info[i].dependent
           /\ info[i].exf # INVALID_IDX => s < info[i].exf
<1>1. node.form = "map"
  BY DEF FoundBy
<1>2. PICK j \in Tracking, p \in 1 .. Len(ExprOf(i).refs) :
        info[j].key = ExprOf(i).refs[p] /\ x \in Found(j)
  BY <1>1 DEF FoundBy, Tracking
<1>3. info[j].exf # INVALID_IDX /\ x = <<info[j].key, features[info[j].exf]>>
  BY <1>2 DEF Found
<1>4. order[info[j].exf] = j /\ ~ ExprOf(j).literal /\ info[j].exf \in 1 .. Len(order)
  <2>1. info[j].exf \in Nat /\ info[j].exf <= Len(order) /\ Len(order) \in Nat
    BY OrderFacts DEF IInv
  <2>2. info[j].exf \in 1 .. Len(order)
    BY <1>3, <2>1 DEF INVALID_IDX
  <2> QED BY <1>3, <2>2 DEF IInv, LoadInv, Slots
<1>5. Settled(i, p)
  <2>1. info[i].mark = "done"
    BY DEF IInv, LoadInv, RootInv
  <2> QED BY <1>1, <2>1 DEF IInv, LoadInv, Settling
<1>6. PICK l \in Tracking :
        /\ info[l].key = ExprOf(i).refs[p]
        /\ \/ ExprOf(l).literal
           \/ /\ info[l].exf # INVALID_IDX /\ info[i].dependent
              /\ info[i].exf # INVALID_IDX => info[l].exf < info[i].exf
  BY <1>5 DEF Settled
<1>7. l = j
  BY <1>2, <1>6 DEF IInv, LoadInv, Distinct
<1>8. info[i].dependent /\ (info[i].exf # INVALID_IDX => info[j].exf < info[i].exf)
  BY <1>4, <1>6, <1>7
<1>9. PICK s : s = info[j].exf
  OBVIOUS
<1>10. s \in 1 .. Len(order) /\ order[s] = j /\ x = <<info[j].key, features[s]>>
  BY <1>3, <1>4, <1>9
<1>11. info[i].exf # INVALID_IDX => s < info[i].exf
  BY <1>8, <1>9
<1> QED BY <1>8, <1>10, <1>11, Zenon

LEMMA FillNextStep ==
  ASSUME IInv, FillNext
  PROVE  IInv'
<1>1. PICK i, f : i = order[fill] /\ f = [key |-> info[i].key, at |-> now]
  OBVIOUS
<1>2. /\ fill # 0 /\ UNCHANGED loadVars /\ asked' = asked /\ now' = now
      /\ seen' = seen \union FoundBy(i)
      /\ fill' = (IF fill < Len(order) THEN fill + 1 ELSE 0)
  BY <1>1 DEF FillNext
<1>3. phase = "ready" /\ features # <<>>
  BY <1>2 DEF IInv, CacheInv
<1>4. /\ Len(features) = Len(order) /\ Len(order) \in Nat /\ fill \in 1 .. Len(order)
      /\ features \in Seq(Value \union {Unset})
      /\ i \in Tracking /\ info[i].exf = fill
  <2>1. Len(features) = Len(order) /\ Len(order) \in Nat /\ fill \in 0 .. Len(order)
    BY <1>3, CacheFacts, OrderFacts DEF IInv
  <2>2. fill \in 1 .. Len(order)
    BY <2>1, <1>2
  <2>3. i \in Tracking /\ info[i].exf = fill
    BY <1>1, <2>2, OrderFacts DEF IInv, LoadInv, Slots
  <2> QED BY <2>1, <2>2, <2>3, CacheFacts
<1>5. f \in Value /\ f.key = info[i].key
  <2>1. info[i].key \in Key /\ now \in 0 .. MaxTime
    BY <1>4, NodeFacts, CacheFacts DEF IInv, LoadInv, Wanted
  <2> QED BY <1>1, <2>1 DEF Value
<1>6. /\ features' \in Seq(Value \union {Unset}) /\ Len(features') = Len(order)
      /\ features'[fill] = f
      /\ \A s \in 1 .. Len(order) : s # fill => features'[s] = features[s]
  <2>1. features' = [features EXCEPT ![fill] = f]
    <3>1. features' = [features EXCEPT ![info[i].exf] = [key |-> info[i].key, at |-> now]]
      BY <1>1 DEF FillNext
    <3> QED BY <3>1, <1>1, <1>4
  <2> DEFINE V == Value \union {Unset}
  <2>2. features \in Seq(V) /\ f \in V /\ fill \in 1 .. Len(features)
    BY <1>4, <1>5
  <2> HIDE DEF V
  <2>3. features' \in Seq(V) /\ Len(features') = Len(features)
        /\ \A s \in 1 .. Len(features) : features'[s] = IF s = fill THEN f ELSE features[s]
    BY <2>1, <2>2, ExceptSeq
  <2> QED BY <2>2, <2>3, <1>4 DEF V
<1>7. \A s \in 1 .. fill - 1 : features[s] \in Value /\ features[s].key = info[order[s]].key
  <2>1. \A s \in 1 .. Len(features) :
          IF fill # 0 /\ s >= fill THEN features[s] = Unset
          ELSE features[s] \in Value /\ features[s].key = info[order[s]].key
    BY DEF IInv, CacheInv
  <2>2. ASSUME NEW s \in 1 .. fill - 1 PROVE s \in 1 .. Len(features) /\ ~ (s >= fill)
    BY <1>4
  <2> QED BY <2>1, <2>2
<1>8. \A s \in 1 .. Len(order) : s >= fill => features[s] = Unset
  BY <1>2, <1>4 DEF IInv, CacheInv
<1>9. UNCHANGED <<node, phase, info, order, stack, root, limit>> /\ Len(order') = Len(order)
  BY <1>2 DEF loadVars
<1>10. \A x \in seen' : \E s \in 1 .. Len(order) :
         features'[s] \in Value /\ x = <<info[order[s]].key, features'[s]>>
  <2>1. ASSUME NEW x \in seen
        PROVE  \E s \in 1 .. Len(order) :
                 features'[s] \in Value /\ x = <<info[order[s]].key, features'[s]>>
    <3>1. PICK s \in 1 .. Len(features) : features[s] \in Value /\ x = <<info[order[s]].key, features[s]>>
      BY DEF IInv, CacheInv
    <3>2. s # fill
      BY <3>1, <1>4, <1>8, UnsetNotValue
    <3>3. features'[s] = features[s] /\ s \in 1 .. Len(order)
      BY <3>1, <3>2, <1>4, <1>6
    <3> QED BY <3>1, <3>3
  <2>2. ASSUME NEW x \in FoundBy(i)
        PROVE  \E s \in 1 .. Len(order) :
                 features'[s] \in Value /\ x = <<info[order[s]].key, features'[s]>>
    <3>1. PICK s \in 1 .. Len(order) :
            /\ x = <<info[order[s]].key, features[s]>> /\ info[i].dependent
            /\ info[i].exf # INVALID_IDX => s < info[i].exf
      BY <1>3, <1>4, FoundByFacts
    <3>2. info[i].exf # INVALID_IDX /\ info[i].exf = fill
      BY <1>2, <1>4 DEF INVALID_IDX
    <3>3. s < fill
      BY <3>1, <3>2
    <3>4. s \in 1 .. fill - 1 /\ s # fill
      BY <3>3, <1>4
    <3>5. features'[s] = features[s] /\ features[s] \in Value
      BY <3>4, <1>6, <1>7
    <3> QED BY <3>1, <3>5
  <2> QED BY <2>1, <2>2, <1>2
<1>11. fill' \in 0 .. Len(order)
  BY <1>2, <1>4
<1>12. TypeOK'
  <2>1. seen' \subseteq Key \X (Value \union {Unset})
    <3>1. \A s \in 1 .. Len(order) : info[order[s]].key \in Key
      BY OrderFacts, NodeFacts DEF IInv, LoadInv, Wanted
    <3> QED BY <3>1, <1>10
  <2>2. asked' \in 0 .. Len(info) /\ now' \in 0 .. MaxTime
    BY <1>2, CacheFacts
  <2>3. Len(features') \in {0, Len(order)}
    BY <1>6
  <2> QED BY <1>2, <1>6, <1>11, <2>1, <2>2, <2>3, TypeKept DEF IInv
<1>13. CacheInv'
  <2>1. ASSUME NEW s \in 1 .. Len(order)
        PROVE  IF fill' # 0 /\ s >= fill' THEN features'[s] = Unset
               ELSE features'[s] \in Value /\ features'[s].key = info[order[s]].key
    <3>1. CASE s < fill
      <4>1. s \in 1 .. fill - 1 /\ s # fill /\ ~ (fill' # 0 /\ s >= fill')
        BY <3>1, <1>2, <1>4
      <4> QED BY <4>1, <1>6, <1>7
    <3>2. CASE s = fill
      <4>1. ~ (fill' # 0 /\ s >= fill')
        BY <3>2, <1>2, <1>4
      <4>2. features'[s] = f /\ order[s] = i
        BY <3>2, <1>1, <1>6
      <4> QED BY <4>1, <4>2, <1>5
    <3>3. CASE s > fill
      <4>1. fill' # 0 /\ s >= fill' /\ s # fill /\ s >= fill
        BY <3>3, <1>2, <1>4
      <4> QED BY <4>1, <1>6, <1>8
    <3> QED BY <3>1, <3>2, <3>3, <1>4
  <2>2. features' # <<>>
    <3>1. Len(features') # 0
      BY <1>4, <1>6
    <3> QED BY <3>1
  <2>3. Len(features') = Len(order)
    BY <1>6
  <2>4. phase' = "ready" /\ info' = info /\ order' = order
    BY <1>3, <1>9
  <2> QED BY <2>1, <2>2, <2>3, <2>4, <1>10 DEF CacheInv
<1> QED BY <1>2, <1>12, <1>13, LoadKept DEF IInv

LEMMA ExtractStep ==
  ASSUME IInv, NEW i \in Tracking, Extract(i)
  PROVE  IInv'
<1>1. /\ phase = "ready" /\ fill = 0 /\ (NeedsCache(i) => features # <<>>)
      /\ seen' = seen \union (IF info[i].exf # INVALID_IDX THEN Found(i) ELSE FoundBy(i))
      /\ asked' = 0 /\ UNCHANGED loadVars /\ features' = features /\ fill' = fill /\ now' = now
  BY DEF Extract
<1>2. \A s \in 1 .. Len(features) : features[s] \in Value /\ features[s].key = info[order[s]].key
  BY <1>1 DEF IInv, CacheInv
<1>3. ASSUME NEW x \in seen'
      PROVE  \E s \in 1 .. Len(features) :
               features[s] \in Value /\ x = <<info[order[s]].key, features[s]>>
  <2>1. CASE x \in seen
    BY <2>1 DEF IInv, CacheInv
  <2>2. CASE info[i].exf # INVALID_IDX /\ x \in Found(i)
    <3>1. features # <<>>
      BY <1>1, <2>2 DEF NeedsCache
    <3>2. Len(features) = Len(order) /\ Len(order) \in Nat
      BY <3>1, CacheFacts, OrderFacts DEF IInv
    <3>3. info[i].exf \in Nat /\ info[i].exf <= Len(order)
      BY OrderFacts DEF IInv
    <3>4. info[i].exf \in 1 .. Len(features)
      BY <2>2, <3>2, <3>3 DEF INVALID_IDX
    <3>5. x = <<info[i].key, features[info[i].exf]>> /\ order[info[i].exf] = i
      BY <2>2 DEF Found, IInv, LoadInv, Slots
    <3>6. PICK s : s = info[i].exf
      OBVIOUS
    <3>7. s \in 1 .. Len(features) /\ x = <<info[order[s]].key, features[s]>>
      BY <3>4, <3>5, <3>6
    <3> QED BY <3>7, <1>2
  <2>3. CASE info[i].exf = INVALID_IDX /\ x \in FoundBy(i)
    <3>1. PICK s \in 1 .. Len(order) : x = <<info[order[s]].key, features[s]>> /\ info[i].dependent
      BY <1>1, <2>3, FoundByFacts
    <3>2. features # <<>>
      BY <1>1, <3>1 DEF NeedsCache
    <3>3. Len(features) = Len(order)
      BY <3>2, CacheFacts
    <3> QED BY <1>2, <3>1, <3>3
  <2> QED BY <1>1, <2>1, <2>2, <2>3
<1>4. UNCHANGED <<node, phase, info, order, stack, root, limit>>
  BY <1>1 DEF loadVars
<1>5. TypeOK'
  <2>1. \A s \in 1 .. Len(features) : info[order[s]].key \in Key
    <3>1. ASSUME NEW s \in 1 .. Len(features) PROVE info[order[s]].key \in Key
      <4>1. features # <<>>
        BY EmptySeq
      <4>2. order[s] \in Tracking
        BY <4>1, CacheFacts, OrderFacts DEF IInv
      <4> QED BY <4>2, NodeFacts DEF IInv, LoadInv, Wanted
    <3> QED BY <3>1
  <2>2. seen' \subseteq Key \X (Value \union {Unset})
    BY <1>3, <2>1
  <2>3. /\ features' \in Seq(Value \union {Unset}) /\ Len(features') \in {0, Len(order)}
        /\ fill' \in 0 .. Len(order) /\ now' \in 0 .. MaxTime
    BY <1>1 DEF IInv, TypeOK
  <2>4. asked' \in 0 .. Len(info)
    BY <1>1, StackFacts DEF IInv, LoadInv
  <2> QED BY <1>1, <2>2, <2>3, <2>4, TypeKept DEF IInv
<1>6. CacheInv'
  <2>1. \A x \in seen' : \E s \in 1 .. Len(features') :
          features'[s] \in Value /\ x = <<info'[order'[s]].key, features'[s]>>
    BY <1>1, <1>3, <1>4
  <2>2. \A s \in 1 .. Len(features') :
          features'[s] \in Value /\ features'[s].key = info'[order'[s]].key
    BY <1>1, <1>2, <1>4
  <2>3. fill' = 0 /\ phase' = "ready"
    BY <1>1, <1>4
  <2> QED BY <2>1, <2>2, <2>3 DEF CacheInv
<1> QED BY <1>1, <1>5, <1>6, LoadKept DEF IInv

-----------------------------------------------------------------------------
LEMMA NextInv ==
  ASSUME IInv, [Next]_vars
  PROVE  IInv'
<1>1. CASE UNCHANGED vars
  <2>1. UNCHANGED loadVars /\ UNCHANGED <<features, fill, asked, now, seen>>
    BY <1>1 DEF vars, txnVars
  <2>2. UNCHANGED <<node, phase, info, order, stack, root, limit>>
    BY <2>1 DEF loadVars
  <2>3. TypeOK'
    BY <2>1, <2>2, Zenon DEF IInv, TypeOK
  <2>4. CacheInv'
    BY <2>1, <2>2 DEF IInv, CacheInv
  <2> QED BY <2>1, <2>3, <2>4, LoadKept DEF IInv
<1>2. CASE LoadStep
  BY <1>2, DescribeStep, DescribeFailsStep, DescribedStep, LoadRootStep, ParseFailsStep,
     MissingKeyStep, CircularStep, DescendStep, ReferStep, LoadedStep, PersistStep,
     LoadAsTupleStep, LoadAsScalarStep
     DEF LoadStep
<1>3. CASE \E i \in 1 .. Len(info) : StartFill(i) \/ Extract(i)
  BY <1>3, StartFillStep, ExtractStep DEF Tracking
<1> QED BY <1>1, <1>2, <1>3, FillNextStep, ChangeStep DEF Next

LEMMA Invariant == Spec => []IInv
  BY InitInv, NextInv, PTL DEF Spec

\* The state of a group and of the cache of a transaction, in load_key and extract,
\* has the type it should.
THEOREM TypeCorrect == Spec => []TypeOK
<1>1. IInv => TypeOK
  BY DEF IInv
<1> QED BY <1>1, Invariant, PTL

\* load, load_key: whatever refers to what, a value of the directive is accepted only
\* if all it needs is there and parses, without a cycle, and is refused only if not.
THEOREM VerdictRight == Spec => []Verdict
<1>1. IInv => Verdict
  BY DEF IInv
<1> QED BY <1>1, Invariant, PTL

\* load: the elements allocated on the stack are enough for what is tracked.
THEOREM Fits == Spec => []TrackingFits
<1>1. IInv => TrackingFits
  <2> SUFFICES ASSUME IInv PROVE TrackingFits
    OBVIOUS
  <2> DEFINE f == [i \in Tracking |-> info[i].key]
  <2>1. f \in Injection(Tracking, Keys)
    <3>1. f \in [Tracking -> Keys]
      BY DEF IInv, LoadInv, Wanted
    <3>2. \A i, j \in Tracking : f[i] = f[j] => i = j
      BY DEF IInv, LoadInv, Distinct
    <3> HIDE DEF f
    <3> QED BY <3>1, <3>2 DEF Injection, IsInjective
  <2>2. Cardinality(Tracking) <= Cardinality(Keys)
    <3> HIDE DEF f
    <3> QED BY <2>1, NodeFacts, FS_Injection DEF IInv
  <2>3. Cardinality(Tracking) = Len(info)
    <3>1. Len(info) \in Nat
      BY StackFacts DEF IInv, LoadInv
    <3>2. Cardinality(1 .. Len(info)) = IF 1 > Len(info) THEN 0 ELSE Len(info) - 1 + 1
      BY <3>1, FS_Interval
    <3>3. \A n \in Nat : (IF 1 > n THEN 0 ELSE n - 1 + 1) = n
      OBVIOUS
    <3> QED BY <3>1, <3>2, <3>3 DEF Tracking
  <2> QED BY <2>2, <2>3 DEF TrackingFits
<1> QED BY <1>1, Invariant, PTL

\* extract: a reference finds the feature of the key it names, and finds it extracted.
THEOREM ValuesRight == Spec => []FoundRight
<1>1. IInv => FoundRight
  <2> SUFFICES ASSUME IInv, NEW x \in seen PROVE x[2] # Unset /\ x[2].key = x[1]
    BY DEF FoundRight
  <2>1. PICK s \in 1 .. Len(features) : features[s] \in Value /\ x = <<info[order[s]].key, features[s]>>
    BY DEF IInv, CacheInv
  <2>2. features[s].key = info[order[s]].key
    BY <2>1, UnsetNotValue DEF IInv, CacheInv
  <2> QED BY <2>1, <2>2, UnsetNotValue
<1> QED BY <1>1, Invariant, PTL

\* extract: a key that is referred to is extracted once in a transaction, whoever asks.
THEOREM ExtractedOnce == Spec => []FoundOnce
<1>1. IInv => FoundOnce
  <2> SUFFICES ASSUME IInv, NEW x \in seen, NEW y \in seen, x[1] = y[1] PROVE x[2] = y[2]
    BY DEF FoundOnce
  <2>1. PICK s \in 1 .. Len(features) : x = <<info[order[s]].key, features[s]>>
    BY DEF IInv, CacheInv
  <2>2. PICK t \in 1 .. Len(features) : y = <<info[order[t]].key, features[t]>>
    BY DEF IInv, CacheInv
  <2>3. s \in 1 .. Len(order) /\ t \in 1 .. Len(order)
    <3>1. features # <<>>
      BY EmptySeq
    <3> QED BY <3>1, CacheFacts
  <2>4. order[s] \in Tracking /\ order[t] \in Tracking /\ info[order[s]].exf = s /\ info[order[t]].exf = t
    BY <2>3, OrderFacts DEF IInv, LoadInv, Slots
  <2>5. order[s] = order[t]
    BY <2>1, <2>2, <2>4 DEF IInv, LoadInv, Distinct
  <2> QED BY <2>1, <2>2, <2>4, <2>5
<1> QED BY <1>1, Invariant, PTL
=============================================================================
