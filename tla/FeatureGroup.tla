---------------------------- MODULE FeatureGroup ----------------------------
(***************************************************************************)
(* The keys of a directive, such as "redirect", with expressions that can  *)
(* refer to each other.  Loading walks the references depth first, reports *)
(* cycles and missing keys, and gives a slot to each key that is referred  *)
(* to; these are extracted once per transaction, in the order of the       *)
(* slots, before any key that needs them.                                  *)
(* Source: Extractor.cc, FeatureGroup.h, Ex_Base.cc (Ex_this).             *)
(*                                                                         *)
(* load_key and load_expr call each other: their frames are a stack here.  *)
(* Names of keys differ in more than case.                                 *)
(***************************************************************************)
EXTENDS Integers, Sequences, FiniteSets

CONSTANTS
  Key,       \* the keys a value can have
  Listed,    \* those the directive asks for, in the order it does
  Required,  \* those of them it insists on
  Nodes,     \* the values: a form, and an expression for each key that is there
  MaxTime    \* bound: how often what is extracted changes in a transaction

\* An expression: if it parses, if it is a literal, and its "this" extractors.
Expr == [valid : BOOLEAN, literal : BOOLEAN, refs : Seq(Key)]

ASSUME NodeAssumption ==
  /\ Listed \in Seq(Key)
  /\ \A i, j \in 1 .. Len(Listed) : i # j => Listed[i] # Listed[j]
  /\ Required \subseteq {Listed[i] : i \in 1 .. Len(Listed)}
  /\ MaxTime \in Nat
  /\ \A n \in Nodes :
       /\ IsFiniteSet(DOMAIN n.expr) /\ DOMAIN n.expr \subseteq Key
       /\ \A k \in DOMAIN n.expr :
            n.expr[k] \in Expr /\ (n.expr[k].literal => n.expr[k].refs = <<>>)
       /\ \/ n.form = "map"
          \/ /\ n.form = "list" /\ Cardinality(DOMAIN n.expr) <= Len(Listed)
             /\ DOMAIN n.expr = {Listed[i] : i \in 1 .. Cardinality(DOMAIN n.expr)}
          \/ \E i \in 1 .. Len(Listed) : n.form = "scalar" /\ DOMAIN n.expr = {Listed[i]}

VARIABLES
  node,      \* the value of the directive
  phase,     \* "begin", "load", "failed" or "ready"
  info,      \* the keys that are tracked: Tracking::_info, later _expr_info
  order,     \* by slot, the index in info: _order_idx, later _ordering
  stack,     \* the keys that are being loaded, each with the reference it is at
  root,      \* the listed key that load is at
  limit,     \* how many of those there are
  features,  \* State::_features: by slot, what was extracted
  fill,      \* the position in _ordering, 0 if the cache is not being filled
  asked,     \* the key whose extraction fills the cache
  now,       \* what there is to extract, as the number of its changes
  seen       \* which referenced key was found to have which value

loadVars == <<node, phase, info, order, stack, root, limit>>
txnVars == <<features, fill, asked, now, seen>>
vars == <<loadVars, txnVars>>

INVALID_IDX == 0      \* slots and indices count from 1

Info ==
  [key : Key, mark : {"none", "playing", "done"}, exf : Nat, dependent : BOOLEAN]

\* What is extracted: of a key, at a time; or nothing yet.
Unset == [key |-> "unset"]
Value == [key : Key, at : 0 .. MaxTime]

TypeOK ==
  /\ node \in Nodes /\ phase \in {"begin", "load", "failed", "ready"}
  /\ info \in Seq(Info)
  /\ \A i \in 1 .. Len(info) : info[i].exf <= Len(order)
  /\ order \in Seq(1 .. Len(info))
  /\ stack \in Seq([idx : 1 .. Len(info), at : Nat \ {0}])
  /\ limit \in 0 .. Len(info) /\ root \in Nat
  /\ features \in Seq(Value \union {Unset}) /\ Len(features) \in {0, Len(order)}
  /\ fill \in 0 .. Len(order) /\ asked \in 0 .. Len(info)
  /\ now \in 0 .. MaxTime
  /\ seen \subseteq Key \X (Value \union {Unset})

Init ==
  /\ node \in Nodes /\ phase = "begin"
  /\ info = <<>> /\ order = <<>> /\ stack = <<>> /\ root = 1 /\ limit = 0
  /\ features = <<>> /\ fill = 0 /\ asked = 0 /\ now = 0 /\ seen = {}

-----------------------------------------------------------------------------
(* Loading.                                                                *)

Keys == DOMAIN node.expr
ExprOf(i) == node.expr[info[i].key]
Tracked(k) == {i \in 1 .. Len(info) : info[i].key = k}
Untracked(k, m) == [key |-> k, mark |-> m, exf |-> INVALID_IDX, dependent |-> FALSE]

LoadFails ==
  /\ phase' = "failed"
  /\ UNCHANGED <<node, info, order, stack, root, limit, txnVars>>

\* load tracks the listed keys that are there.
Describe ==
  /\ phase = "begin" /\ node.form = "map" /\ root <= Len(Listed)
  /\ Listed[root] \in Keys \/ Listed[root] \notin Required
  /\ info' = IF Listed[root] \in Keys THEN Append(info, Untracked(Listed[root], "none"))
             ELSE info
  /\ root' = root + 1
  /\ UNCHANGED <<node, phase, order, stack, limit, txnVars>>

DescribeFails ==
  /\ phase = "begin" /\ node.form = "map" /\ root <= Len(Listed)
  /\ Listed[root] \notin Keys /\ Listed[root] \in Required
  /\ LoadFails

Described ==
  /\ phase = "begin" /\ node.form = "map" /\ root > Len(Listed)
  /\ phase' = "load" /\ root' = 1 /\ limit' = Len(info)
  /\ UNCHANGED <<node, info, order, stack, txnVars>>

\* load_key, for a key that is tracked or for one that is tracked now.
Enter(i, marked) ==
  /\ info' = marked
  /\ stack' = Append(stack, [idx |-> i, at |-> 1])

InPlay(i) == [info EXCEPT ![i].mark = "playing"]

\* load goes on to the next listed key, which can be done as a reference.
LoadRoot ==
  /\ phase = "load" /\ stack = <<>> /\ root <= limit
  /\ IF info[root].mark = "none" THEN Enter(root, InPlay(root)) ELSE UNCHANGED <<info, stack>>
  /\ root' = root + 1
  /\ UNCHANGED <<node, phase, order, limit, txnVars>>

\* load_expr parses the expression and visits its "this" extractors.
Loading == phase = "load" /\ stack # <<>>
Top == stack[Len(stack)]

ParseFails ==
  /\ Loading /\ ~ ExprOf(Top.idx).valid
  /\ LoadFails

AtRef == Loading /\ ExprOf(Top.idx).valid /\ Top.at <= Len(ExprOf(Top.idx).refs)
Ref == ExprOf(Top.idx).refs[Top.at]
NextRef == stack' = [stack EXCEPT ![Len(stack)].at = @ + 1]

MissingKey ==
  /\ AtRef /\ Ref \notin Keys
  /\ LoadFails

Circular ==
  /\ AtRef /\ \E i \in Tracked(Ref) : info[i].mark = "playing"
  /\ LoadFails

Descend_SlotFirst ==
  /\ AtRef /\ Ref \in Keys /\ Tracked(Ref) = {} /\ ~ node.expr[Ref].literal
  /\ Enter(Len(info) + 1, Append(info, [Untracked(Ref, "playing") EXCEPT !.exf = Len(order) + 1]))
  /\ order' = Append(order, Len(info) + 1)
  /\ UNCHANGED <<node, phase, root, limit, txnVars>>

Descend ==
  /\ AtRef /\ Ref \in Keys
  /\ \/ Tracked(Ref) = {} /\ Enter(Len(info) + 1, Append(info, Untracked(Ref, "playing")))
     \/ \E i \in Tracked(Ref) : info[i].mark = "none" /\ Enter(i, InPlay(i))
  /\ UNCHANGED <<node, phase, order, root, limit, txnVars>>

Refer_InPlay ==
  /\ AtRef /\ \E i \in Tracked(Ref) : info[i].mark # "none"
  /\ NextRef
  /\ UNCHANGED <<node, phase, info, order, root, limit, txnVars>>

\* The key referred to is loaded.  If it is not a literal it gets a slot, once,
\* and the key that refers to it is dependent.
Refer ==
  /\ AtRef
  /\ \E i \in Tracked(Ref) :
       /\ info[i].mark = "done"
       /\ IF ExprOf(i).literal THEN UNCHANGED <<info, order>>
          ELSE IF info[i].exf # INVALID_IDX
          THEN info' = [info EXCEPT ![Top.idx].dependent = TRUE] /\ UNCHANGED order
          ELSE /\ info' = [info EXCEPT ![Top.idx].dependent = TRUE,
                                       ![i].exf = Len(order) + 1]
               /\ order' = Append(order, i)
  /\ NextRef
  /\ UNCHANGED <<node, phase, root, limit, txnVars>>

Loaded ==
  /\ Loading /\ ExprOf(Top.idx).valid /\ Top.at > Len(ExprOf(Top.idx).refs)
  /\ info' = [info EXCEPT ![Top.idx].mark = "done"]
  /\ stack' = SubSeq(stack, 1, Len(stack) - 1)
  /\ UNCHANGED <<node, phase, order, root, limit, txnVars>>

Persist ==
  /\ phase = "load" /\ stack = <<>> /\ root > limit
  /\ phase' = "ready"
  /\ UNCHANGED <<node, info, order, stack, root, limit, txnVars>>

\* load_as_tuple, load_as_scalar: the "this" extractors stay without a group.
LoadOthers(found) ==
  IF \A k \in Keys : node.expr[k].valid
  THEN /\ phase' = "ready" /\ info' = [i \in DOMAIN found |-> Untracked(found[i], "done")]
       /\ UNCHANGED <<node, order, stack, root, limit, txnVars>>
  ELSE LoadFails

LoadAsTuple ==
  /\ phase = "begin" /\ node.form = "list"
  /\ IF Required \subseteq Keys THEN LoadOthers([i \in 1 .. Cardinality(Keys) |-> Listed[i]])
     ELSE LoadFails

LoadAsScalar ==
  /\ phase = "begin" /\ node.form = "scalar"
  /\ \E k \in Keys : LoadOthers(<<k>>)

-----------------------------------------------------------------------------
(* A transaction extracts keys, in any order and more than once.           *)

Change ==
  /\ phase = "ready" /\ now < MaxTime
  /\ now' = now + 1
  /\ UNCHANGED <<loadVars, features, fill, asked, seen>>

NeedsCache(i) == info[i].dependent \/ info[i].exf # INVALID_IDX

\* What the reference to key i, or its extraction once there is a cache, finds.
Found(i) ==
  IF info[i].exf = INVALID_IDX THEN {} ELSE {<<info[i].key, features[info[i].exf]>>}

\* The expression of key i is extracted, and with it what its references find.
FoundBy(i) ==
  IF node.form # "map" THEN {}
  ELSE UNION {Found(j) : j \in {j \in 1 .. Len(info) : \E p \in 1 .. Len(ExprOf(i).refs) :
                                  info[j].key = ExprOf(i).refs[p]}}

\* extract: the first key that needs it has the cache allocated ...
StartFill(i) ==
  /\ phase = "ready" /\ asked = 0 /\ NeedsCache(i) /\ features = <<>>
  /\ features' = [s \in 1 .. Len(order) |-> Unset]
  /\ fill' = 1 /\ asked' = i
  /\ UNCHANGED <<loadVars, now, seen>>

\* ... and filled.
FillNext ==
  /\ fill # 0
  /\ LET i == order[fill] IN
     /\ seen' = seen \union FoundBy(i)
     /\ features' = [features EXCEPT ![info[i].exf] = [key |-> info[i].key, at |-> now]]
  /\ fill' = IF fill < Len(order) THEN fill + 1 ELSE 0
  /\ UNCHANGED <<loadVars, asked, now>>

Extract_Again(i) ==
  /\ phase = "ready" /\ fill = 0 /\ asked \in {0, i}
  /\ NeedsCache(i) => features # <<>>
  /\ seen' = seen \union IF info[i].exf # INVALID_IDX
                       THEN {<<info[i].key, [key |-> info[i].key, at |-> now]>>} ELSE FoundBy(i)
  /\ asked' = 0
  /\ UNCHANGED <<loadVars, features, fill, now>>

Extract(i) ==
  /\ phase = "ready" /\ fill = 0 /\ asked \in {0, i}
  /\ NeedsCache(i) => features # <<>>
  /\ seen' = seen \union IF info[i].exf # INVALID_IDX THEN Found(i) ELSE FoundBy(i)
  /\ asked' = 0
  /\ UNCHANGED <<loadVars, features, fill, now>>

LoadStep ==
  \/ Describe \/ DescribeFails \/ Described \/ LoadRoot \/ ParseFails \/ MissingKey
  \/ Circular \/ Descend \/ Refer \/ Loaded \/ Persist \/ LoadAsTuple \/ LoadAsScalar

Next ==
  \/ LoadStep
  \/ \E i \in 1 .. Len(info) : StartFill(i) \/ Extract(i)
  \/ FillNext \/ Change

Spec == Init /\ [][Next]_vars

-----------------------------------------------------------------------------
(* Properties.                                                             *)

\* What has to be loaded: the listed keys, and what they refer to, and so on.
Refs(k) ==
  IF node.form = "map" THEN {node.expr[k].refs[p] : p \in 1 .. Len(node.expr[k].refs)}
  ELSE {}
Listing == {Listed[i] : i \in 1 .. Len(Listed)}
Closed(S) == Listing \intersect Keys \subseteq S /\ \A k \in S \intersect Keys : Refs(k) \subseteq S
Needed == {k \in Key : \A S \in SUBSET Key : Closed(S) => k \in S}

\* It can be: it is there, it parses, and there is no cycle in it, that is, no
\* keys each of which refers to one of them.
Loadable ==
  /\ node.form # "scalar" => Required \subseteq Keys
  /\ Needed \subseteq Keys
  /\ \A k \in Needed : node.expr[k].valid
  /\ \A S \in SUBSET Needed : S # {} => \E k \in S : Refs(k) \intersect S = {}

\* load, load_key: a value loads if it can be, and is refused only if it cannot.
Verdict ==
  /\ phase = "ready" => Loadable
  /\ phase = "failed" => ~ Loadable

\* load allocates as many elements as the value has keys, on the stack, and alloc
\* does not look at the size.
TrackingFits == Len(info) <= Cardinality(Keys)

\* FeatureGroup::State: when a feature is extracted its dependencies have been, and
\* are found in the slots that are theirs.
FoundRight == \A x \in seen : x[2] # Unset /\ x[2].key = x[1]

\* FeatureGroup::State: a key that is referred to is not extracted again, neither
\* for the keys that refer to it nor for the directive.
FoundOnce == \A x, y \in seen : x[1] = y[1] => x[2] = y[2]
=============================================================================
