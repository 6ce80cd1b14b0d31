-------------------------- MODULE CtxStorageProofs --------------------------
(***************************************************************************)
(* Theorems about CtxStorage for any configurations, users and sizes: the  *)
(* types, that the spans of a configuration are apart, that a Context has  *)
(* room for what was counted when it was made, and that objects are kept   *)
(* in a Context that uses the spans of one configuration only.             *)
(***************************************************************************)
EXTENDS CtxStorage, TLAPS

\* What the configurations of the code and the users are, and how large.
LEMMA UserFacts ==
  \A u \in User : Size[u] \in Nat \ {0} /\ Finds[u] \in {"own", "base", "static"}
BY StorageAssumption

LEMMA ObjectFacts ==
  ASSUME NEW c \in Config, NEW u \in User
  PROVE  <<c, u>> \in Object /\ <<c, u>> # Zero /\ <<c, u>> # Flag /\ Zero # Flag
BY StorageAssumption DEF Object, Config

-----------------------------------------------------------------------------
(* Types.                                                                  *)

\* Every variable stays in its type, and what was loaded has a span.
THEOREM TypeCorrect == Spec => []TypeOK
<1>1. Init => TypeOK
  <2> SUFFICES ASSUME Init PROVE TypeOK
    OBVIOUS
  <2>1. 0 .. 0 - 1 = {}
    OBVIOUS
  <2>2. size \in Int /\ store \in [0 .. size - 1 -> Word]
    BY <2>1 DEF Init
  <2>3. DOMAIN overflow = {}
    BY DEF Init
  <2>4. span \in [Object -> Nat] /\ owner \in [User -> Config \union {NoConfig}]
    BY DEF Init, None
  <2>5. state \in [Config -> {"loading", "ready", "gone"}] /\ required \in [Config -> Nat]
    BY DEF Init
  <2> QED BY <2>2, <2>3, <2>4, <2>5 DEF Init, TypeOK
<1>2. TypeOK /\ [Next]_vars => TypeOK'
  <2> SUFFICES ASSUME TypeOK, [Next]_vars PROVE TypeOK'
    OBVIOUS
  <2> USE DEF None
  <2>1. ASSUME NEW c \in Config, LoadGlobal(c) PROVE TypeOK'
    BY <2>1 DEF TypeOK, LoadGlobal, ctxVars
  <2>2. ASSUME NEW c \in Config, NewInstance(c) PROVE TypeOK'
    BY <2>2 DEF TypeOK, NewInstance, ctxVars
  <2>3. ASSUME NEW c \in Config, LoadFails(c) PROVE TypeOK'
    BY <2>3 DEF TypeOK, LoadFails, ctxVars
  <2>4. ASSUME NEW c \in Config, DeleteInstance(c) PROVE TypeOK'
    BY <2>4 DEF TypeOK, DeleteInstance, ctxVars
  <2>5. ASSUME NEW c \in Config, NEW u \in User, Reserve(c, u) PROVE TypeOK'
    <3>1. <<c, u>> \in Object /\ Size[u] \in Nat /\ required[c] \in Nat
      BY UserFacts DEF TypeOK, Object
    <3>2. required' \in [Config -> Nat] /\ has' \subseteq Object /\ span' \in [Object -> Nat]
      <4>1. required' \in [Config -> Nat]
        BY <2>5, <3>1 DEF TypeOK, Reserve
      <4>2. span' \in [Object -> Nat]
        BY <2>5, <3>1 DEF TypeOK, Reserve
      <4> QED BY <2>5, <3>1, <4>1, <4>2 DEF TypeOK, Reserve
    <3>3. owner' \in [User -> Config \union {NoConfig}]
      BY <2>5 DEF TypeOK, Reserve
    <3>4. ASSUME NEW d \in Config, NEW v \in User, <<d, v>> \in has'
          PROVE  span'[<<d, v>>] # 0 \/ Finds[v] = "static"
      <4>1. CASE <<d, v>> = <<c, u>>
        BY <2>5, <3>1, <4>1 DEF TypeOK, Reserve
      <4>2. CASE <<d, v>> # <<c, u>>
        BY <2>5, <3>1, <3>4, <4>2 DEF TypeOK, Reserve, Object
      <4> QED BY <4>1, <4>2
    <3> QED BY <2>5, <3>2, <3>3, <3>4 DEF TypeOK, Reserve, ctxVars
  <2>6. ASSUME NEW c \in Config, NEW u \in User, Reuse(c, u) PROVE TypeOK'
    BY <2>6 DEF TypeOK, Reuse, ctxVars, Object
  <2>7. ASSUME NEW c \in Config, MakeContext(c) PROVE TypeOK'
    <3>1. size' \in Int
      BY <2>7 DEF TypeOK, MakeContext
    <3>2. store' \in [0 .. size' - 1 -> Word]
      BY <2>7 DEF MakeContext, Word
    <3> QED BY <2>7, <3>1, <3>2 DEF TypeOK, MakeContext, cfgVars
  <2>8. ASSUME NEW c \in Config, NEW u \in User, NEW o \in Config, UseStored(c, u, o)
        PROVE  TypeOK'
    <3>1. <<o, u>> \in Word /\ Flag \in Word
      BY DEF Word, Object
    <3>2. store' \in [0 .. size - 1 -> Word]
      BY <2>8, <3>1 DEF TypeOK, UseStored
    <3>3. used' \subseteq Config /\ wrong' \in BOOLEAN
      BY <2>8 DEF TypeOK, UseStored, Runs
    <3> QED BY <2>8, <3>2, <3>3 DEF TypeOK, UseStored, cfgVars
  <2>9. ASSUME NEW c \in Config, NEW u \in User, NEW o \in Config, UseOverflow(c, u, o)
        PROVE  TypeOK'
    <3> DEFINE Mem == [n : Nat, holds : {Zero} \union Object]
    <3>1. <<o, u>> \in Object /\ span[<<o, u>>] \in Nat
      BY DEF TypeOK, Object
    <3>2. Overflow(o, u) \in Mem
      BY <3>1, UserFacts DEF TypeOK, Overflow
    <3>3. [Overflow(o, u) EXCEPT !.holds = <<o, u>>] \in Mem
      BY <3>1, <3>2
    <3>4. /\ DOMAIN overflow' = DOMAIN overflow \union {span[<<o, u>>]}
          /\ \A s \in DOMAIN overflow' : overflow'[s] \in Mem
      BY <2>9, <3>3 DEF UseOverflow, TypeOK
    <3>5. used' \subseteq Config /\ wrong' \in BOOLEAN
      BY <2>9 DEF TypeOK, UseOverflow, Runs
    <3> QED BY <2>9, <3>1, <3>4, <3>5 DEF TypeOK, UseOverflow, cfgVars
  <2>10. CASE UNCHANGED vars
    BY <2>10 DEF TypeOK, vars, cfgVars, ctxVars
  <2> QED BY <2>1, <2>2, <2>3, <2>4, <2>5, <2>6, <2>7, <2>8, <2>9, <2>10 DEF Next
<1> QED BY <1>1, <1>2, PTL DEF Spec

-----------------------------------------------------------------------------
(* Layout.                                                                 *)

\* What was handed out is inside what is asked for, and later spans begin there.
Ends ==
  \A c \in Config, u \in User :
    span[<<c, u>>] # None =>
      /\ <<c, u>> \in has /\ span[<<c, u>>] >= 1
      /\ span[<<c, u>>] + Size[u] <= required[c]

Apart ==
  \A c \in Config, u, v \in User :
    u # v /\ span[<<c, u>>] # None /\ span[<<c, v>>] # None =>
      \/ span[<<c, u>>] + Size[u] <= span[<<c, v>>] - 1
      \/ span[<<c, v>>] + Size[v] <= span[<<c, u>>] - 1

LEMMA LayoutInit == Init => Ends /\ Apart
BY DEF Init, Ends, Apart, Object

\* Only a reservation changes the layout.
LEMMA LayoutStep == TypeOK /\ Ends /\ Apart /\ [Next]_vars => Ends' /\ Apart'
<1> SUFFICES ASSUME TypeOK, Ends, Apart, [Next]_vars PROVE Ends' /\ Apart'
  OBVIOUS
<1> USE DEF None
<1>1. ASSUME NEW c \in Config, NEW u \in User, Reserve(c, u) PROVE Ends' /\ Apart'
  <2>1. /\ <<c, u>> \in Object /\ Size[u] \in Nat \ {0} /\ required[c] \in Nat
        /\ \A d \in Config, v \in User : <<d, v>> \in Object /\ span[<<d, v>>] \in Nat
        /\ \A v \in User : Size[v] \in Nat \ {0}
    BY UserFacts DEF TypeOK, Object
  <2>2. /\ span'[<<c, u>>] = required[c] + 1 /\ span[<<c, u>>] = 0
        /\ required'[c] = required[c] + 1 + Size[u]
        /\ <<c, u>> \in has'
    <3>1. <<c, u>> \notin has
      BY <1>1 DEF Reserve
    <3> QED BY <1>1, <2>1, <3>1 DEF Reserve, TypeOK, Ends
  <2>3. ASSUME NEW d \in Config, NEW v \in User, <<d, v>> # <<c, u>>
        PROVE  span'[<<d, v>>] = span[<<d, v>>] /\ (<<d, v>> \in has => <<d, v>> \in has')
    BY <1>1, <2>1, <2>3 DEF Reserve, TypeOK
  <2>4. ASSUME NEW d \in Config
        PROVE  required'[d] \in Nat /\ required[d] \in Nat /\ required[d] <= required'[d]
    BY <1>1, <2>1 DEF Reserve, TypeOK
  <2>5. Ends'
    <3> SUFFICES ASSUME NEW d \in Config, NEW v \in User, span'[<<d, v>>] # 0
                 PROVE  /\ <<d, v>> \in has' /\ span'[<<d, v>>] >= 1
                        /\ span'[<<d, v>>] + Size[v] <= required'[d]
      BY DEF Ends
    <3>1. CASE <<d, v>> = <<c, u>>
      BY <2>1, <2>2, <3>1
    <3>2. CASE <<d, v>> # <<c, u>>
      BY <2>1, <2>3, <2>4, <3>2 DEF Ends
    <3> QED BY <3>1, <3>2
  <2>6. Apart'
    <3> SUFFICES ASSUME NEW d \in Config, NEW v \in User, NEW w \in User, v # w,
                        span'[<<d, v>>] # 0, span'[<<d, w>>] # 0
                 PROVE  \/ span'[<<d, v>>] + Size[v] <= span'[<<d, w>>] - 1
                        \/ span'[<<d, w>>] + Size[w] <= span'[<<d, v>>] - 1
      BY DEF Apart
    <3>1. CASE <<d, v>> = <<c, u>>
      <4>1. span'[<<d, w>>] = span[<<d, w>>] /\ span[<<d, w>>] + Size[w] <= required[c]
        BY <2>3, <3>1 DEF Ends
      <4> QED BY <2>1, <2>2, <3>1, <4>1
    <3>2. CASE <<d, w>> = <<c, u>>
      <4>1. span'[<<d, v>>] = span[<<d, v>>] /\ span[<<d, v>>] + Size[v] <= required[c]
        BY <2>3, <3>2 DEF Ends
      <4> QED BY <2>1, <2>2, <3>2, <4>1
    <3>3. CASE <<d, v>> # <<c, u>> /\ <<d, w>> # <<c, u>>
      BY <2>3, <3>3 DEF Apart
    <3> QED BY <3>1, <3>2, <3>3
  <2> QED BY <2>5, <2>6
<1>2. ASSUME NEW c \in Config, NEW u \in User, Reuse(c, u) PROVE Ends' /\ Apart'
  BY <1>2 DEF Reuse, Ends, Apart
<1>3. CASE UNCHANGED <<has, span, required>>
  BY <1>3 DEF Ends, Apart
<1> QED
  BY <1>1, <1>2, <1>3
  DEF Next, LoadGlobal, NewInstance, LoadFails, DeleteInstance, MakeContext, UseStored, UseOverflow,
      vars, cfgVars

\* reserve_ctx_storage never hands out a word twice, and counts all of them.
THEOREM SpansDisjoint == Spec => []SpansApart
<1>1. TypeOK /\ Ends /\ Apart => SpansApart
  BY UserFacts DEF TypeOK, Ends, Apart, SpansApart, Status, None, Object
<1> QED BY <1>1, LayoutInit, LayoutStep, TypeCorrect, PTL DEF Spec

-----------------------------------------------------------------------------
(* What a Context has room for.                                            *)

Ready == {r \in Rule : state[r] = "ready"}

\* What the rules that exist reserved adds up to what is counted for them: w is
\* the sum over each set of rules, given by what one more rule adds to it.
Counts ==
  \E w \in [SUBSET Rule -> Nat] :
    /\ \A S \in SUBSET Rule : \A r \in Rule \ S : w[S \union {r}] = w[S] + required[r]
    /\ remap = w[Ready]

\* The configurations a Context was made for reserve nothing more, and what they
\* did is no more than its store.
Room ==
  base # NoConfig =>
    /\ base \in Global
    /\ \A c \in {base} \union counted : state[c] # "loading" /\ required[c] <= size

LEMMA RuleFacts ==
  /\ Rule \subseteq Config /\ Global \subseteq Config
  /\ \A r \in Rule : r \notin Global
BY StorageAssumption DEF Config

LEMMA CountsInit == Init => Counts
<1> SUFFICES ASSUME Init PROVE Counts
  OBVIOUS
<1> DEFINE w == [S \in SUBSET Rule |-> 0]
<1>1. w \in [SUBSET Rule -> Nat] /\ Ready \in SUBSET Rule
  BY DEF Ready
<1>2. \A S \in SUBSET Rule : \A r \in Rule \ S : w[S \union {r}] = w[S] + required[r]
  BY RuleFacts DEF Init
<1> QED BY <1>1, <1>2 DEF Counts, Init

\* A rule adds to the sums it is in what it reserves.
LEMMA CountsReserve ==
  ASSUME TypeOK, Counts, NEW c \in Config, NEW u \in User, Reserve(c, u)
  PROVE  Counts'
<1>1. PICK w \in [SUBSET Rule -> Nat] :
        /\ \A S \in SUBSET Rule : \A r \in Rule \ S : w[S \union {r}] = w[S] + required[r]
        /\ remap = w[Ready]
  BY DEF Counts
<1> DEFINE k == 1 + Size[u]
           v == [S \in SUBSET Rule |-> IF c \in S THEN w[S] + k ELSE w[S]]
<1>2. k \in Nat /\ state[c] = "loading"
  BY UserFacts DEF Reserve
<1>3. /\ state' = state /\ remap' = remap
      /\ \A r \in Config : required[r] \in Nat
                           /\ required'[r] = IF r = c THEN required[r] + k ELSE required[r]
  <2>1. state' = state /\ remap' = remap /\ Size[u] \in Nat
    BY UserFacts DEF Reserve
  <2>2. /\ required \in [Config -> Nat]
        /\ required' = [required EXCEPT ![c] = @ + 1 + Size[u]]
    BY DEF Reserve, TypeOK
  <2> QED BY <2>1, <2>2
<1>4. \A S \in SUBSET Rule : w[S] \in Nat
  BY <1>1
<1> HIDE DEF k
<1>5. v \in [SUBSET Rule -> Nat]
  BY <1>2, <1>4
<1>6. ASSUME NEW S \in SUBSET Rule, NEW r \in Rule \ S
      PROVE  v[S \union {r}] = v[S] + required'[r]
  <2>1. S \union {r} \in SUBSET Rule /\ r \in Config /\ w[S] \in Nat
    BY <1>4, RuleFacts
  <2>2. w[S \union {r}] = w[S] + required[r]
    BY <1>1
  <2> QED BY <1>2, <1>3, <2>1, <2>2
<1>7. remap' = v[Ready]
  <2>1. Ready \in SUBSET Rule /\ c \notin Ready
    BY <1>2 DEF Ready
  <2> QED BY <1>1, <1>3, <2>1
<1>8. Ready' = Ready
  BY <1>3 DEF Ready
<1> HIDE DEF v
<1> QED BY <1>5, <1>6, <1>7, <1>8 DEF Counts

\* A rule is counted when it is made, and taken off when it is deleted.
LEMMA CountsRule ==
  ASSUME TypeOK, Counts, NEW c \in Config, NewInstance(c) \/ DeleteInstance(c)
  PROVE  Counts'
<1>1. PICK w \in [SUBSET Rule -> Nat] :
        /\ \A S \in SUBSET Rule : \A r \in Rule \ S : w[S \union {r}] = w[S] + required[r]
        /\ remap = w[Ready]
  BY DEF Counts
<1>2. required' = required /\ c \in Rule /\ required[c] \in Nat
      /\ Ready \in SUBSET Rule /\ Ready' \in SUBSET Rule
  BY DEF NewInstance, DeleteInstance, TypeOK, Ready
<1>3. w[Ready] \in Nat /\ w[Ready'] \in Nat
  BY <1>1, <1>2
<1>4. remap' = w[Ready']
  <2>1. CASE NewInstance(c)
    <3>1. c \notin Ready /\ Ready' = Ready \union {c}
      BY <2>1, RuleFacts DEF NewInstance, Complete, Ready, TypeOK
    <3>2. w[Ready'] = w[Ready] + required[c]
      BY <1>1, <1>2, <3>1
    <3> QED BY <1>1, <2>1, <3>2 DEF NewInstance
  <2>2. CASE DeleteInstance(c)
    <3>1. c \notin Ready' /\ Ready = Ready' \union {c}
      BY <2>2, RuleFacts DEF DeleteInstance, Ready, TypeOK
    <3>2. w[Ready] = w[Ready'] + required[c]
      BY <1>1, <1>2, <3>1
    <3> QED BY <1>1, <1>2, <1>3, <2>2, <3>2 DEF DeleteInstance
  <2> QED BY <2>1, <2>2
<1> QED BY <1>1, <1>2, <1>4 DEF Counts

LEMMA CountsStep == TypeOK /\ Counts /\ [Next]_vars => Counts'
<1> SUFFICES ASSUME TypeOK, Counts, [Next]_vars PROVE Counts'
  OBVIOUS
<1>1. ASSUME UNCHANGED <<required, remap>>, Ready' = Ready PROVE Counts'
  BY <1>1 DEF Counts
<1>2. ASSUME NEW c \in Config, LoadGlobal(c) \/ LoadFails(c) PROVE Counts'
  <2>1. Ready' = Ready
    BY <1>2, RuleFacts DEF LoadGlobal, LoadFails, Complete, Ready, TypeOK
  <2> QED BY <1>1, <1>2, <2>1 DEF LoadGlobal, LoadFails
<1>3. ASSUME UNCHANGED <<state, required, remap>> PROVE Counts'
  BY <1>1, <1>3 DEF Ready
<1> QED
  BY <1>2, <1>3, CountsReserve, CountsRule
  DEF Next, Reuse, MakeContext, UseStored, UseOverflow, vars, cfgVars

\* No rule that exists reserved more than is counted for all of them.
LEMMA ReadyCounted ==
  ASSUME TypeOK, Counts, NEW r \in Ready
  PROVE  required[r] <= remap /\ remap \in Nat
<1>1. PICK w \in [SUBSET Rule -> Nat] :
        /\ \A S \in SUBSET Rule : \A q \in Rule \ S : w[S \union {q}] = w[S] + required[q]
        /\ remap = w[Ready]
  BY DEF Counts
<1> DEFINE Others == Ready \ {r}
<1>2. Others \in SUBSET Rule /\ r \in Rule \ Others /\ Ready = Others \union {r} /\ Ready \in SUBSET Rule
  BY DEF Ready
<1>3. w[Others] \in Nat /\ w[Ready] \in Nat /\ required[r] \in Nat
  BY <1>1, <1>2, RuleFacts DEF TypeOK
<1>4. w[Ready] = w[Others] + required[r]
  BY <1>1, <1>2
<1> QED BY <1>1, <1>3, <1>4

LEMMA RoomStep == TypeOK /\ Counts /\ Room /\ [Next]_vars => Room'
<1> SUFFICES ASSUME TypeOK, Counts, Room, [Next]_vars PROVE Room'
  OBVIOUS
<1>1. ASSUME NEW c \in Config, MakeContext(c) PROVE Room'
  <2>1. /\ base' = c /\ c \in Global /\ counted' = Ready /\ size' = remap + required[c]
        /\ state' = state /\ required' = required /\ state[c] = "ready"
    BY <1>1 DEF MakeContext, cfgVars, Ready
  <2>2. remap \in Nat /\ required[c] \in Nat
    <3>1. PICK w \in [SUBSET Rule -> Nat] : remap = w[Ready]
      BY DEF Counts
    <3> QED BY <3>1 DEF Ready, TypeOK
  <2>3. ASSUME NEW d \in {c} \union Ready
        PROVE  state[d] # "loading" /\ required[d] <= remap + required[c]
    <3>1. CASE d = c
      BY <2>1, <2>2, <3>1
    <3>2. CASE d \in Ready
      <4>1. required[d] <= remap /\ required[d] \in Nat /\ state[d] = "ready"
        BY <3>2, ReadyCounted, RuleFacts DEF Ready, TypeOK
      <4> QED BY <2>2, <4>1
    <3> QED BY <3>1, <3>2
  <2> QED BY <2>1, <2>3 DEF Room
\* A configuration that is loaded reserves no more, and never loads again.
<1>2. ASSUME UNCHANGED <<base, counted, size>>,
             \A c \in Config : state[c] # "loading" => /\ state'[c] # "loading"
                                                       /\ required'[c] = required[c]
      PROVE  Room'
  BY <1>2, RuleFacts DEF Room, TypeOK
<1>3. ASSUME NEW c \in Config,
             \/ LoadGlobal(c) \/ NewInstance(c) \/ LoadFails(c) \/ DeleteInstance(c)
             \/ \E u \in User : Reserve(c, u) \/ Reuse(c, u)
      PROVE  Room'
  <2>1. UNCHANGED <<base, counted, size>>
    BY <1>3 DEF LoadGlobal, NewInstance, LoadFails, DeleteInstance, Reserve, Reuse, ctxVars
  <2>2. ASSUME NEW d \in Config, state[d] # "loading"
        PROVE  state'[d] # "loading" /\ required'[d] = required[d]
    BY <1>3, <2>2
    DEF LoadGlobal, NewInstance, LoadFails, DeleteInstance, Reserve, Reuse, Complete, TypeOK
  <2> QED BY <1>2, <2>1, <2>2
<1>4. ASSUME UNCHANGED <<cfgVars, base, counted, size>> PROVE Room'
  BY <1>4 DEF Room, cfgVars
<1> QED BY <1>1, <1>3, <1>4 DEF Next, UseStored, UseOverflow, vars, ctxVars

\* A Context has room for all that was reserved when it was made, whatever rules
\* were made and deleted before: storage_for takes their spans from its store.
THEOREM RoomForCounted == Spec => []CountedFits
<1>1. Init => Room
  BY DEF Init, Room
<1>2. TypeOK /\ Ends /\ Room => CountedFits
  <2> SUFFICES ASSUME TypeOK, Ends, Room, base # NoConfig, NEW c \in {base} \union counted,
                      NEW u \in User, span[<<c, u>>] # None
               PROVE  Inside(c, u)
    BY DEF CountedFits
  <2>1. c \in Config
    BY RuleFacts DEF TypeOK, Room
  <2>2. /\ span[<<c, u>>] + Size[u] <= required[c] /\ required[c] <= size
        /\ span[<<c, u>>] \in Nat /\ Size[u] \in Nat /\ required[c] \in Nat /\ size \in Int
    BY <2>1, UserFacts DEF Ends, Room, TypeOK, Object
  <2> QED BY <2>2 DEF Inside
<1> QED
  BY <1>1, <1>2, TypeCorrect, LayoutInit, LayoutStep, CountsInit, CountsStep, RoomStep, PTL DEF Spec

-----------------------------------------------------------------------------
(* Objects.                                                                *)

\* A span with its status as the Context was made, or with what its user left.
Whole(c, u) ==
  \/ \A i \in Words(c, u) \union {Status(c, u)} : store[i] = Zero
  \/ /\ \A i \in Words(c, u) : store[i] = <<c, u>>
     /\ store[Status(c, u)] = IF Constructs(u) THEN Flag ELSE Zero

\* A Context that used no spans but those of c: they are whole, and the memory c
\* has not handed out yet is as it was made.
Clean(c) ==
  used \subseteq {c} =>
    /\ \A u \in User : span[<<c, u>>] # None /\ Inside(c, u) => Whole(c, u)
    /\ \A i \in 0 .. size - 1 : i >= required[c] => store[i] = Zero

AllClean == \A c \in Config : Clean(c)

\* The words of a span inside the store are words of it.
LEMMA InStore ==
  ASSUME TypeOK, Ends, NEW c \in Config, NEW u \in User, span[<<c, u>>] # None, Inside(c, u)
  PROVE  /\ Words(c, u) \union {Status(c, u)} \subseteq 0 .. size - 1
         /\ DOMAIN store = 0 .. size - 1 /\ size \in Int /\ span[<<c, u>>] \in Nat
         /\ Status(c, u) \notin Words(c, u)
BY UserFacts DEF TypeOK, Ends, Inside, Words, Status, Object, None

\* Two spans of a configuration, with their status, have no word in common.
LEMMA NoneShared ==
  ASSUME TypeOK, Ends, Apart, NEW c \in Config, NEW u \in User, NEW v \in User, u # v,
         span[<<c, u>>] # None, span[<<c, v>>] # None,
         NEW i \in Words(c, v) \union {Status(c, v)}
  PROVE  i \notin Words(c, u) /\ i # Status(c, u)
<1>1. /\ span[<<c, u>>] \in Nat /\ span[<<c, v>>] \in Nat
      /\ Size[u] \in Nat \ {0} /\ Size[v] \in Nat \ {0}
  BY UserFacts DEF TypeOK, Object
<1>2. \/ span[<<c, u>>] + Size[u] <= span[<<c, v>>] - 1
      \/ span[<<c, v>>] + Size[v] <= span[<<c, u>>] - 1
  BY DEF Apart
<1>3. i \in Int /\ span[<<c, v>>] - 1 <= i /\ i <= span[<<c, v>>] + Size[v] - 1
  BY <1>1 DEF Words, Status
<1> QED BY <1>1, <1>2, <1>3 DEF Words, Status

LEMMA CleanInit == Init => AllClean
<1> SUFFICES ASSUME Init, NEW c \in Config PROVE Clean(c)
  BY DEF AllClean
<1>1. \A u \in User : span[<<c, u>>] = None
  BY DEF Init, Object
<1>2. 0 .. size - 1 = {}
  BY DEF Init
<1> QED BY <1>1, <1>2 DEF Clean

\* A new span begins where nothing was written.
LEMMA CleanReserve ==
  ASSUME TypeOK, Ends, AllClean, NEW c \in Config, NEW u \in User, Reserve(c, u)
  PROVE  AllClean'
<1> SUFFICES ASSUME NEW d \in Config, used' \subseteq {d} PROVE Clean(d)'
  BY DEF AllClean, Clean
<1>1. store' = store /\ size' = size /\ used' = used
  BY DEF Reserve, ctxVars
<1>2. used \subseteq {d} /\ Clean(d)
  BY <1>1 DEF AllClean
<1>3. \A v \in User : <<d, v>> # <<c, u>> => span'[<<d, v>>] = span[<<d, v>>]
  BY DEF Reserve, TypeOK, Object
<1>4. required[d] \in Nat /\ required'[d] \in Nat /\ required[d] <= required'[d] /\ size \in Int
  BY UserFacts DEF Reserve, TypeOK
<1>5. \A i \in 0 .. size - 1 : i >= required'[d] => store[i] = Zero
  BY <1>2, <1>4 DEF Clean
<1>6. ASSUME NEW v \in User, span'[<<d, v>>] # None, Inside(d, v)' PROVE Whole(d, v)'
  <2>1. CASE <<d, v>> # <<c, u>>
    <3>1. span'[<<d, v>>] = span[<<d, v>>]
      BY <1>3, <2>1
    <3>2. Inside(d, v) /\ span[<<d, v>>] # None
      BY <1>1, <1>6, <3>1 DEF Inside
    <3>3. Whole(d, v)
      BY <1>2, <3>2 DEF Clean
    <3> QED BY <1>1, <3>1, <3>3 DEF Whole, Words, Status, Constructs
  <2>2. CASE <<d, v>> = <<c, u>>
    <3>1. span'[<<d, v>>] = required[d] + 1 /\ Size[v] \in Nat \ {0}
      BY <2>2, UserFacts DEF Reserve, TypeOK, Object
    <3>2. required[d] + 1 + Size[v] <= size
      BY <1>1, <1>6, <3>1 DEF Inside
    <3>3. \A i \in (Words(d, v) \union {Status(d, v)})' : i \in 0 .. size - 1 /\ i >= required[d]
      BY <1>4, <3>1, <3>2 DEF Words, Status
    <3>4. \A i \in (Words(d, v) \union {Status(d, v)})' : store'[i] = Zero
      BY <1>1, <1>2, <3>3 DEF Clean
    <3> QED BY <3>4 DEF Whole
  <2> QED BY <2>1, <2>2
<1> QED BY <1>1, <1>5, <1>6 DEF Clean

\* A use of one configuration's spans leaves those of its other users as they are.
LEMMA CleanUse ==
  ASSUME TypeOK, Ends, Apart, AllClean,
         NEW c \in Config, NEW u \in User, NEW o \in Config, UseStored(c, u, o)
  PROVE  AllClean'
<1> SUFFICES ASSUME NEW d \in Config, used' \subseteq {d} PROVE Clean(d)'
  BY DEF AllClean, Clean
<1>1. /\ d = o /\ used \subseteq {o} /\ span[<<o, u>>] # None /\ Inside(o, u)
      /\ span' = span /\ required' = required /\ size' = size
  BY DEF UseStored, Runs, cfgVars
<1>2. Clean(o)
  BY DEF AllClean
<1>3. /\ Words(o, u) \union {Status(o, u)} \subseteq DOMAIN store
      /\ DOMAIN store = 0 .. size - 1 /\ size \in Int
      /\ Status(o, u) \notin Words(o, u)
  BY <1>1, InStore
<1>4. /\ \A i \in Words(o, u) : store'[i] = <<o, u>>
      /\ Constructs(u) => store'[Status(o, u)] = Flag
      /\ ~ Constructs(u) => store'[Status(o, u)] = store[Status(o, u)]
      /\ \A i \in DOMAIN store :
           i \notin Words(o, u) /\ i # Status(o, u) => store'[i] = store[i]
  BY <1>3, Zenon DEF UseStored
<1>5. Whole(o, u) /\ required[o] \in Nat
  BY <1>1, <1>2 DEF Clean, TypeOK
<1>6. Whole(o, u)'
  <2>1. ~ Constructs(u) => store[Status(o, u)] = Zero
    BY <1>5 DEF Whole
  <2> QED BY <1>1, <1>4, <2>1 DEF Whole, Words, Status, Constructs
<1>7. ASSUME NEW v \in User, v # u, span[<<o, v>>] # None, Inside(o, v) PROVE Whole(o, v)'
  <2>1. Words(o, v) \union {Status(o, v)} \subseteq DOMAIN store
    BY <1>7, <1>3, InStore
  <2>2. \A i \in Words(o, v) \union {Status(o, v)} : store'[i] = store[i]
    BY <1>1, <1>4, <1>7, <2>1, NoneShared
  <2>3. Whole(o, v)
    BY <1>1, <1>2, <1>7 DEF Clean
  <2> QED BY <1>1, <2>2, <2>3 DEF Whole, Words, Status, Constructs
<1>8. \A i \in 0 .. size - 1 : i >= required[o] => store'[i] = Zero
  <2> SUFFICES ASSUME NEW i \in 0 .. size - 1, i >= required[o] PROVE store'[i] = Zero
    OBVIOUS
  <2>1. store[i] = Zero
    BY <1>1, <1>2 DEF Clean
  <2>2. i \notin Words(o, u) /\ i # Status(o, u)
    BY <1>1, <1>5, UserFacts DEF Ends, Words, Status, TypeOK, Object
  <2> QED BY <1>3, <1>4, <2>1, <2>2
<1>9. ASSUME NEW v \in User, span'[<<d, v>>] # None, Inside(d, v)' PROVE Whole(d, v)'
  BY <1>1, <1>6, <1>7, <1>9 DEF Inside
<1> QED BY <1>1, <1>8, <1>9 DEF Clean

LEMMA CleanStep == TypeOK /\ Ends /\ Apart /\ AllClean /\ [Next]_vars => AllClean'
<1> SUFFICES ASSUME TypeOK, Ends, Apart, AllClean, [Next]_vars PROVE AllClean'
  OBVIOUS
<1>1. ASSUME NEW c \in Config, MakeContext(c) PROVE AllClean'
  <2>1. \A i \in 0 .. size' - 1 : store'[i] = Zero
    BY <1>1 DEF MakeContext
  <2>2. ASSUME NEW d \in Config, NEW u \in User, span'[<<d, u>>] # None, Inside(d, u)'
        PROVE  Whole(d, u)'
    <3>1. span' = span /\ size' \in Int
      BY <1>1 DEF MakeContext, cfgVars, TypeOK
    <3>2. (Words(d, u) \union {Status(d, u)})' \subseteq 0 .. size' - 1
      BY <2>2, <3>1, UserFacts DEF TypeOK, Ends, Inside, Words, Status, Object, None
    <3> QED BY <2>1, <3>2 DEF Whole
  <2> QED BY <2>1, <2>2 DEF AllClean, Clean
<1>2. CASE UNCHANGED <<span, size, store, used, required>>
  BY <1>2 DEF AllClean, Clean, Inside, Whole, Words, Status, Constructs
<1>3. ASSUME NEW c \in Config, NEW u \in User, NEW o \in Config, UseOverflow(c, u, o)
      PROVE  AllClean'
  BY <1>3 DEF UseOverflow, Runs, cfgVars, AllClean, Clean, Inside, Whole, Words, Status, Constructs
<1> QED
  BY <1>1, <1>2, <1>3, CleanReserve, CleanUse
  DEF Next, LoadGlobal, NewInstance, LoadFails, DeleteInstance, Reuse, vars, cfgVars, ctxVars

\* What is found in the span of a Context that used no other configuration.
LEMMA FoundOwn ==
  ASSUME TypeOK, Ends, NEW o \in Config, NEW u \in User, Whole(o, u),
         span[<<o, u>>] # None, Inside(o, u),
         NEW initialized \in Initialized(o, u)
  PROVE  FindsOwn(o, u, Constructs(u) /\ ~ initialized)
<1>1. <<o, u>> # Zero /\ Zero # Flag
  BY ObjectFacts
<1>2. CASE \A i \in Words(o, u) \union {Status(o, u)} : store[i] = Zero
  <2>1. store[Status(o, u)] = Zero
    BY <1>2
  <2>2. Initialized(o, u) = {FALSE}
    BY <2>1, <1>1 DEF Initialized
  <2>3. initialized = FALSE
    BY <2>2
  <2> QED BY <1>1, <1>2, <2>3 DEF FindsOwn
<1>3. CASE /\ \A i \in Words(o, u) : store[i] = <<o, u>>
           /\ store[Status(o, u)] = IF Constructs(u) THEN Flag ELSE Zero
  <2>1. Constructs(u) => initialized = TRUE
    BY <1>1, <1>3 DEF Initialized
  <2> QED BY <1>3, <2>1 DEF FindsOwn
<1> QED BY <1>2, <1>3 DEF Whole

\* initialized_storage_for constructs once and never gives a user the object of
\* another, as long as the Context uses the spans of one configuration and none of
\* them overflows.
THEOREM ObjectsKept == Spec => []OwnObject
<1>1. Init => OwnObject
  BY DEF Init, OwnObject
<1>2. TypeOK /\ Ends /\ Apart /\ AllClean /\ OwnObject /\ [Next]_vars => OwnObject'
  <2> SUFFICES ASSUME TypeOK, Ends, Apart, AllClean, OwnObject, [Next]_vars PROVE OwnObject'
    OBVIOUS
  <2>1. ASSUME NEW c \in Config, NEW u \in User, NEW o \in Config, UseStored(c, u, o)
        PROVE  OwnObject'
    <3> SUFFICES ASSUME wrong', DOMAIN overflow' = {}, \A d, e \in used' : d = e PROVE FALSE
      BY DEF OwnObject
    <3>1. /\ o \in used' /\ used \subseteq used' /\ overflow' = overflow
          /\ span[<<o, u>>] # None /\ Inside(o, u)
      BY <2>1 DEF UseStored, Runs
    <3>2. used \subseteq {o} /\ ~ wrong
      BY <3>1 DEF OwnObject
    <3>3. Whole(o, u)
      BY <3>1, <3>2 DEF AllClean, Clean
    <3>4. PICK initialized \in Initialized(o, u) :
            wrong' = (wrong \/ ~ FindsOwn(o, u, Constructs(u) /\ ~ initialized))
      BY <2>1, Zenon DEF UseStored
    <3> QED BY <3>1, <3>2, <3>3, <3>4, FoundOwn
  <2>2. ASSUME NEW c \in Config, NEW u \in User, NEW o \in Config, UseOverflow(c, u, o)
        PROVE  OwnObject'
    <3>1. span[<<o, u>>] \in DOMAIN overflow'
      BY <2>2 DEF UseOverflow
    <3> QED BY <3>1 DEF OwnObject
  <2>3. CASE UNCHANGED <<wrong, overflow, used>>
    BY <2>3 DEF OwnObject
  <2> QED
    BY <2>1, <2>2, <2>3
    DEF Next, LoadGlobal, NewInstance, LoadFails, DeleteInstance, Reserve, Reuse, MakeContext,
        vars, ctxVars
<1> QED
  BY <1>1, <1>2, TypeCorrect, LayoutInit, LayoutStep, CleanInit, CleanStep, PTL DEF Spec
=============================================================================
