----------------------------- MODULE CtxStorage -----------------------------
(***************************************************************************)
(* Memory of a Context that is reserved while configurations load: each    *)
(* Config hands out spans, offsets with a status block in front; a Context *)
(* gets one block, large enough for its own Config and all remap rules;    *)
(* at run time a span is turned into memory, and constructed if its status *)
(* says that it is not yet.  A transaction runs its own Config and that of *)
(* remap rules in one Context.                                             *)
(* Source: Config.cc, Context.h, Context.cc, common.h, txn_box_remap.cc,   *)
(* ex_tcp_info.cc.  Memory is counted in words, the 8 bytes of Align.      *)
(***************************************************************************)
EXTENDS Integers

CONSTANTS
  Global,     \* configurations a Context can belong to
  Rule,       \* configurations of remap rules
  User,       \* what reserves: a feature group, ip-space, tcp-info ...
  Loads,      \* those that the files of each configuration have
  Size,       \* words each of them needs
  Finds,      \* how it finds its span: "own", kept in the loaded object; "base",
              \* asks the Config of the Context; "static", kept by the program
  Zero, Flag, \* a word as memset leaves it; a status that is set
  NoConfig

Config == Global \union Rule

ASSUME StorageAssumption ==
  /\ Global \intersect Rule = {} /\ NoConfig \notin Config
  /\ Loads \in [Config -> SUBSET User]
  /\ Size \in [User -> Nat \ {0}]
  /\ Finds \in [User -> {"own", "base", "static"}]
  /\ Zero # Flag /\ {Zero, Flag} \intersect (Config \X User) = {}

VARIABLES
  state,    \* of a configuration: "loading", "ready" or "gone"
  required, \* its _ctx_storage_required
  has,      \* what was loaded with it
  span,     \* the offsets it handed out
  owner,    \* the configuration whose span a static user keeps
  remap,    \* G._remap_ctx_storage_required
  base,     \* the Config of the Context
  counted,  \* the rules that existed when the Context was made
  size,     \* of its _ctx_store
  store,    \* the words of that
  overflow, \* its _overflow_spans, by offset: their size and what they hold
  used,     \* the configurations whose spans it used
  wrong     \* a user found neither its own object nor a new one

cfgVars == <<state, required, has, span, owner, remap>>
ctxVars == <<base, counted, size, store, overflow, used, wrong>>
vars == <<cfgVars, ctxVars>>

Object == Config \X User          \* what a user keeps: the span it is for
Word == {Zero, Flag} \union Object
None == 0                         \* no offset is 0: the status is in front

TypeOK ==
  /\ state \in [Config -> {"loading", "ready", "gone"}]
  /\ required \in [Config -> Nat]
  /\ has \subseteq Object
  /\ span \in [Object -> Nat]
  /\ \A c \in Config, u \in User :
       <<c, u>> \in has => span[<<c, u>>] # None \/ Finds[u] = "static"
  /\ owner \in [User -> Config \union {NoConfig}]
  /\ remap \in Int
  /\ base \in Global \union {NoConfig}
  /\ counted \subseteq Rule
  /\ size \in Int
  /\ store \in [0 .. size - 1 -> Word]
  /\ DOMAIN overflow \subseteq Nat
  /\ \A s \in DOMAIN overflow : overflow[s] \in [n : Nat, holds : {Zero} \union Object]
  /\ used \subseteq Config
  /\ wrong \in BOOLEAN

Init ==
  /\ state = [c \in Config |-> "loading"] /\ required = [c \in Config |-> 0]
  /\ has = {} /\ span = [o \in Object |-> None]
  /\ owner = [u \in User |-> NoConfig] /\ remap = 0
  /\ base = NoConfig /\ counted = {}
  /\ size = 0 /\ store = [i \in {} |-> Zero] /\ overflow = [s \in {} |-> Zero]
  /\ used = {} /\ wrong = FALSE

-----------------------------------------------------------------------------
(* Loading.                                                                *)

\* Config::reserve_ctx_storage: a block for the status, then the span.
Reserve(c, u) ==
  /\ state[c] = "loading" /\ u \in Loads[c] /\ <<c, u>> \notin has
  /\ Finds[u] = "static" => owner[u] = NoConfig
  /\ span' = [span EXCEPT ![<<c, u>>] = required[c] + 1]
  /\ required' = [required EXCEPT ![c] = @ + 1 + Size[u]]
  /\ has' = has \union {<<c, u>>}
  /\ owner' = IF Finds[u] = "static" THEN [owner EXCEPT ![u] = c] ELSE owner
  /\ UNCHANGED <<state, remap, ctxVars>>

\* Ex_tcp_info::validate once its static has a size, in whatever configuration.
Reuse(c, u) ==
  /\ state[c] = "loading" /\ u \in Loads[c] /\ <<c, u>> \notin has
  /\ Finds[u] = "static" /\ owner[u] # NoConfig
  /\ has' = has \union {<<c, u>>}
  /\ UNCHANGED <<state, required, span, owner, remap, ctxVars>>

Complete(c) == state[c] = "loading" /\ \A u \in Loads[c] : <<c, u>> \in has

\* TxnBoxInit, Task_ConfigReload.
LoadGlobal(c) ==
  /\ c \in Global /\ Complete(c)
  /\ state' = [state EXCEPT ![c] = "ready"]
  /\ UNCHANGED <<required, has, span, owner, remap, ctxVars>>

NewInstance_NotCounted(c) ==
  /\ c \in Rule /\ Complete(c)
  /\ state' = [state EXCEPT ![c] = "ready"]
  /\ UNCHANGED <<required, has, span, owner, remap, ctxVars>>

\* TSRemapNewInstance counts what the rule reserved.
NewInstance(c) ==
  /\ c \in Rule /\ Complete(c)
  /\ state' = [state EXCEPT ![c] = "ready"]
  /\ remap' = remap + required[c]
  /\ UNCHANGED <<required, has, span, owner, ctxVars>>

\* Errors: the Config goes, the static span it reserved does not.
LoadFails(c) ==
  /\ state[c] = "loading"
  /\ state' = [state EXCEPT ![c] = "gone"]
  /\ UNCHANGED <<required, has, span, owner, remap, ctxVars>>

\* TSRemapDeleteInstance.
DeleteInstance(c) ==
  /\ c \in Rule /\ state[c] = "ready"
  /\ state' = [state EXCEPT ![c] = "gone"]
  /\ remap' = remap - required[c]
  /\ UNCHANGED <<required, has, span, owner, ctxVars>>

-----------------------------------------------------------------------------
(* A Context.                                                              *)

\* The constructor, with Remap_Static_Config if there is no global one: that is
\* a configuration with nothing reserved.
MakeContext(c) ==
  /\ base = NoConfig /\ c \in Global /\ state[c] = "ready"
  /\ base' = c
  /\ counted' = {r \in Rule : state[r] = "ready"}
  /\ size' = remap + required[c]
  /\ store' = [i \in 0 .. size' - 1 |-> Zero]
  /\ UNCHANGED <<cfgVars, overflow, used, wrong>>

\* What a user of c that runs in the Context takes for its reservation.
SpanOf(c, u) ==
  CASE Finds[u] = "own" -> c [] Finds[u] = "base" -> base [] OTHER -> owner[u]

\* u of configuration c is invoked, and finds the span that o reserved.  In a rule
\* the Config of the Context may not have it: then nothing is used.
Runs(c, u, o) ==
  /\ base # NoConfig /\ <<c, u>> \in has
  /\ \/ c = base
     \/ c \in Rule /\ state[c] = "ready"
  /\ o = SpanOf(c, u) /\ <<o, u>> \in Object /\ span[<<o, u>>] # None
  /\ used' = used \union {o}

\* storage_for: inside the store, or else overflow_storage_for.
Inside(o, u) == span[<<o, u>>] + Size[u] <= size

\* initialized_storage_for; those that ask the Config use storage_for as it is.
Constructs(u) == Finds[u] # "base"

\* The words of a span, and of the status in front of it.
Words(o, u) == span[<<o, u>>] .. span[<<o, u>>] + Size[u] - 1
Status(o, u) == span[<<o, u>>] - 1

\* _initialized_p.  Where other data was written, the bit can be either.
Initialized(o, u) ==
  CASE store[Status(o, u)] = Zero -> {FALSE}
    [] store[Status(o, u)] = Flag -> {TRUE}
    [] OTHER -> BOOLEAN

\* Constructed without destroying its own object, or its own object, or, for those
\* that do not construct, memory as the Context made it.
FindsOwn(o, u, constructs) ==
  IF constructs
  THEN \A i \in Words(o, u) : store[i] # <<o, u>>
  ELSE \/ \A i \in Words(o, u) : store[i] = <<o, u>>
       \/ ~ Constructs(u) /\ (\A i \in Words(o, u) : store[i] = Zero)

UseStored_NoStatus(c, u, o) ==
  /\ Runs(c, u, o) /\ Inside(o, u)
  /\ \E initialized \in Initialized(o, u) :
       wrong' = (wrong \/ ~ FindsOwn(o, u, Constructs(u) /\ ~ initialized))
  /\ store' = [i \in DOMAIN store |-> IF i \in Words(o, u) THEN <<o, u>> ELSE store[i]]
  /\ UNCHANGED <<cfgVars, base, counted, size, overflow>>

UseStored(c, u, o) ==
  /\ Runs(c, u, o) /\ Inside(o, u)
  /\ \E initialized \in Initialized(o, u) :
       wrong' = (wrong \/ ~ FindsOwn(o, u, Constructs(u) /\ ~ initialized))
  /\ store' = [i \in DOMAIN store |->
                 IF i \in Words(o, u) THEN <<o, u>>
                 ELSE IF Constructs(u) /\ i = Status(o, u) THEN Flag
                 ELSE store[i]]
  /\ UNCHANGED <<cfgVars, base, counted, size, overflow>>

\* overflow_storage_for: zeroed memory by offset, as large as the first user needs.
\* The status that initialized_storage_for reads is 8 bytes in front, while this
\* allocates the 4 bytes of a ReservedStatus: what is there can be anything.
Overflow(o, u) ==
  IF span[<<o, u>>] \in DOMAIN overflow THEN overflow[span[<<o, u>>]]
  ELSE [n |-> Size[u], holds |-> Zero]

UseOverflow(c, u, o) ==
  /\ Runs(c, u, o) /\ ~ Inside(o, u)
  /\ LET mem == Overflow(o, u) IN
     /\ \E initialized \in BOOLEAN :
          wrong' = \/ wrong
                   \/ mem.n < Size[u]
                   \/ ~ IF Constructs(u) /\ ~ initialized THEN mem.holds # <<o, u>>
                        ELSE mem.holds = <<o, u>> \/ (~ Constructs(u) /\ mem.holds = Zero)
     /\ overflow' = [s \in DOMAIN overflow \union {span[<<o, u>>]} |->
                       IF s = span[<<o, u>>] THEN [mem EXCEPT !.holds = <<o, u>>]
                       ELSE overflow[s]]
  /\ UNCHANGED <<cfgVars, base, counted, size, store>>

Next ==
  \/ \E c \in Config : LoadGlobal(c) \/ NewInstance(c) \/ LoadFails(c) \/ DeleteInstance(c)
  \/ \E c \in Config, u \in User : Reserve(c, u) \/ Reuse(c, u)
  \/ \E c \in Config : MakeContext(c)
  \/ \E c \in Config, u \in User, o \in Config : UseStored(c, u, o) \/ UseOverflow(c, u, o)

Spec == Init /\ [][Next]_vars

-----------------------------------------------------------------------------
(* Properties.                                                             *)

\* The spans one configuration hands out do not share a word, neither among them
\* nor with the status of one of them, and it asks for enough to hold them all.
SpansApart ==
  \A c \in Config, u, v \in User :
    span[<<c, u>>] # None =>
      /\ Status(c, u) >= 0 /\ span[<<c, u>>] + Size[u] <= required[c]
      /\ u # v /\ span[<<c, v>>] # None =>
           \/ span[<<c, u>>] + Size[u] <= Status(c, v)
           \/ span[<<c, v>>] + Size[v] <= Status(c, u)

\* What was reserved by the configuration of a Context, or by a rule that was
\* there when the Context was made, is inside its store: overflow is only for
\* rules that come later.
CountedFits ==
  base # NoConfig =>
    \A c \in {base} \union counted, u \in User : span[<<c, u>>] # None => Inside(c, u)

\* As long as a Context uses the spans of one configuration, all of them in its
\* store, each user finds memory that is constructed once, and what it left there.
OwnObject ==
  wrong => DOMAIN overflow # {} \/ \E c, d \in used : c # d

\* Context.h, initialized_storage_for: status is tracked per reserved span per
\* context, whatever configurations those belong to.
OncePerSpan == wrong => DOMAIN overflow # {}
=============================================================================
