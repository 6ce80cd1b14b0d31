----------------------------- MODULE Transient -----------------------------
(***************************************************************************)
(* The memory of a Context for texts: an arena, and behind what is         *)
(* allocated of it the transient buffer, in which texts are rendered.  A   *)
(* text stays there until it is committed, and that happens late: when the *)
(* buffer is wanted again.  Source: Context.cc and Context.h, with the     *)
(* extractors, modifiers and directives that use the buffer.               *)
(*                                                                         *)
(* A text is the cells it is in; whether somebody wrote on a text that is  *)
(* still wanted is kept in spoiled.  A Context is used by one thread at a  *)
(* time; what is interleaved here are the uses of its buffer by            *)
(* expressions that contain expressions.                                   *)
(***************************************************************************)
EXTENDS Integers, Sequences, FiniteSets

CONSTANTS
  Blocks,      \* the blocks the arena can get: <<first cell, end>>
  ACTIVE,      \* TRANSIENT_ACTIVE, the largest number there is: the buffer is being written
  Clients,     \* uses that do not keep to the rules of the buffer: "format", "encode", "direct"
  MaxLen,      \* bound: the cells of a text
  MaxNesting,  \* bound: renderings in renderings
  MaxKept      \* bound: texts that are kept

ASSUME TransientAssumption ==
  /\ ACTIVE \in Nat
  /\ Blocks # {} /\ \A b \in Blocks : b \in Nat \X Nat /\ b[1] <= b[2] /\ b[2] < ACTIVE
  /\ MaxLen \in Nat /\ MaxNesting \in Nat /\ MaxKept \in Nat

VARIABLES
  arena,    \* what is allocated, the remnant of the block in use, _transient
  frames,   \* _transient_writer: where the renderings that are going on began, the outermost first
  extent,   \* how much they wrote, what did not fit included
  value,    \* the feature that was extracted last, as long as it is used (a set of at most one)
  subject,  \* what a modifier works on, while it extracts its argument (likewise)
  pieces,   \* the texts its result is made of
  kept,     \* the texts that are kept: by a directive, in a variable, in the cache of a group
  spoiled,  \* somebody wrote on one of these (for the properties)
  cause     \* what left the buffer in use, or asked for it in a rendering (for the properties)

features == <<value, subject, pieces, kept>>
vars     == <<arena, frames, extent, features, spoiled, cause>>

\* A FeatureView in the arena: where the text is, and _literal_p.
View == [at : Nat, len : Nat, lit : BOOLEAN]

Wanted == value \cup subject \cup pieces \cup kept

Span(at, n) == at .. at + n - 1

TypeOK ==
  /\ arena \in [allocated : SUBSET Nat, free : Nat, end : Nat, transient : Nat, thrown : BOOLEAN]
  /\ frames \in Seq(Nat) /\ extent \in Nat
  /\ Wanted \subseteq View
  /\ spoiled \in BOOLEAN /\ cause \in {"none", "refused", "object"}

-----------------------------------------------------------------------------
(* The arena (swoc::MemArena) as its users know it: there is a block with  *)
(* room for what is asked for, and what is allocated comes from its front. *)

Room(a) == a.end - a.free

\* The parts of the blocks that nothing is allocated of.
Remnants(a) ==
  {r \in UNION {{<<f, b[2]>> : f \in b[1] .. b[2]} : b \in Blocks} :
    /\ r[1] .. r[2] - 1 \cap a.allocated = {}
    /\ r[1] - 1 \in a.allocated \/ \E b \in Blocks : b[1] = r[1]}

require(a, n) ==
  IF n <= Room(a) THEN {a}
  ELSE {[a EXCEPT !.free = r[1], !.end = r[2]] : r \in {q \in Remnants(a) : n <= q[2] - q[1]}}

alloc(a, n) ==
  {[b EXCEPT !.allocated = @ \cup Span(b.free, n), !.free = @ + n] : b \in require(a, n)}

-----------------------------------------------------------------------------
(* The operations of Context on its arena.                                 *)

transient_finalize(a, n) == [a EXCEPT !.transient = n]

transient_discard(a) == [a EXCEPT !.transient = 0]

\* "Recursive use" is thrown, and nothing the arena becomes after it counts.
commit_transient(a) ==
  IF a.transient = ACTIVE THEN {[a EXCEPT !.thrown = TRUE]}
  ELSE {transient_discard(b) : b \in alloc(a, a.transient)}

\* Variant: a buffer is given out while a text waits in the one before.
transient_require_NoCommit(a, n) == require(a, n)

transient_require(a, n) == UNION {require(b, n) : b \in commit_transient(a)}

transient_buffer(a, n) == {[b EXCEPT !.transient = ACTIVE] : b \in transient_require(a, n)}

\* make and alloc_span, of one cell: the one in front of what is then free.
make(a) == UNION {alloc(b, 1) : b \in commit_transient(a)}

\* Variant: the view is marked, its memory is left to the next use of the buffer.
commit_MarksOnly(a, v) == {a}

\* A view in the remnant is finalized, with everything in front of it; one
\* that is in the arena otherwise has been committed.
commit(a, v) ==
  IF ~ v.lit /\ v.at \in a.free .. a.end - 1
  THEN LET n == v.at - a.free + v.len
       IN  {[b EXCEPT !.transient = IF n >= @ THEN 0 ELSE @ - n] : b \in alloc(a, n)}
  ELSE {a}

\* A text that was just rendered; where an empty one is does not matter.
Transient(at, n) == [at |-> IF n = 0 THEN 0 ELSE at, len |-> n, lit |-> FALSE]

Literal(v) == [v EXCEPT !.lit = TRUE]

\* Cells are written, while these views are wanted.
Writes(at, n, views) ==
  spoiled' = (spoiled \/ \E v \in views : Span(at, n) \cap Span(v.at, v.len) # {})

-----------------------------------------------------------------------------
NewArena == {[allocated |-> {}, free |-> b[1], end |-> b[2],
              transient |-> 0, thrown |-> FALSE] : b \in Blocks}

\* A new Context.
Init ==
  /\ arena \in NewArena /\ frames = <<>> /\ extent = 0
  /\ value = {} /\ subject = {} /\ pieces = {} /\ kept = {}
  /\ spoiled = FALSE /\ cause = "none"

Rendering == frames # <<>>
Idle      == ~ Rendering /\ ~ arena.thrown

(* Renderings.                                                             *)

\* Variant: each rendering takes the buffer.
render_transient_Each ==
  /\ ~ arena.thrown /\ value = {} /\ Len(frames) < MaxNesting
  /\ arena' \in transient_buffer(arena, 0)
  /\ frames' = Append(frames, 0) /\ extent' = 0
  /\ UNCHANGED <<features, spoiled, cause>>

\* The outermost makes the writer on all of the remnant, those in it go on
\* where it is.
render_transient ==
  /\ ~ arena.thrown /\ value = {} /\ Len(frames) < MaxNesting
  /\ IF Rendering
     THEN frames' = Append(frames, extent) /\ UNCHANGED <<arena, extent>>
     ELSE arena' \in transient_buffer(arena, 0) /\ frames' = <<0>> /\ extent' = 0
  /\ UNCHANGED <<features, spoiled, cause>>

\* One more cell; what does not fit is counted.
Write ==
  /\ Rendering /\ ~ arena.thrown /\ extent < MaxLen
  /\ extent' = extent + 1
  /\ IF extent < Room(arena) THEN Writes(arena.free + extent, 1, Wanted) ELSE UNCHANGED spoiled
  /\ UNCHANGED <<arena, frames, features, cause>>

\* What a rendering in another wrote is a part of the text of the other.
NestedDone ==
  /\ Len(frames) > 1 /\ ~ arena.thrown
  /\ frames' = SubSeq(frames, 1, Len(frames) - 1)
  /\ UNCHANGED <<arena, extent, features, spoiled, cause>>

\* The buffer the outermost has its text in at the end: it renders again, in
\* one that is large enough, if the text did not fit.
Rendered(a, n) ==
  IF n <= Room(a) THEN {a}
  ELSE UNION {transient_buffer(b, 0) : b \in transient_require(transient_discard(a), n)}

RenderDone ==
  /\ Len(frames) = 1 /\ ~ arena.thrown
  /\ \E a \in Rendered(arena, extent) :
       /\ arena' = transient_finalize(a, extent)
       /\ Writes(a.free, extent, Wanted)
       /\ value' = {Transient(a.free, extent)}
  /\ frames' = <<>> /\ extent' = 0
  /\ UNCHANGED <<subject, pieces, kept, cause>>

(* What is done with a feature.                                            *)

\* It was looked at, or given to Traffic Server, which copies it.
Use ==
  /\ Idle /\ value # {} /\ value' = {}
  /\ UNCHANGED <<arena, frames, extent, subject, pieces, kept, spoiled, cause>>

\* Context::commit, before it is kept: with, redirect, proxy-reply, a variable.
Keep ==
  /\ Idle /\ Cardinality(kept) < MaxKept
  /\ \E v \in value : arena' \in commit(arena, v) /\ kept' = kept \cup {Literal(v)}
  /\ value' = {}
  /\ UNCHANGED <<frames, extent, subject, pieces, spoiled, cause>>

\* FeatureGroup::extract: the cache has it as it is, for the transaction.
Cache ==
  /\ Idle /\ value # {} /\ Cardinality(kept) < MaxKept
  /\ kept' = kept \cup value
  /\ UNCHANGED <<arena, frames, extent, value, subject, pieces, spoiled, cause>>

\* An object or a span, of an extractor, a modifier or a directive.  Some of
\* these extractors can be in a text that is being rendered.
Make ==
  /\ ~ arena.thrown /\ (~ Rendering \/ "format" \in Clients)
  /\ arena' \in make(arena) /\ Writes(arena'.free - 1, 1, Wanted)
  /\ cause' = IF Rendering THEN "object" ELSE cause
  /\ UNCHANGED <<frames, extent, features>>

\* The Host field of a location: the buffer is used and discarded.
LocalUse ==
  /\ Idle
  /\ \E n \in 1 .. MaxLen : \E a \in transient_buffer(arena, n) :
       arena' = transient_discard(a) /\ Writes(a.free, n, Wanted)
  /\ UNCHANGED <<frames, extent, features, cause>>

(* Modifiers.                                                              *)

\* The text is the subject, the next that is extracted is an argument.
Modify ==
  /\ Idle /\ subject = {} /\ pieces = {} /\ value # {}
  /\ subject' = value /\ value' = {}
  /\ UNCHANGED <<arena, frames, extent, pieces, kept, spoiled, cause>>

\* Mod_concat: room for both, then they are rendered and committed.
Concat ==
  /\ Idle
  /\ \E s \in subject, v \in value :
       LET n == s.len + v.len IN
       /\ v.len > 0 /\ n <= MaxLen
       /\ \E a \in transient_require(arena, n) : \E b \in transient_buffer(a, 0) :
            /\ arena' \in commit(transient_finalize(b, n), Transient(b.free, n))
            /\ Writes(b.free, n, Wanted)
            /\ value' = {Literal(Transient(b.free, n))}
       /\ pieces' = pieces \cup {v}
  /\ UNCHANGED <<frames, extent, subject, kept, cause>>

\* Mod_rxp_replace: the text of a replacement is committed, then linked.
Piece ==
  /\ Idle /\ subject # {} /\ Cardinality(pieces) < MaxKept
  /\ \E v \in value : \E a \in commit(arena, v) :
       /\ arena' \in make(a) /\ Writes(arena'.free - 1, 1, Wanted)
       /\ pieces' = pieces \cup {Literal(v)}
  /\ value' = {}
  /\ UNCHANGED <<frames, extent, subject, kept, cause>>

\* ... and the pieces are assembled in a buffer that has room for them.
Assemble ==
  /\ Idle /\ subject # {} /\ value = {}
  /\ \E n \in 0 .. MaxLen : \E a \in transient_buffer(arena, n) :
       /\ arena' = transient_finalize(a, n) /\ Writes(a.free, n, Wanted)
       /\ value' = {Transient(a.free, n)}
  /\ UNCHANGED <<frames, extent, subject, pieces, kept, cause>>

\* Mod_url_encode and Mod_url_decode: up to three cells for one, or one.
UrlCode ==
  /\ Idle /\ subject = {} /\ pieces = {}
  /\ \E v \in value : \E size \in {v.len, 3 * v.len} : \E n \in 0 .. size :
     \E a \in transient_buffer(arena, size) :
       /\ n <= MaxLen
       /\ arena' \in commit_transient(transient_finalize(a, n))
       /\ Writes(a.free, n, Wanted)
       /\ value' = {Literal(Transient(a.free, n))} /\ subject' = {v}
  /\ UNCHANGED <<frames, extent, pieces, kept, cause>>

\* ... if Traffic Server refuses, the feature is nil and the buffer stays active.
UrlCodeRefused ==
  /\ "encode" \in Clients /\ Idle
  /\ \E v \in value : \E size \in {v.len, 3 * v.len} : arena' \in transient_buffer(arena, size)
  /\ value' = {} /\ cause' = "refused"
  /\ UNCHANGED <<frames, extent, subject, pieces, kept, spoiled>>

\* The modifier is done: what it worked on, if it had no other result, is its
\* result, and its arguments are not used any more.
Modified ==
  /\ Idle /\ subject # {}
  /\ subject' = {} /\ pieces' = {}
  /\ value' = IF value = {} /\ pieces = {} THEN subject ELSE value
  /\ UNCHANGED <<arena, frames, extent, kept, spoiled, cause>>

-----------------------------------------------------------------------------
\* Callbacks, variables, finalizers, match data, overflow and copies of direct
\* texts are allocated without a look at the buffer, whether it is empty or not.
AllocDirect ==
  /\ Idle /\ (arena.transient = 0 \/ ("direct" \in Clients /\ value \cup subject = {}))
  /\ arena' \in alloc(arena, 1) /\ Writes(arena'.free - 1, 1, Wanted)
  /\ UNCHANGED <<frames, extent, features, cause>>

\* TXN_CLOSE: the Context is deleted; the next transaction has another.
Close ==
  /\ Idle
  /\ arena' \in NewArena /\ frames' = <<>> /\ extent' = 0
  /\ value' = {} /\ subject' = {} /\ pieces' = {} /\ kept' = {}
  /\ cause' = "none" /\ UNCHANGED spoiled

Next ==
  \/ render_transient \/ Write \/ NestedDone \/ RenderDone
  \/ Use \/ Keep \/ Cache \/ Make \/ LocalUse
  \/ Modify \/ Concat \/ Piece \/ Assemble \/ UrlCode \/ UrlCodeRefused \/ Modified
  \/ AllocDirect \/ Close

Spec == Init /\ [][Next]_vars

-----------------------------------------------------------------------------
(* What the users of the memory rely on.                                   *)

\* A text that somebody still has is as it was rendered, whether it was
\* committed or waits in the buffer for that: nothing that is rendered or
\* allocated later is written on it (Context.h: render_transient, commit).
TextsIntact == ~ spoiled

\* What commit or a modifier calls literal is in memory that the arena does not
\* give away again (Context.cc: commit), and any other text is there too, or in
\* the buffer, where the next use will commit it.
TextsHeld ==
  ~ Rendering /\ arena.transient # ACTIVE =>
    \A v \in Wanted :
      Span(v.at, v.len) \subseteq
        arena.allocated \cup IF v.lit THEN {} ELSE Span(arena.free, arena.transient)

\* What waits in the buffer is in the remnant, once: a text that is committed is
\* taken out, so that the next use of the buffer does not commit it again, and
\* it was not cut off by the end of the block (Context.cc: commit,
\* Context.h: render_transient).
PendingFits == arena.transient # ACTIVE => arena.transient <= Room(arena)

\* The buffer is found in use for two causes only: Traffic Server refused to encode a
\* text, or an extractor asks for an object or a span while it is rendered, a field with
\* duplicates or a text block in an expression, which always throws.  Expressions in
\* expressions, modifiers in expressions and directives get the buffer one after the
\* other (Context.cc: commit_transient).
ThrownForCause ==
  /\ arena.thrown => cause # "none"
  /\ cause = "object" => arena.thrown

=============================================================================
