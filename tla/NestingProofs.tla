--------------------------- MODULE NestingProofs ----------------------------
(***************************************************************************)
(* Theorems about what a Context has one of, and what is nested in each    *)
(* other shares: the transient buffer of Transient, and of With the active *)
(* feature and the terminal flag.                                          *)
(* For any blocks and bounds, with all uses of the buffer but the          *)
(* allocations that do not look at it: the types, that no text that is     *)
(* wanted is written on, that literal texts are in memory that is          *)
(* allocated and all others there or in the buffer, and that only a        *)
(* refused encoding, or who allocates in a rendering, finds it in use.     *)
(* For any program, with any expressions and comparisons that leave the    *)
(* active feature as it is: that the one feature and the one flag give     *)
(* what the directives mean without a stack, and that a case that compares *)
(* a text leaves captured what it found and, as the remainder, the rest.   *)
(***************************************************************************)
EXTENDS Transient, With, WellFoundedInduction, SequenceTheorems, TLAPS

-----------------------------------------------------------------------------
(* The transient buffer.                                                   *)

\* An arena between two operations of Context: nothing is allocated of the
\* remnant, and what waits in the buffer is in it.
ArenaOK(a) ==
  /\ a \in [allocated : SUBSET Nat, free : Nat, end : Nat, transient : Nat, thrown : BOOLEAN]
  /\ a.free <= a.end /\ a.end < ACTIVE
  /\ a.free .. a.end - 1 \cap a.allocated = {}
  /\ a.transient = ACTIVE \/ a.transient <= a.end - a.free

Allocated(a, v) == Span(v.at, v.len) \subseteq a.allocated

\* A text is all allocated, or it is all that waits in the buffer.
Held(a, v) ==
  \/ Allocated(a, v)
  \/ ~ v.lit /\ a.transient # ACTIVE /\ v.at = a.free /\ v.len = a.transient

\* Views as Context makes them.
ViewOK(v) == v \in View /\ (v.len = 0 => v.at = 0)

LEMMA BlockFacts == ACTIVE \in Nat \ {0} /\ \A b \in Blocks : b[1] \in Nat /\ b[2] \in Nat /\ b[1] <= b[2] /\ b[2] < ACTIVE
BY TransientAssumption

-----------------------------------------------------------------------------
(* The operations.                                                         *)

\* A remnant with room, of which nothing is allocated; it is another one only
\* if the one in use is too small.
LEMMA RequireFacts ==
  ASSUME NEW a, NEW n \in Nat, ArenaOK(a), n <= Room(a) \/ a.transient \in {0, ACTIVE},
         NEW b \in require(a, n)
  PROVE  /\ ArenaOK(b) /\ n <= Room(b)
         /\ b.allocated = a.allocated /\ b.transient = a.transient /\ b.thrown = a.thrown
         /\ n <= Room(a) => b = a
<1>1. CASE n <= Room(a)
  BY <1>1 DEF require
<1>2. CASE ~ (n <= Room(a))
  <2>1. PICK r \in Remnants(a) : n <= r[2] - r[1] /\ b = [a EXCEPT !.free = r[1], !.end = r[2]]
    BY <1>2 DEF require
  <2>2. PICK c \in Blocks : \E f \in c[1] .. c[2] : r = <<f, c[2]>>
    BY <2>1 DEF Remnants
  <2>3. PICK f \in c[1] .. c[2] : r = <<f, c[2]>>
    BY <2>2
  <2>4. r[1] = f /\ r[2] = c[2] /\ f \in Nat /\ c[2] \in Nat /\ f <= c[2] /\ c[2] < ACTIVE
    BY <2>3, BlockFacts
  <2>5. r[1] .. r[2] - 1 \cap a.allocated = {}
    BY <2>1 DEF Remnants
  <2>6. /\ b.free = r[1] /\ b.end = r[2] /\ b.allocated = a.allocated
        /\ b.transient = a.transient /\ b.thrown = a.thrown
        /\ b \in [allocated : SUBSET Nat, free : Nat, end : Nat, transient : Nat, thrown : BOOLEAN]
    BY <2>1, <2>4 DEF ArenaOK
  <2> QED BY <1>2, <2>1, <2>4, <2>5, <2>6 DEF ArenaOK, Room
<1> QED BY <1>1, <1>2

\* What is allocated was not, and comes from the front of the remnant.
LEMMA AllocFacts ==
  ASSUME NEW a, NEW n \in Nat, ArenaOK(a), n <= Room(a) \/ a.transient \in {0, ACTIVE},
         NEW b \in alloc(a, n)
  PROVE  \E c \in require(a, n) :
           /\ ArenaOK(c) /\ n <= Room(c) /\ c.allocated = a.allocated
           /\ n <= Room(a) => c = a
           /\ b.allocated = a.allocated \cup Span(c.free, n) /\ b.free = c.free + n /\ b.end = c.end
           /\ b.transient = a.transient /\ b.thrown = a.thrown
           /\ Span(c.free, n) \cap a.allocated = {}
           /\ b.free .. b.end - 1 \cap b.allocated = {} /\ b.free <= b.end /\ b.end < ACTIVE
           /\ b \in [allocated : SUBSET Nat, free : Nat, end : Nat, transient : Nat, thrown : BOOLEAN]
<1>1. PICK c \in require(a, n) : b = [c EXCEPT !.allocated = @ \cup Span(c.free, n), !.free = @ + n]
  BY DEF alloc
<1>2. /\ ArenaOK(c) /\ n <= Room(c) /\ c.allocated = a.allocated
      /\ c.transient = a.transient /\ c.thrown = a.thrown
      /\ n <= Room(a) => c = a
  BY RequireFacts
<1>3. c \in [allocated : SUBSET Nat, free : Nat, end : Nat, transient : Nat, thrown : BOOLEAN]
  BY <1>2 DEF ArenaOK
<1>4. /\ b.allocated = c.allocated \cup Span(c.free, n) /\ b.free = c.free + n /\ b.end = c.end
      /\ b.transient = c.transient /\ b.thrown = c.thrown
  BY <1>1, <1>3
<1>5. Span(c.free, n) \subseteq c.free .. c.end - 1 /\ Span(c.free, n) \subseteq Nat
  BY <1>2, <1>3 DEF Span, Room
<1>6. Span(c.free, n) \cap c.allocated = {}
  BY <1>2, <1>5 DEF ArenaOK
<1>7. b.free .. b.end - 1 \cap b.allocated = {}
  <2>1. b.free .. b.end - 1 \subseteq c.free .. c.end - 1
    BY <1>3, <1>4
  <2>2. b.free .. b.end - 1 \cap Span(c.free, n) = {}
    BY <1>3, <1>4 DEF Span
  <2> QED BY <1>2, <1>4, <2>1, <2>2 DEF ArenaOK
<1>8. b.free <= b.end /\ b.end < ACTIVE
  BY <1>2, <1>3, <1>4 DEF ArenaOK, Room
<1>9. b \in [allocated : SUBSET Nat, free : Nat, end : Nat, transient : Nat, thrown : BOOLEAN]
  <2>1. c.allocated \cup Span(c.free, n) \in SUBSET Nat /\ c.free + n \in Nat
    BY <1>3, <1>5
  <2> QED BY <1>1, <1>3, <2>1
<1>10. n <= Room(a) => c = a
  BY <1>2
<1>11. Span(c.free, n) \cap a.allocated = {} /\ b.allocated = a.allocated \cup Span(c.free, n)
  BY <1>2, <1>4, <1>6
<1>12. b.transient = a.transient /\ b.thrown = a.thrown
  BY <1>2, <1>4
<1> QED BY <1>2, <1>4, <1>7, <1>8, <1>9, <1>10, <1>11, <1>12

\* Nothing waits in the buffer then, and every text that was held is allocated.
LEMMA CommitTransientFacts ==
  ASSUME NEW a, ArenaOK(a), NEW b \in commit_transient(a)
  PROVE  /\ ArenaOK(b) /\ a.allocated \subseteq b.allocated
         /\ b.transient = IF a.transient = ACTIVE THEN ACTIVE ELSE 0
         /\ b.thrown = (a.thrown \/ a.transient = ACTIVE)
         /\ a.transient \in {0, ACTIVE} => b.free = a.free /\ b.end = a.end /\ b.allocated = a.allocated
         /\ \A v : ViewOK(v) /\ Held(a, v) => Allocated(b, v)
<1>1. CASE a.transient = ACTIVE
  <2>1. b = [a EXCEPT !.thrown = TRUE]
    BY <1>1 DEF commit_transient
  <2>2. /\ b \in [allocated : SUBSET Nat, free : Nat, end : Nat, transient : Nat, thrown : BOOLEAN]
        /\ b.allocated = a.allocated /\ b.free = a.free /\ b.end = a.end
        /\ b.transient = a.transient /\ b.thrown = TRUE
    BY <2>1 DEF ArenaOK
  <2> QED BY <1>1, <2>2 DEF ArenaOK, Held, Allocated
<1>2. CASE a.transient # ACTIVE
  <2>1. a.transient \in Nat /\ a.transient <= Room(a) /\ a.thrown \in BOOLEAN
        /\ a.free \in Nat /\ a.end \in Nat /\ a.free <= a.end
    BY <1>2 DEF ArenaOK, Room
  <2>2. PICK d \in alloc(a, a.transient) : b = transient_discard(d)
    BY <1>2 DEF commit_transient
  <2>3. /\ d.allocated = a.allocated \cup Span(a.free, a.transient)
        /\ d.free = a.free + a.transient /\ d.end = a.end /\ d.thrown = a.thrown
        /\ d.free .. d.end - 1 \cap d.allocated = {} /\ d.free <= d.end /\ d.end < ACTIVE
        /\ d \in [allocated : SUBSET Nat, free : Nat, end : Nat, transient : Nat, thrown : BOOLEAN]
    BY <2>1, AllocFacts
  <2>4. /\ b.allocated = d.allocated /\ b.free = d.free /\ b.end = d.end
        /\ b.transient = 0 /\ b.thrown = d.thrown
        /\ b \in [allocated : SUBSET Nat, free : Nat, end : Nat, transient : Nat, thrown : BOOLEAN]
    BY <2>2, <2>3 DEF transient_discard
  <2>5. ArenaOK(b)
    BY <2>3, <2>4 DEF ArenaOK
  <2>6. ASSUME NEW v, ViewOK(v), Held(a, v) PROVE Allocated(b, v)
    BY <2>3, <2>4, <2>6 DEF Held, Allocated
  <2>7. a.transient = 0 => b.free = a.free /\ b.end = a.end /\ b.allocated = a.allocated
    <3>1. Span(a.free, 0) = {}
      BY <2>1 DEF Span
    <3> QED BY <2>1, <2>3, <2>4, <3>1
  <2> QED BY <1>2, <2>1, <2>3, <2>4, <2>5, <2>6, <2>7
<1> QED BY <1>1, <1>2

\* As before, with room for what is required.
LEMMA TransientRequireFacts ==
  ASSUME NEW a, NEW n \in Nat, ArenaOK(a), NEW b \in transient_require(a, n)
  PROVE  /\ ArenaOK(b) /\ n <= Room(b) /\ a.allocated \subseteq b.allocated
         /\ b.transient = IF a.transient = ACTIVE THEN ACTIVE ELSE 0
         /\ b.thrown = (a.thrown \/ a.transient = ACTIVE)
         /\ a.transient \in {0, ACTIVE} /\ n = 0 =>
              b.free = a.free /\ b.end = a.end /\ b.allocated = a.allocated
         /\ \A v : ViewOK(v) /\ Held(a, v) => Allocated(b, v)
<1>1. PICK c \in commit_transient(a) : b \in require(c, n)
  BY DEF transient_require
<1>2. /\ ArenaOK(c) /\ a.allocated \subseteq c.allocated
      /\ c.transient = IF a.transient = ACTIVE THEN ACTIVE ELSE 0
      /\ c.thrown = (a.thrown \/ a.transient = ACTIVE)
      /\ a.transient \in {0, ACTIVE} => c.free = a.free /\ c.end = a.end /\ c.allocated = a.allocated
      /\ \A v : ViewOK(v) /\ Held(a, v) => Allocated(c, v)
  BY CommitTransientFacts
<1>3. /\ ArenaOK(b) /\ n <= Room(b)
      /\ b.allocated = c.allocated /\ b.transient = c.transient /\ b.thrown = c.thrown
      /\ n <= Room(c) => b = c
  BY <1>1, <1>2, RequireFacts
<1>4. n = 0 => n <= Room(c)
  BY <1>2 DEF ArenaOK, Room
<1> QED BY <1>2, <1>3, <1>4 DEF Allocated

\* The buffer is all of a remnant with room, in which nothing is wanted.
LEMMA BufferFacts ==
  ASSUME NEW a, NEW n \in Nat, ArenaOK(a), NEW b \in transient_buffer(a, n)
  PROVE  /\ ArenaOK(b) /\ n <= Room(b) /\ b.transient = ACTIVE
         /\ b.thrown = (a.thrown \/ a.transient = ACTIVE)
         /\ a.transient \in {0, ACTIVE} /\ n = 0 =>
              b.free = a.free /\ b.end = a.end /\ b.allocated = a.allocated
         /\ \A v : ViewOK(v) /\ Held(a, v) => Allocated(b, v)
<1>1. PICK c \in transient_require(a, n) : b = [c EXCEPT !.transient = ACTIVE]
  BY DEF transient_buffer
<1>2. /\ ArenaOK(c) /\ n <= Room(c)
      /\ c.thrown = (a.thrown \/ a.transient = ACTIVE)
      /\ a.transient \in {0, ACTIVE} /\ n = 0 =>
           c.free = a.free /\ c.end = a.end /\ c.allocated = a.allocated
      /\ \A v : ViewOK(v) /\ Held(a, v) => Allocated(c, v)
  BY TransientRequireFacts
<1>3. /\ b.free = c.free /\ b.end = c.end /\ b.allocated = c.allocated
      /\ b.transient = ACTIVE /\ b.thrown = c.thrown
      /\ b \in [allocated : SUBSET Nat, free : Nat, end : Nat, transient : Nat, thrown : BOOLEAN]
  BY <1>1, <1>2, BlockFacts DEF ArenaOK
<1> QED BY <1>2, <1>3 DEF ArenaOK, Room, Allocated

\* The cell of the object is none of a text that was held, nor are those of
\* the objects before.
LEMMA MakeFacts ==
  ASSUME NEW a, ArenaOK(a), NEW b \in make(a)
  PROVE  /\ ArenaOK(b)
         /\ b.transient = IF a.transient = ACTIVE THEN ACTIVE ELSE 0
         /\ b.thrown = (a.thrown \/ a.transient = ACTIVE)
         /\ \A v : ViewOK(v) /\ Held(a, v) =>
              Allocated(b, v) /\ Span(b.free - 1, 1) \cap Span(v.at, v.len) = {}
<1>1. PICK c \in commit_transient(a) : b \in alloc(c, 1)
  BY DEF make
<1>2. /\ ArenaOK(c) /\ c.transient = IF a.transient = ACTIVE THEN ACTIVE ELSE 0
      /\ c.thrown = (a.thrown \/ a.transient = ACTIVE)
      /\ \A v : ViewOK(v) /\ Held(a, v) => Allocated(c, v)
  BY CommitTransientFacts
<1>3. c.transient \in {0, ACTIVE}
  BY <1>2
<1>4. PICK d \in require(c, 1) :
        /\ ArenaOK(d) /\ b.allocated = c.allocated \cup Span(d.free, 1) /\ b.free = d.free + 1
        /\ b.transient = c.transient /\ b.thrown = c.thrown
        /\ Span(d.free, 1) \cap c.allocated = {}
        /\ b.free .. b.end - 1 \cap b.allocated = {} /\ b.free <= b.end /\ b.end < ACTIVE
        /\ b \in [allocated : SUBSET Nat, free : Nat, end : Nat, transient : Nat, thrown : BOOLEAN]
  BY <1>1, <1>2, <1>3, AllocFacts
<1>5. b.free - 1 = d.free
  BY <1>4 DEF ArenaOK
<1>6. ArenaOK(b)
  BY <1>3, <1>4 DEF ArenaOK
<1>7. ASSUME NEW v, ViewOK(v), Held(a, v)
      PROVE  Allocated(b, v) /\ Span(b.free - 1, 1) \cap Span(v.at, v.len) = {}
  BY <1>2, <1>4, <1>5, <1>7 DEF Allocated
<1> QED BY <1>2, <1>4, <1>6, <1>7

\* The committed text is allocated, the others are held as before.
LEMMA CommitFacts ==
  ASSUME NEW a, ArenaOK(a), NEW w, ViewOK(w), Held(a, w), NEW b \in commit(a, w)
  PROVE  /\ ArenaOK(b) /\ b.thrown = a.thrown
         /\ b.transient = ACTIVE <=> a.transient = ACTIVE
         /\ Allocated(b, w)
         /\ \A v : ViewOK(v) /\ Held(a, v) => Held(b, v)
<1>1. /\ a.free \in Nat /\ a.end \in Nat /\ a.transient \in Nat /\ ACTIVE \in Nat \ {0}
      /\ w.at \in Nat /\ w.len \in Nat
  BY BlockFacts DEF ArenaOK, ViewOK, View
<1>2. CASE ~ (~ w.lit /\ w.at \in a.free .. a.end - 1)
  <2>1. b = a
    BY <1>2 DEF commit
  <2>2. Allocated(a, w)
    <3>1. CASE w.len = 0
      BY <1>1, <3>1 DEF Allocated, Span
    <3>2. CASE w.len # 0 /\ ~ Allocated(a, w)
      <4>1. ~ w.lit /\ w.at = a.free /\ w.len = a.transient /\ a.transient # ACTIVE
        BY <3>2 DEF Held
      <4>2. a.transient <= a.end - a.free
        BY <4>1 DEF ArenaOK
      <4> QED BY <1>1, <1>2, <3>2, <4>1, <4>2
    <3> QED BY <3>1, <3>2
  <2> QED BY <2>1, <2>2
<1>3. CASE ~ w.lit /\ w.at \in a.free .. a.end - 1
  <2> DEFINE n == w.at - a.free + w.len
  <2>1. w.len = 0 => n = 0
    BY <1>1, <1>3 DEF ViewOK
  <2>2. w.len # 0 => a.transient # ACTIVE /\ w.at = a.free /\ n = a.transient
    <3>1. ASSUME w.len # 0, Allocated(a, w) PROVE FALSE
      <4>1. w.at \in Span(w.at, w.len)
        BY <1>1, <3>1 DEF Span
      <4> QED BY <1>3, <3>1, <4>1 DEF Allocated, ArenaOK
    <3> QED BY <1>1, <3>1 DEF Held
  <2>3. n \in Nat /\ n <= Room(a)
    BY <1>1, <1>3, <2>1, <2>2 DEF ArenaOK, Room
  <2>4. PICK d \in alloc(a, n) : b = [d EXCEPT !.transient = IF n >= @ THEN 0 ELSE @ - n]
    BY <1>3 DEF commit
  <2>5. /\ d.allocated = a.allocated \cup Span(a.free, n)
        /\ d.free = a.free + n /\ d.end = a.end /\ d.transient = a.transient /\ d.thrown = a.thrown
        /\ d.free .. d.end - 1 \cap d.allocated = {} /\ d.free <= d.end /\ d.end < ACTIVE
        /\ d \in [allocated : SUBSET Nat, free : Nat, end : Nat, transient : Nat, thrown : BOOLEAN]
    BY <2>3, AllocFacts
  <2>6. /\ b.allocated = d.allocated /\ b.free = d.free /\ b.end = d.end /\ b.thrown = d.thrown
        /\ b.transient = IF n >= a.transient THEN 0 ELSE a.transient - n
    BY <2>4, <2>5
  <2>7. b \in [allocated : SUBSET Nat, free : Nat, end : Nat, transient : Nat, thrown : BOOLEAN]
    <3>1. (IF n >= d.transient THEN 0 ELSE d.transient - n) \in Nat
      BY <1>1, <2>3, <2>5
    <3> QED BY <2>4, <2>5, <3>1
  <2>8. CASE w.len = 0
    <3>1. n = 0 /\ Span(a.free, n) = {}
      BY <1>1, <2>1, <2>8 DEF Span
    <3>2. /\ b.allocated = a.allocated /\ b.free = a.free /\ b.end = a.end
          /\ b.transient = a.transient
      BY <1>1, <2>5, <2>6, <3>1
    <3>3. Allocated(b, w)
      BY <1>1, <2>8 DEF Allocated, Span
    <3> QED BY <2>5, <2>6, <2>7, <3>2, <3>3 DEF ArenaOK, Held, Allocated
  <2>9. CASE w.len # 0
    <3>1. b.transient = 0 /\ a.transient # ACTIVE /\ w.at = a.free /\ w.len = n /\ n = a.transient
      BY <1>1, <2>2, <2>6, <2>9
    <3>2. b.allocated = a.allocated \cup Span(a.free, a.transient)
      BY <2>5, <2>6, <3>1
    <3>3. ASSUME NEW v, ViewOK(v), Held(a, v) PROVE Allocated(b, v)
      BY <3>2, <3>3 DEF Held, Allocated
    <3>4. ArenaOK(b)
      BY <2>5, <2>6, <2>7, <3>1 DEF ArenaOK
    <3>5. ACTIVE # 0
      BY <1>1
    <3> QED BY <2>5, <2>6, <3>1, <3>3, <3>4, <3>5 DEF Held
  <2> QED BY <2>8, <2>9
<1> QED BY <1>2, <1>3

\* What is in the remnant is none of a text that is allocated.
LEMMA RemnantFacts ==
  ASSUME NEW a, ArenaOK(a), NEW v, Allocated(a, v), NEW n \in Nat, n <= Room(a)
  PROVE  Span(a.free, n) \cap Span(v.at, v.len) = {}
<1>1. Span(a.free, n) \subseteq a.free .. a.end - 1
  BY DEF Span, Room, ArenaOK
<1> QED BY <1>1 DEF Allocated, ArenaOK

\* The text that was written is what waits in the buffer then.
LEMMA FinalizeFacts ==
  ASSUME NEW a, ArenaOK(a), NEW n \in Nat, n <= Room(a)
  PROVE  LET c == transient_finalize(a, n)  t == Transient(a.free, n) IN
         /\ ArenaOK(c) /\ c.transient # ACTIVE /\ c.thrown = a.thrown
         /\ ViewOK(t) /\ Held(c, t)
         /\ \A v : Allocated(a, v) => Held(c, v)
<1> DEFINE c == transient_finalize(a, n)
           t == Transient(a.free, n)
<1>1. /\ c.allocated = a.allocated /\ c.free = a.free /\ c.end = a.end
      /\ c.transient = n /\ c.thrown = a.thrown
      /\ c \in [allocated : SUBSET Nat, free : Nat, end : Nat, transient : Nat, thrown : BOOLEAN]
  BY DEF transient_finalize, ArenaOK
<1>2. n # ACTIVE /\ n <= a.end - a.free
  BY BlockFacts DEF ArenaOK, Room
<1>3. ArenaOK(c)
  BY <1>1, <1>2 DEF ArenaOK
<1>4. /\ ViewOK(t) /\ t.lit = FALSE /\ t.len = n
      /\ t.at = IF n = 0 THEN 0 ELSE a.free
  BY DEF Transient, ViewOK, View, ArenaOK
<1>5. CASE n = 0
  BY <1>1, <1>2, <1>3, <1>4, <1>5 DEF Held, Allocated, Span
<1>6. CASE n # 0
  BY <1>1, <1>2, <1>3, <1>4, <1>6 DEF Held, Allocated
<1> QED BY <1>5, <1>6

\* A view that is marked is the same text.
LEMMA LiteralFacts ==
  ASSUME NEW v, ViewOK(v)
  PROVE  /\ ViewOK(Literal(v)) /\ Literal(v).at = v.at /\ Literal(v).len = v.len
         /\ \A a : Allocated(a, v) => Allocated(a, Literal(v)) /\ Held(a, Literal(v))
<1>1. ViewOK(Literal(v)) /\ Literal(v).at = v.at /\ Literal(v).len = v.len
  BY DEF Literal, ViewOK, View
<1> QED BY <1>1 DEF Allocated, Held

\* Rendered again or not, the buffer has room for all of the text, and the
\* texts from before are not in it.
LEMMA RenderedFacts ==
  ASSUME NEW a, ArenaOK(a), a.transient = ACTIVE, NEW n \in Nat, NEW b \in Rendered(a, n)
  PROVE  /\ ArenaOK(b) /\ n <= Room(b) /\ b.thrown = a.thrown
         /\ \A v : ViewOK(v) /\ Held(a, v) => Allocated(b, v)
<1>1. \A v : Held(a, v) => Allocated(a, v)
  BY DEF Held
<1>2. CASE n <= Room(a)
  BY <1>1, <1>2 DEF Rendered
<1>3. CASE ~ (n <= Room(a))
  <2> DEFINE d == transient_discard(a)
  <2>1. PICK c \in transient_require(d, n) : b \in transient_buffer(c, 0)
    BY <1>3 DEF Rendered
  <2>2. /\ d.allocated = a.allocated /\ d.free = a.free /\ d.end = a.end
        /\ d.transient = 0 /\ d.thrown = a.thrown /\ 0 # ACTIVE
        /\ d \in [allocated : SUBSET Nat, free : Nat, end : Nat, transient : Nat, thrown : BOOLEAN]
    BY BlockFacts DEF transient_discard, ArenaOK
  <2>3. ArenaOK(d)
    BY <2>2 DEF ArenaOK
  <2>4. \A v : Allocated(a, v) => Held(d, v)
    BY <2>2 DEF Held, Allocated
  <2> HIDE DEF d
  <2>5. /\ ArenaOK(c) /\ n <= Room(c) /\ c.transient = 0 /\ c.thrown = (d.thrown \/ d.transient = ACTIVE)
        /\ \A v : ViewOK(v) /\ Held(d, v) => Allocated(c, v)
    BY <2>1, <2>2, <2>3, TransientRequireFacts
  <2>6. c.thrown = a.thrown
    BY <2>2, <2>3, <2>5 DEF ArenaOK
  <2>7. /\ ArenaOK(b) /\ b.thrown = (c.thrown \/ c.transient = ACTIVE)
        /\ b.free = c.free /\ b.end = c.end
        /\ \A v : ViewOK(v) /\ Held(c, v) => Allocated(b, v)
    BY <2>1, <2>5, BufferFacts
  <2>8. b.thrown = c.thrown
    BY <2>2, <2>5, <2>7 DEF ArenaOK
  <2>9. n <= Room(b)
    BY <2>5, <2>7 DEF Room
  <2>10. \A v : Allocated(c, v) => Held(c, v)
    BY DEF Held
  <2> QED BY <1>1, <2>4, <2>5, <2>6, <2>7, <2>8, <2>9, <2>10
<1> QED BY <1>2, <1>3

\* A new Context has nothing in its memory.
LEMMA NewArenaFacts ==
  ASSUME NEW a \in NewArena
  PROVE  ArenaOK(a) /\ a.transient = 0 /\ a.transient # ACTIVE /\ a.thrown = FALSE
<1>1. PICK b \in Blocks : a = [allocated |-> {}, free |-> b[1], end |-> b[2],
                               transient |-> 0, thrown |-> FALSE]
  BY DEF NewArena
<1>2. b[1] \in Nat /\ b[2] \in Nat /\ b[1] <= b[2] /\ b[2] < ACTIVE /\ ACTIVE # 0
  BY BlockFacts
<1> QED BY <1>1, <1>2 DEF ArenaOK

-----------------------------------------------------------------------------
(* The invariant: between two operations, every text that is wanted is     *)
(* held, and while a text is rendered the buffer is active, so that all    *)
(* the others are allocated and the writer cannot reach them.              *)

IInv ==
  /\ ArenaOK(arena)
  /\ frames \in Seq(Nat) /\ extent \in Nat /\ cause \in {"none", "refused", "object"}
  /\ spoiled = FALSE
  /\ \A v \in Wanted : ViewOK(v) /\ Held(arena, v)
  /\ Rendering => arena.transient = ACTIVE

LEMMA InitIInv == Init => IInv
<1> SUFFICES ASSUME Init PROVE IInv
  OBVIOUS
<1>1. ArenaOK(arena)
  BY NewArenaFacts DEF Init
<1>2. Wanted = {} /\ ~ Rendering /\ frames \in Seq(Nat)
  BY DEF Init, Wanted, Rendering
<1> QED BY <1>1, <1>2 DEF Init, IInv

\* Renderings.
LEMMA RenderingIInv ==
  ASSUME IInv, render_transient \/ Write \/ NestedDone \/ RenderDone
  PROVE  IInv'
<1> USE DEF IInv
<1>1. CASE render_transient
  <2>1. Wanted' = Wanted /\ spoiled' = FALSE /\ cause' \in {"none", "refused", "object"}
    BY <1>1 DEF render_transient, features, Wanted
  <2>2. CASE Rendering
    <3>1. frames' = Append(frames, extent) /\ arena' = arena /\ extent' = extent
      BY <1>1, <2>2 DEF render_transient
    <3>2. frames' \in Seq(Nat)
      BY <3>1
    <3> QED BY <2>1, <2>2, <3>1, <3>2 DEF Rendering
  <2>3. CASE ~ Rendering
    <3>1. arena' \in transient_buffer(arena, 0) /\ frames' = <<0>> /\ extent' = 0
      BY <1>1, <2>3 DEF render_transient
    <3>2. /\ ArenaOK(arena') /\ arena'.transient = ACTIVE
          /\ \A v : ViewOK(v) /\ Held(arena, v) => Allocated(arena', v)
      BY <3>1, BufferFacts
    <3>3. frames' \in Seq(Nat) /\ extent' \in Nat
      BY <3>1
    <3> QED BY <2>1, <3>2, <3>3 DEF Held
  <2> QED BY <2>2, <2>3
<1>2. CASE Write
  <2>1. /\ Wanted' = Wanted /\ frames' = frames /\ arena' = arena /\ extent' = extent + 1
        /\ cause' = cause /\ Rendering /\ arena.transient = ACTIVE
    BY <1>2 DEF Write, features, Wanted
  <2>2. CASE extent < Room(arena)
    <3>1. Writes(arena.free + extent, 1, Wanted)
      BY <1>2, <2>2 DEF Write
    <3>2. ASSUME NEW v \in Wanted PROVE Span(arena.free + extent, 1) \cap Span(v.at, v.len) = {}
      <4>1. Allocated(arena, v)
        BY <2>1, <3>2 DEF Held
      <4>2. extent + 1 \in Nat /\ extent + 1 <= Room(arena)
        BY <2>2 DEF ArenaOK, Room
      <4>3. Span(arena.free, extent + 1) \cap Span(v.at, v.len) = {}
        BY <4>1, <4>2, RemnantFacts
      <4>4. Span(arena.free + extent, 1) \subseteq Span(arena.free, extent + 1)
        BY DEF Span, ArenaOK
      <4> QED BY <4>3, <4>4
    <3>3. spoiled' = FALSE
      BY <3>1, <3>2 DEF Writes
    <3> QED BY <2>1, <3>3 DEF Rendering
  <2>3. CASE ~ (extent < Room(arena))
    <3>1. spoiled' = FALSE
      BY <1>2, <2>3 DEF Write
    <3> QED BY <2>1, <3>1 DEF Rendering
  <2> QED BY <2>2, <2>3
<1>3. CASE NestedDone
  <2>1. frames' \in Seq(Nat) /\ Rendering
    <3>1. frames' = SubSeq(frames, 1, Len(frames) - 1) /\ Len(frames) > 1
      BY <1>3 DEF NestedDone
    <3> QED BY <3>1 DEF Rendering
  <2>2. /\ Wanted' = Wanted /\ arena' = arena /\ extent' = extent
        /\ spoiled' = spoiled /\ cause' = cause
    BY <1>3 DEF NestedDone, features, Wanted
  <2> QED BY <2>1, <2>2
<1>4. CASE RenderDone
  <2>1. /\ frames' = <<>> /\ extent' = 0 /\ cause' = cause
        /\ subject' = subject /\ pieces' = pieces /\ kept' = kept /\ Rendering
    <3>1. Len(frames) = 1 /\ frames \in Seq(Nat)
      BY <1>4 DEF RenderDone
    <3>2. frames # <<>>
      BY <3>1
    <3> QED BY <1>4, <3>2 DEF RenderDone, Rendering
  <2>2. PICK a \in Rendered(arena, extent) :
          /\ arena' = transient_finalize(a, extent)
          /\ Writes(a.free, extent, Wanted)
          /\ value' = {Transient(a.free, extent)}
    BY <1>4 DEF RenderDone
  <2>3. /\ ArenaOK(a) /\ extent <= Room(a)
        /\ \A v : ViewOK(v) /\ Held(arena, v) => Allocated(a, v)
    BY <2>1, RenderedFacts
  <2>4. /\ ArenaOK(arena') /\ ViewOK(Transient(a.free, extent))
        /\ Held(arena', Transient(a.free, extent))
        /\ \A v : Allocated(a, v) => Held(arena', v)
    BY <2>2, <2>3, FinalizeFacts
  <2>5. spoiled' = FALSE
    BY <2>2, <2>3, RemnantFacts DEF Writes
  <2>6. Wanted' \subseteq Wanted \cup {Transient(a.free, extent)}
    BY <2>1, <2>2 DEF Wanted
  <2>7. ~ Rendering' /\ frames' \in Seq(Nat)
    BY <2>1 DEF Rendering
  <2> QED BY <2>1, <2>3, <2>4, <2>5, <2>6, <2>7
<1> QED BY <1>1, <1>2, <1>3, <1>4

\* What changes nothing in the memory, and the allocations.
LEMMA UsesIInv ==
  ASSUME IInv, Use \/ Cache \/ Modify \/ Modified \/ Keep \/ Make \/ LocalUse \/ Close
  PROVE  IInv'
<1> USE DEF IInv
<1>1. CASE Use \/ Cache \/ Modify \/ Modified
  <2>1. /\ arena' = arena /\ frames' = frames /\ extent' = extent
        /\ spoiled' = spoiled /\ cause' = cause
    BY <1>1 DEF Use, Cache, Modify, Modified
  <2>2. Wanted' \subseteq Wanted
    BY <1>1 DEF Use, Cache, Modify, Modified, Wanted
  <2> QED BY <2>1, <2>2 DEF Rendering
<1>2. CASE Keep
  <2>1. PICK v \in value : arena' \in commit(arena, v) /\ kept' = kept \cup {Literal(v)}
    BY <1>2 DEF Keep
  <2>2. /\ frames' = frames /\ extent' = extent /\ value' = {} /\ subject' = subject
        /\ pieces' = pieces /\ spoiled' = spoiled /\ cause' = cause
    BY <1>2 DEF Keep
  <2>3. ViewOK(v) /\ Held(arena, v)
    BY <2>1 DEF Wanted
  <2>4. /\ ArenaOK(arena')
        /\ arena'.transient = ACTIVE <=> arena.transient = ACTIVE
        /\ Allocated(arena', v)
        /\ \A w : ViewOK(w) /\ Held(arena, w) => Held(arena', w)
    BY <2>1, <2>3, CommitFacts
  <2>5. ViewOK(Literal(v)) /\ Held(arena', Literal(v))
    BY <2>3, <2>4, LiteralFacts
  <2>6. Wanted' \subseteq Wanted \cup {Literal(v)}
    BY <2>1, <2>2 DEF Wanted
  <2> QED BY <2>2, <2>4, <2>5, <2>6 DEF Rendering
<1>3. CASE Make
  <2>1. arena' \in make(arena) /\ Writes(arena'.free - 1, 1, Wanted)
    BY <1>3 DEF Make
  <2>2. /\ Wanted' = Wanted /\ frames' = frames /\ extent' = extent
        /\ cause' \in {"none", "refused", "object"}
    BY <1>3 DEF Make, features, Wanted
  <2>3. /\ ArenaOK(arena')
        /\ arena'.transient = IF arena.transient = ACTIVE THEN ACTIVE ELSE 0
        /\ \A v : ViewOK(v) /\ Held(arena, v) =>
             Allocated(arena', v) /\ Span(arena'.free - 1, 1) \cap Span(v.at, v.len) = {}
    BY <2>1, MakeFacts
  <2>4. spoiled' = FALSE
    BY <2>1, <2>3 DEF Writes
  <2> QED BY <2>2, <2>3, <2>4 DEF Rendering, Held
<1>4. CASE LocalUse
  <2>1. PICK n \in 1 .. MaxLen : \E a \in transient_buffer(arena, n) :
          arena' = transient_discard(a) /\ Writes(a.free, n, Wanted)
    BY <1>4 DEF LocalUse
  <2>2. PICK a \in transient_buffer(arena, n) :
          arena' = transient_discard(a) /\ Writes(a.free, n, Wanted)
    BY <2>1
  <2>3. n \in Nat
    BY TransientAssumption
  <2>4. /\ ArenaOK(a) /\ n <= Room(a)
        /\ \A v : ViewOK(v) /\ Held(arena, v) => Allocated(a, v)
    BY <2>2, <2>3, BufferFacts
  <2>5. spoiled' = FALSE
    BY <2>2, <2>3, <2>4, RemnantFacts DEF Writes
  <2>6. /\ arena'.allocated = a.allocated /\ arena'.free = a.free /\ arena'.end = a.end
        /\ arena'.transient = 0
        /\ arena' \in [allocated : SUBSET Nat, free : Nat, end : Nat, transient : Nat, thrown : BOOLEAN]
    BY <2>2, <2>4 DEF transient_discard, ArenaOK
  <2>7. ArenaOK(arena')
    BY <2>4, <2>6 DEF ArenaOK
  <2>8. /\ Wanted' = Wanted /\ frames' = frames /\ extent' = extent /\ cause' = cause
        /\ ~ Rendering
    BY <1>4 DEF LocalUse, Idle, features, Wanted
  <2> QED BY <2>4, <2>5, <2>6, <2>7, <2>8 DEF Rendering, Held, Allocated
<1>5. CASE Close
  <2>1. arena' \in NewArena /\ frames' = <<>> /\ extent' = 0 /\ cause' = "none" /\ spoiled' = spoiled
    BY <1>5 DEF Close
  <2>2. Wanted' = {}
    BY <1>5 DEF Close, Wanted
  <2>3. ArenaOK(arena')
    BY <2>1, NewArenaFacts
  <2>4. ~ Rendering' /\ frames' \in Seq(Nat) /\ extent' \in Nat
    BY <2>1 DEF Rendering
  <2> QED BY <2>1, <2>2, <2>3, <2>4
<1> QED BY <1>1, <1>2, <1>3, <1>4, <1>5

\* Modifiers.
LEMMA ModifiersIInv ==
  ASSUME IInv, Concat \/ Piece \/ Assemble \/ UrlCode \/ UrlCodeRefused
  PROVE  IInv'
<1> USE DEF IInv
<1>1. CASE Concat
  <2>1. PICK s \in subject, v \in value :
          LET n == s.len + v.len IN
          \E a \in transient_require(arena, n) : \E b \in transient_buffer(a, 0) :
            /\ arena' \in commit(transient_finalize(b, n), Transient(b.free, n))
            /\ Writes(b.free, n, Wanted)
            /\ value' = {Literal(Transient(b.free, n))} /\ pieces' = pieces \cup {v}
    BY <1>1 DEF Concat
  <2> DEFINE n == s.len + v.len
  <2>2. s \in Wanted /\ v \in Wanted /\ n \in Nat
    BY DEF Wanted, ViewOK, View
  <2>3. PICK a \in transient_require(arena, n) : \E b \in transient_buffer(a, 0) :
            /\ arena' \in commit(transient_finalize(b, n), Transient(b.free, n))
            /\ Writes(b.free, n, Wanted)
            /\ value' = {Literal(Transient(b.free, n))} /\ pieces' = pieces \cup {v}
    BY <2>1
  <2>4. PICK b \in transient_buffer(a, 0) :
            /\ arena' \in commit(transient_finalize(b, n), Transient(b.free, n))
            /\ Writes(b.free, n, Wanted)
            /\ value' = {Literal(Transient(b.free, n))} /\ pieces' = pieces \cup {v}
    BY <2>3
  <2> HIDE DEF n
  <2>5. /\ ArenaOK(a) /\ n <= Room(a) /\ a.transient \in {0, ACTIVE}
        /\ \A w : ViewOK(w) /\ Held(arena, w) => Allocated(a, w)
    BY <2>2, <2>3, TransientRequireFacts
  <2>6. /\ ArenaOK(b) /\ b.free = a.free /\ b.end = a.end
        /\ \A w : ViewOK(w) /\ Held(a, w) => Allocated(b, w)
    BY <2>4, <2>5, BufferFacts
  <2>7. n <= Room(b) /\ \A w \in Wanted : ViewOK(w) /\ Allocated(b, w)
    BY <2>5, <2>6 DEF Room, Held
  <2> DEFINE c == transient_finalize(b, n)
             t == Transient(b.free, n)
  <2>8. /\ ArenaOK(c) /\ ViewOK(t) /\ Held(c, t)
        /\ \A w : Allocated(b, w) => Held(c, w)
    BY <2>2, <2>6, <2>7, FinalizeFacts
  <2>9. arena' \in commit(c, t) /\ value' = {Literal(t)}
    BY <2>4
  <2> HIDE DEF c, t
  <2>10. /\ ArenaOK(arena') /\ Allocated(arena', t)
         /\ \A w : ViewOK(w) /\ Held(c, w) => Held(arena', w)
    BY <2>8, <2>9, CommitFacts
  <2>11. ViewOK(Literal(t)) /\ Held(arena', Literal(t))
    BY <2>8, <2>10, LiteralFacts
  <2>12. spoiled' = FALSE
    BY <2>2, <2>4, <2>6, <2>7, RemnantFacts DEF Writes
  <2>13. Wanted' \subseteq Wanted \cup {Literal(t)}
    BY <1>1, <2>2, <2>4, <2>9 DEF Concat, Wanted
  <2>14. frames' = frames /\ extent' = extent /\ cause' = cause /\ ~ Rendering
    BY <1>1 DEF Concat, Idle
  <2> QED BY <2>7, <2>8, <2>10, <2>11, <2>12, <2>13, <2>14 DEF Rendering
<1>2. CASE Piece
  <2>1. PICK v \in value : \E a \in commit(arena, v) :
          /\ arena' \in make(a) /\ Writes(arena'.free - 1, 1, Wanted)
          /\ pieces' = pieces \cup {Literal(v)}
    BY <1>2 DEF Piece
  <2>2. PICK a \in commit(arena, v) :
          /\ arena' \in make(a) /\ Writes(arena'.free - 1, 1, Wanted)
          /\ pieces' = pieces \cup {Literal(v)}
    BY <2>1
  <2>3. ViewOK(v) /\ Held(arena, v)
    BY DEF Wanted
  <2>4. /\ ArenaOK(a) /\ Allocated(a, v)
        /\ \A w : ViewOK(w) /\ Held(arena, w) => Held(a, w)
    BY <2>2, <2>3, CommitFacts
  <2>5. /\ ArenaOK(arena')
        /\ \A w : ViewOK(w) /\ Held(a, w) =>
             Allocated(arena', w) /\ Span(arena'.free - 1, 1) \cap Span(w.at, w.len) = {}
    BY <2>2, <2>4, MakeFacts
  <2>6. spoiled' = FALSE
    BY <2>2, <2>4, <2>5 DEF Writes
  <2>7. ViewOK(Literal(v)) /\ Held(arena', Literal(v))
    BY <2>3, <2>4, <2>5, LiteralFacts DEF Held
  <2>8. /\ frames' = frames /\ extent' = extent /\ cause' = cause /\ ~ Rendering
        /\ Wanted' \subseteq Wanted \cup {Literal(v)}
    BY <1>2, <2>2 DEF Piece, Idle, Wanted
  <2> QED BY <2>4, <2>5, <2>6, <2>7, <2>8 DEF Rendering, Held
<1>3. CASE Assemble
  <2>1. PICK n \in 0 .. MaxLen : \E a \in transient_buffer(arena, n) :
          /\ arena' = transient_finalize(a, n) /\ Writes(a.free, n, Wanted)
          /\ value' = {Transient(a.free, n)}
    BY <1>3 DEF Assemble
  <2>2. PICK a \in transient_buffer(arena, n) :
          /\ arena' = transient_finalize(a, n) /\ Writes(a.free, n, Wanted)
          /\ value' = {Transient(a.free, n)}
    BY <2>1
  <2>3. n \in Nat
    BY TransientAssumption
  <2>4. /\ ArenaOK(a) /\ n <= Room(a)
        /\ \A v : ViewOK(v) /\ Held(arena, v) => Allocated(a, v)
    BY <2>2, <2>3, BufferFacts
  <2>5. /\ ArenaOK(arena') /\ ViewOK(Transient(a.free, n)) /\ Held(arena', Transient(a.free, n))
        /\ \A v : Allocated(a, v) => Held(arena', v)
    BY <2>2, <2>3, <2>4, FinalizeFacts
  <2>6. spoiled' = FALSE
    BY <2>2, <2>3, <2>4, RemnantFacts DEF Writes
  <2>7. /\ frames' = frames /\ extent' = extent /\ cause' = cause /\ ~ Rendering
        /\ Wanted' \subseteq Wanted \cup {Transient(a.free, n)}
    BY <1>3, <2>2 DEF Assemble, Idle, Wanted
  <2> QED BY <2>4, <2>5, <2>6, <2>7 DEF Rendering
<1>4. CASE UrlCode
  <2>1. PICK v \in value : \E size \in {v.len, 3 * v.len} : \E n \in 0 .. size :
        \E a \in transient_buffer(arena, size) :
          /\ arena' \in commit_transient(transient_finalize(a, n))
          /\ Writes(a.free, n, Wanted)
          /\ value' = {Literal(Transient(a.free, n))} /\ subject' = {v}
    BY <1>4 DEF UrlCode
  <2>2. PICK size \in {v.len, 3 * v.len} : \E n \in 0 .. size :
        \E a \in transient_buffer(arena, size) :
          /\ arena' \in commit_transient(transient_finalize(a, n))
          /\ Writes(a.free, n, Wanted)
          /\ value' = {Literal(Transient(a.free, n))} /\ subject' = {v}
    BY <2>1
  <2>3. PICK n \in 0 .. size : \E a \in transient_buffer(arena, size) :
          /\ arena' \in commit_transient(transient_finalize(a, n))
          /\ Writes(a.free, n, Wanted)
          /\ value' = {Literal(Transient(a.free, n))} /\ subject' = {v}
    BY <2>2
  <2>4. PICK a \in transient_buffer(arena, size) :
          /\ arena' \in commit_transient(transient_finalize(a, n))
          /\ Writes(a.free, n, Wanted)
          /\ value' = {Literal(Transient(a.free, n))} /\ subject' = {v}
    BY <2>3
  <2>5. v \in Wanted /\ ViewOK(v)
    BY DEF Wanted
  <2>6. size \in Nat /\ n \in Nat /\ n <= size
    BY <2>2, <2>3, <2>5 DEF ViewOK, View
  <2>7. /\ ArenaOK(a) /\ size <= Room(a)
        /\ \A w : ViewOK(w) /\ Held(arena, w) => Allocated(a, w)
    BY <2>4, <2>6, BufferFacts
  <2>8. n <= Room(a)
    BY <2>6, <2>7 DEF Room, ArenaOK
  <2> DEFINE c == transient_finalize(a, n)
             t == Transient(a.free, n)
  <2>9. /\ ArenaOK(c) /\ ViewOK(t) /\ Held(c, t)
        /\ \A w : Allocated(a, w) => Held(c, w)
    BY <2>6, <2>7, <2>8, FinalizeFacts
  <2>10. arena' \in commit_transient(c) /\ value' = {Literal(t)} /\ subject' = {v}
    BY <2>4
  <2> HIDE DEF c, t
  <2>11. ArenaOK(arena') /\ \A w : ViewOK(w) /\ Held(c, w) => Allocated(arena', w)
    BY <2>9, <2>10, CommitTransientFacts
  <2>12. ViewOK(Literal(t)) /\ Held(arena', Literal(t))
    BY <2>9, <2>11, LiteralFacts
  <2>13. spoiled' = FALSE
    BY <2>4, <2>6, <2>7, <2>8, RemnantFacts DEF Writes
  <2>14. /\ frames' = frames /\ extent' = extent /\ cause' = cause /\ ~ Rendering
         /\ Wanted' \subseteq Wanted \cup {Literal(t)}
    BY <1>4, <2>5, <2>10 DEF UrlCode, Idle, Wanted
  <2> QED BY <2>7, <2>9, <2>11, <2>12, <2>13, <2>14 DEF Rendering, Held
<1>5. CASE UrlCodeRefused
  <2>1. PICK v \in value : \E size \in {v.len, 3 * v.len} : arena' \in transient_buffer(arena, size)
    BY <1>5 DEF UrlCodeRefused
  <2>2. PICK size \in {v.len, 3 * v.len} : arena' \in transient_buffer(arena, size)
    BY <2>1
  <2>3. size \in Nat
    <3>1. v \in Wanted
      BY DEF Wanted
    <3> QED BY <2>2, <3>1 DEF ViewOK, View
  <2>4. /\ ArenaOK(arena') /\ arena'.transient = ACTIVE
        /\ \A w : ViewOK(w) /\ Held(arena, w) => Allocated(arena', w)
    BY <2>2, <2>3, BufferFacts
  <2>5. /\ frames' = frames /\ extent' = extent /\ cause' = "refused" /\ spoiled' = spoiled
        /\ Wanted' \subseteq Wanted
    BY <1>5 DEF UrlCodeRefused, Wanted
  <2> QED BY <2>4, <2>5 DEF Held
<1> QED BY <1>1, <1>2, <1>3, <1>4, <1>5

\* Where nothing waits in the buffer, an allocation that does not look at it
\* is as good as another.
LEMMA AllocDirectIInv == ASSUME IInv, AllocDirect, "direct" \notin Clients PROVE IInv'
<1> USE DEF IInv
<1>1. /\ arena.transient = 0 /\ arena' \in alloc(arena, 1) /\ Writes(arena'.free - 1, 1, Wanted)
      /\ ~ Rendering /\ frames' = frames /\ extent' = extent /\ cause' = cause /\ Wanted' = Wanted
  BY DEF AllocDirect, Idle, features, Wanted
<1>2. PICK c \in require(arena, 1) :
        /\ ArenaOK(c) /\ 1 <= Room(c) /\ c.allocated = arena.allocated
        /\ 1 <= Room(arena) => c = arena
        /\ arena'.allocated = arena.allocated \cup Span(c.free, 1) /\ arena'.free = c.free + 1 /\ arena'.end = c.end
        /\ arena'.transient = arena.transient /\ arena'.thrown = arena.thrown
        /\ Span(c.free, 1) \cap arena.allocated = {}
        /\ arena'.free .. arena'.end - 1 \cap arena'.allocated = {} /\ arena'.free <= arena'.end /\ arena'.end < ACTIVE
        /\ arena' \in [allocated : SUBSET Nat, free : Nat, end : Nat, transient : Nat, thrown : BOOLEAN]
  <2>1. ArenaOK(arena) /\ 1 \in Nat /\ arena.transient \in {0, ACTIVE} /\ arena' \in alloc(arena, 1)
    BY <1>1
  <2> HIDE DEF IInv
  <2> QED BY ONLY <2>1, AllocFacts
<1>3. arena'.free - 1 = c.free
  BY <1>2 DEF ArenaOK
<1>4. ArenaOK(arena')
  BY <1>1, <1>2 DEF ArenaOK
<1>5. ASSUME NEW v \in Wanted PROVE Allocated(arena, v)
  <2>1. ViewOK(v) /\ Held(arena, v)
    OBVIOUS
  <2>2. v.len = 0 => Allocated(arena, v)
    BY <2>1 DEF Allocated, Span, ViewOK, View
  <2> QED BY <1>1, <2>1, <2>2 DEF Held
<1>6. spoiled' = FALSE
  BY <1>1, <1>2, <1>3, <1>5 DEF Writes, Allocated
<1> QED BY <1>1, <1>2, <1>4, <1>5, <1>6 DEF Rendering, Held, Allocated

LEMMA StepIInv == ASSUME "direct" \notin Clients, IInv, [Next]_vars PROVE IInv'
<1>1. CASE vars' = vars
  BY <1>1 DEF vars, features, IInv, Wanted, Rendering
<1>2. CASE Next
  BY <1>2, RenderingIInv, UsesIInv, ModifiersIInv, AllocDirectIInv DEF Next
<1> QED BY <1>1, <1>2

LEMMA InvariantIInv == ASSUME "direct" \notin Clients PROVE Spec => []IInv
BY InitIInv, StepIInv, PTL DEF Spec

-----------------------------------------------------------------------------
(* Who finds the buffer in use.  It is active after a refused encoding, or *)
(* while there is a rendering, and what is done then does not ask for it,  *)
(* but for an extractor that allocates.                                    *)

OInv ==
  /\ cause = "none" => (Rendering <=> arena.transient = ACTIVE)
  /\ arena.thrown => cause # "none"
  /\ cause = "object" => arena.thrown

LEMMA InitOInv == Init => OInv
BY NewArenaFacts DEF Init, OInv, Rendering

\* What asks for the buffer, or allocates, outside of a rendering.
LEMMA OneUse ==
  ASSUME IInv, OInv, Idle, cause = "none"
  PROVE  ArenaOK(arena) /\ arena.transient # ACTIVE /\ arena.thrown = FALSE
BY DEF IInv, OInv, Idle, ArenaOK

LEMMA RenderingOInv ==
  ASSUME IInv, OInv, render_transient \/ Write \/ NestedDone \/ RenderDone
  PROVE  OInv'
<1> USE DEF OInv
<1>1. CASE render_transient
  <2>1. CASE Rendering
    <3>1. frames' = Append(frames, extent) /\ arena' = arena /\ cause' = cause
      BY <1>1, <2>1 DEF render_transient
    <3>2. Rendering'
      BY <3>1 DEF IInv, Rendering
    <3> QED BY <2>1, <3>1, <3>2
  <2>2. CASE ~ Rendering
    <3>1. arena' \in transient_buffer(arena, 0) /\ frames' = <<0>> /\ cause' = cause /\ Idle
      BY <1>1, <2>2 DEF render_transient, Idle
    <3>2. arena'.transient = ACTIVE /\ arena'.thrown = (arena.thrown \/ arena.transient = ACTIVE)
      BY <3>1, BufferFacts DEF IInv
    <3>3. Rendering'
      BY <3>1 DEF Rendering
    <3> QED BY <3>1, <3>2, <3>3, OneUse
  <2> QED BY <2>1, <2>2
<1>2. CASE Write
  BY <1>2 DEF Write, Rendering
<1>3. CASE NestedDone
  <2>1. frames' = SubSeq(frames, 1, Len(frames) - 1) /\ Len(frames) > 1 /\ frames \in Seq(Nat)
        /\ arena' = arena /\ cause' = cause
    BY <1>3 DEF NestedDone, IInv
  <2>2. Len(frames') = Len(frames) - 1 /\ Len(frames) \in Nat
    BY <2>1
  <2>3. Len(frames') # 0 /\ Len(frames) # 0
    BY <2>1, <2>2
  <2>4. frames # <<>> /\ frames' # <<>>
    BY <2>3
  <2> QED BY <2>1, <2>4 DEF Rendering
<1>4. CASE RenderDone
  <2>1. /\ frames' = <<>> /\ cause' = cause /\ ~ arena.thrown /\ Len(frames) = 1
        /\ ArenaOK(arena) /\ extent \in Nat
        /\ Rendering => arena.transient = ACTIVE
    BY <1>4 DEF RenderDone, IInv
  <2> Rendering
    BY <2>1 DEF Rendering
  <2>2. PICK a \in Rendered(arena, extent) : arena' = transient_finalize(a, extent)
    BY <1>4 DEF RenderDone
  <2>3. ArenaOK(a) /\ extent <= Room(a) /\ a.thrown = arena.thrown
    BY <2>1, <2>2, RenderedFacts
  <2>4. arena'.transient # ACTIVE /\ arena'.thrown = a.thrown
    BY <2>1, <2>2, <2>3, FinalizeFacts
  <2> QED BY <2>1, <2>3, <2>4 DEF Rendering
<1> QED BY <1>1, <1>2, <1>3, <1>4

LEMMA UsesOInv ==
  ASSUME IInv, OInv,
         Use \/ Cache \/ Modify \/ Modified \/ Keep \/ Make \/ LocalUse \/ AllocDirect \/ Close
  PROVE  OInv'
<1> USE DEF OInv
<1>1. CASE Use \/ Cache \/ Modify \/ Modified
  BY <1>1 DEF Use, Cache, Modify, Modified, Rendering
<1>2. CASE Keep
  <2>1. PICK v \in value : arena' \in commit(arena, v)
    BY <1>2 DEF Keep
  <2>2. ViewOK(v) /\ Held(arena, v) /\ ArenaOK(arena)
    BY DEF IInv, Wanted
  <2>3. arena'.thrown = arena.thrown
    BY <2>1, <2>2, CommitFacts
  <2>4. arena'.transient = ACTIVE <=> arena.transient = ACTIVE
    BY <2>1, <2>2, CommitFacts
  <2>5. frames' = frames /\ cause' = cause
    BY <1>2 DEF Keep
  <2> QED BY <2>3, <2>4, <2>5 DEF Rendering
<1>3. CASE Make
  <2>1. /\ arena' \in make(arena) /\ ~ arena.thrown /\ frames' = frames
        /\ cause' = IF Rendering THEN "object" ELSE cause
    BY <1>3 DEF Make
  <2>2. /\ arena'.transient = IF arena.transient = ACTIVE THEN ACTIVE ELSE 0
        /\ arena'.thrown = (arena.thrown \/ arena.transient = ACTIVE)
        /\ ACTIVE # 0
    BY <2>1, MakeFacts, BlockFacts DEF IInv
  <2>3. CASE Rendering
    <3>1. arena.transient = ACTIVE
      BY <2>3 DEF IInv
    <3> QED BY <2>1, <2>2, <2>3, <3>1
  <2>4. CASE ~ Rendering
    BY <2>1, <2>2, <2>4, OneUse DEF Rendering, Idle
  <2> QED BY <2>3, <2>4
<1>4. CASE LocalUse
  <2>1. PICK n \in 1 .. MaxLen : \E a \in transient_buffer(arena, n) : arena' = transient_discard(a)
    BY <1>4 DEF LocalUse
  <2>2. PICK a \in transient_buffer(arena, n) : arena' = transient_discard(a)
    BY <2>1
  <2>3. Idle /\ frames' = frames /\ cause' = cause /\ n \in Nat
    BY <1>4, TransientAssumption DEF LocalUse
  <2>4. ArenaOK(a) /\ a.thrown = (arena.thrown \/ arena.transient = ACTIVE)
    BY <2>2, <2>3, BufferFacts DEF IInv
  <2>5. arena'.thrown = a.thrown /\ arena'.transient = 0 /\ ACTIVE # 0
    BY <2>2, <2>4, BlockFacts DEF transient_discard, ArenaOK
  <2> QED BY <2>3, <2>4, <2>5, OneUse DEF Rendering, Idle
<1>5. CASE AllocDirect
  <2>1. arena' \in alloc(arena, 1) /\ Idle /\ frames' = frames /\ cause' = cause
    BY <1>5 DEF AllocDirect
  <2>2. PICK c \in require(arena, 1) :
          arena' = [c EXCEPT !.allocated = @ \cup Span(c.free, 1), !.free = @ + 1]
    BY <2>1 DEF alloc
  <2>3. /\ c \in [allocated : SUBSET Nat, free : Nat, end : Nat, transient : Nat, thrown : BOOLEAN]
        /\ c.transient = arena.transient /\ c.thrown = arena.thrown
    <3>1. CASE 1 <= Room(arena)
      BY <2>2, <3>1 DEF require, IInv, ArenaOK
    <3>2. CASE ~ (1 <= Room(arena))
      <4>1. PICK r \in Remnants(arena) : c = [arena EXCEPT !.free = r[1], !.end = r[2]]
        BY <2>2, <3>2 DEF require
      <4>2. r[1] \in Nat /\ r[2] \in Nat
        <5>1. PICK b \in Blocks : \E f \in b[1] .. b[2] : r = <<f, b[2]>>
          BY <4>1 DEF Remnants
        <5> QED BY <5>1, BlockFacts
      <4> QED BY <4>1, <4>2 DEF IInv, ArenaOK
    <3> QED BY <3>1, <3>2
  <2>4. arena'.transient = arena.transient /\ arena'.thrown = arena.thrown
    BY <2>2, <2>3
  <2> QED BY <2>1, <2>4 DEF Rendering
<1>6. CASE Close
  <2>1. arena' \in NewArena /\ frames' = <<>> /\ cause' = "none"
    BY <1>6 DEF Close
  <2>2. arena'.transient # ACTIVE /\ arena'.thrown = FALSE
    BY <2>1, NewArenaFacts
  <2> QED BY <2>1, <2>2 DEF Rendering
<1> QED BY <1>1, <1>2, <1>3, <1>4, <1>5, <1>6

LEMMA ModifiersOInv ==
  ASSUME IInv, OInv, Concat \/ Piece \/ Assemble \/ UrlCode \/ UrlCodeRefused
  PROVE  OInv'
<1> USE DEF OInv
<1>1. Idle /\ frames' = frames /\ (cause' = cause \/ cause' = "refused") /\ ArenaOK(arena)
  BY DEF Concat, Piece, Assemble, UrlCode, UrlCodeRefused, IInv
<1>2. CASE cause # "none"
  <2>1. cause = "refused"
    BY <1>1, <1>2 DEF IInv, Idle
  <2>2. cause' = "refused"
    BY <1>1, <2>1
  <2> QED BY <2>2
<1>3. CASE cause = "none"
  <2>1. arena.transient # ACTIVE /\ arena.thrown = FALSE /\ 0 # ACTIVE /\ ~ Rendering
    BY <1>1, <1>3, OneUse, BlockFacts DEF Idle
  <2>2. ~ Rendering'
    BY <1>1, <2>1 DEF Rendering
  <2>3. CASE Concat
    <3>1. PICK s \in subject, v \in value :
            \E a \in transient_require(arena, s.len + v.len) : \E b \in transient_buffer(a, 0) :
              arena' \in commit(transient_finalize(b, s.len + v.len), Transient(b.free, s.len + v.len))
      BY <2>3 DEF Concat
    <3> DEFINE n == s.len + v.len
    <3>2. n \in Nat
      BY DEF IInv, Wanted, ViewOK, View
    <3>3. PICK a \in transient_require(arena, n) : \E b \in transient_buffer(a, 0) :
              arena' \in commit(transient_finalize(b, n), Transient(b.free, n))
      BY <3>1
    <3>4. PICK b \in transient_buffer(a, 0) :
              arena' \in commit(transient_finalize(b, n), Transient(b.free, n))
      BY <3>3
    <3> HIDE DEF n
    <3>5. /\ ArenaOK(a) /\ n <= Room(a) /\ a.transient = 0
          /\ a.thrown = (arena.thrown \/ arena.transient = ACTIVE)
      BY <1>1, <2>1, <3>2, <3>3, TransientRequireFacts
    <3>6. /\ ArenaOK(b) /\ b.free = a.free /\ b.end = a.end
          /\ b.thrown = (a.thrown \/ a.transient = ACTIVE)
      BY <3>4, <3>5, BufferFacts
    <3>7. b.thrown = FALSE /\ n <= Room(b)
      BY <2>1, <3>5, <3>6 DEF Room
    <3> DEFINE c == transient_finalize(b, n)
               t == Transient(b.free, n)
    <3>8. ArenaOK(c) /\ ViewOK(t) /\ Held(c, t) /\ c.thrown = b.thrown /\ c.transient # ACTIVE
      BY <3>2, <3>6, <3>7, FinalizeFacts
    <3>9. arena' \in commit(c, t)
      BY <3>4
    <3> HIDE DEF c, t
    <3>10. arena'.thrown = c.thrown
      BY <3>8, <3>9, CommitFacts
    <3>11. arena'.transient = ACTIVE <=> c.transient = ACTIVE
      BY <3>8, <3>9, CommitFacts
    <3> QED BY <1>1, <1>3, <2>2, <3>7, <3>8, <3>10, <3>11
  <2>4. CASE Piece
    <3>1. PICK v \in value : \E a \in commit(arena, v) : arena' \in make(a)
      BY <2>4 DEF Piece
    <3>2. PICK a \in commit(arena, v) : arena' \in make(a)
      BY <3>1
    <3>3. ViewOK(v) /\ Held(arena, v)
      BY DEF IInv, Wanted
    <3>4. ArenaOK(a) /\ a.thrown = arena.thrown
      BY <1>1, <3>2, <3>3, CommitFacts
    <3>5. a.transient = ACTIVE <=> arena.transient = ACTIVE
      BY <1>1, <3>2, <3>3, CommitFacts
    <3>6. /\ arena'.transient = IF a.transient = ACTIVE THEN ACTIVE ELSE 0
          /\ arena'.thrown = (a.thrown \/ a.transient = ACTIVE)
      BY <3>2, <3>4, MakeFacts
    <3> QED BY <1>1, <1>3, <2>1, <2>2, <3>4, <3>5, <3>6
  <2>5. CASE Assemble
    <3>1. PICK n \in 0 .. MaxLen : \E a \in transient_buffer(arena, n) :
            arena' = transient_finalize(a, n)
      BY <2>5 DEF Assemble
    <3>2. PICK a \in transient_buffer(arena, n) : arena' = transient_finalize(a, n)
      BY <3>1
    <3>3. n \in Nat
      BY TransientAssumption
    <3>4. ArenaOK(a) /\ n <= Room(a) /\ a.thrown = (arena.thrown \/ arena.transient = ACTIVE)
      BY <1>1, <3>2, <3>3, BufferFacts
    <3>5. arena'.transient # ACTIVE /\ arena'.thrown = a.thrown
      BY <3>2, <3>3, <3>4, FinalizeFacts
    <3> QED BY <1>1, <1>3, <2>1, <2>2, <3>4, <3>5
  <2>6. CASE UrlCode
    <3>1. PICK v \in value : \E size \in {v.len, 3 * v.len} : \E n \in 0 .. size :
          \E a \in transient_buffer(arena, size) : arena' \in commit_transient(transient_finalize(a, n))
      BY <2>6 DEF UrlCode
    <3>2. PICK size \in {v.len, 3 * v.len} : \E n \in 0 .. size :
          \E a \in transient_buffer(arena, size) : arena' \in commit_transient(transient_finalize(a, n))
      BY <3>1
    <3>3. PICK n \in 0 .. size :
          \E a \in transient_buffer(arena, size) : arena' \in commit_transient(transient_finalize(a, n))
      BY <3>2
    <3>4. PICK a \in transient_buffer(arena, size) :
            arena' \in commit_transient(transient_finalize(a, n))
      BY <3>3
    <3>5. v.len \in Nat
      BY DEF IInv, Wanted, ViewOK, View
    <3>6. size \in Nat /\ n \in Nat /\ n <= size
      BY <3>2, <3>3, <3>5
    <3>7. ArenaOK(a) /\ size <= Room(a) /\ a.thrown = (arena.thrown \/ arena.transient = ACTIVE)
      BY <1>1, <3>4, <3>6, BufferFacts
    <3>8. n <= Room(a)
      BY <3>6, <3>7 DEF Room, ArenaOK
    <3> DEFINE c == transient_finalize(a, n)
    <3>9. ArenaOK(c) /\ c.transient # ACTIVE /\ c.thrown = a.thrown
      BY <3>6, <3>7, <3>8, FinalizeFacts
    <3>10. arena' \in commit_transient(c)
      BY <3>4
    <3> HIDE DEF c
    <3>11. arena'.transient = 0 /\ arena'.thrown = (c.thrown \/ c.transient = ACTIVE)
      BY <3>9, <3>10, CommitTransientFacts
    <3> QED BY <1>1, <1>3, <2>1, <2>2, <3>7, <3>9, <3>11
  <2>7. CASE UrlCodeRefused
    <3>1. cause' = "refused"
      BY <2>7 DEF UrlCodeRefused
    <3> QED BY <3>1
  <2> QED BY <2>3, <2>4, <2>5, <2>6, <2>7
<1> QED BY <1>2, <1>3

LEMMA StepOInv == ASSUME IInv, OInv, [Next]_vars PROVE OInv'
<1>1. CASE vars' = vars
  BY <1>1 DEF vars, OInv, Rendering
<1>2. CASE Next
  BY <1>2, RenderingOInv, UsesOInv, ModifiersOInv DEF Next
<1> QED BY <1>1, <1>2

-----------------------------------------------------------------------------
(* The theorems.                                                           *)

\* The variables keep their types, whatever the blocks and the bounds.
THEOREM TypeCorrect == ASSUME "direct" \notin Clients PROVE Spec => []TypeOK
<1>1. IInv => TypeOK
  BY DEF IInv, TypeOK, ArenaOK, ViewOK
<1> QED BY <1>1, InvariantIInv, PTL

\* No text that somebody still has is written on (render_transient, commit).
THEOREM TextsStayIntact == ASSUME "direct" \notin Clients PROVE Spec => []TextsIntact
<1>1. IInv => TextsIntact
  BY DEF IInv, TextsIntact
<1> QED BY <1>1, InvariantIInv, PTL

\* A literal text is in allocated memory, any other there or in the buffer (commit).
THEOREM TextsStayHeld == ASSUME "direct" \notin Clients PROVE Spec => []TextsHeld
<1>1. ASSUME IInv PROVE TextsHeld
  BY <1>1 DEF IInv, TextsHeld, Held, Allocated
<1> QED BY <1>1, InvariantIInv, PTL

\* What waits is in the remnant, and waits once (commit, render_transient).
THEOREM PendingStaysInside == ASSUME "direct" \notin Clients PROVE Spec => []PendingFits
<1>1. IInv => PendingFits
  BY DEF IInv, PendingFits, ArenaOK, Room
<1> QED BY <1>1, InvariantIInv, PTL

\* With any extractors in what is rendered: only a refused encoding and an extractor that
\* allocates let a use of the buffer find it in use, and the latter always does
\* (commit_transient).
THEOREM OnlyCausesThrow == ASSUME "direct" \notin Clients PROVE Spec => []ThrownForCause
<1>1. OInv => ThrownForCause
  BY DEF OInv, ThrownForCause
<1>2. Spec => []OInv
  BY InvariantIInv, InitOInv, StepOInv, PTL DEF Spec
<1> QED BY <1>1, <1>2, PTL

-----------------------------------------------------------------------------
(* The active feature and the terminal flag.                               *)

\* A set of naturals that is not empty has a least element.
LEMMA LeastOf ==
  ASSUME NEW T, T \subseteq Nat, T # {}
  PROVE  \E x \in T : \A y \in T : x <= y
<1> DEFINE R == OpToRel(<, Nat)
<1>1. IsWellFoundedOn(R, Nat)
  BY NatLessThanWellFounded
<1>2. \A x, y \in Nat : y < x => <<y, x>> \in R
  BY DEF OpToRel
<1> HIDE DEF R
<1>3. PICK x \in T : \A y \in T : ~ (<<y, x>> \in R)
  BY <1>1, WFMin, Zenon
<1>4. \A y \in T : ~ (y < x)
  BY <1>2, <1>3
<1> QED BY <1>3, <1>4

\* What holds at 0 and is passed on up to n holds at n.
LEMMA UpTo ==
  ASSUME NEW n \in Nat, NEW T, 0 \in T, \A k \in 0 .. n - 1 : k \in T => k + 1 \in T
  PROVE  \A k \in 0 .. n : k \in T
<1> SUFFICES ASSUME NEW a \in 0 .. n, a \notin T PROVE FALSE
  OBVIOUS
<1> DEFINE Out == {k \in 0 .. n : k \notin T}
<1>1. Out \subseteq Nat /\ Out # {}
  OBVIOUS
<1>2. PICK k \in Out : \A j \in Out : k <= j
  BY <1>1, LeastOf
<1>3. k # 0 /\ k - 1 \in 0 .. n - 1 /\ k - 1 \in T
  BY <1>2
<1> QED BY <1>2, <1>3

-----------------------------------------------------------------------------
(* The meaning of directives, one step after the other.                    *)

\* Means is what MeansOf makes of it.
MeansEquation == \A active, s : \A ds \in Seq(Directive) : Means(ds, active, s) = MeansOf(ds, active, s)

InList(t, d, active) == IF t.stop THEN t ELSE MeansOne(d, active, t)

\* The states that a list goes through.
Through(g, ds, active, s) ==
  /\ g[0] = Stopping(s, FALSE)
  /\ \A i \in 1 .. Len(ds) : g[i] = InList(g[i - 1], ds[i], active)
  /\ MeansOf(ds, active, s) = g[Len(ds)]

LEMMA MeansOfSteps ==
  ASSUME NEW ds \in Seq(Directive), NEW active, NEW s
  PROVE  \E g : Through(g, ds, active, s)
<1> DEFINE n == Len(ds)
           base == Stopping(s, FALSE)
           one(t, i) == Given(LAMBDA v : InList(v, ds[i], active), t)
           F(f) == [i \in 0 .. n |-> IF i = 0 THEN base ELSE one(f[i - 1], i)]
           after == CHOOSE f : f = F(f)
<1>1. n \in Nat
  OBVIOUS
<1>2. \A t, i : one(t, i) = InList(t, ds[i], active)
  BY DEF Given
<1>3. MeansOf(ds, active, s) = after[n]
  BY DEF MeansOf, Carry, InList
<1> HIDE DEF one, base, n
<1> DEFINE Reaches(k) == \E g : g = [i \in 0 .. k |-> IF i = 0 THEN base ELSE one(g[i - 1], i)]
           T == {k \in 0 .. n : Reaches(k)}
<1>4. Reaches(0)
  <2> DEFINE g == [i \in 0 .. 0 |-> base]
  <2>1. g = [i \in 0 .. 0 |-> IF i = 0 THEN base ELSE one(g[i - 1], i)]
    OBVIOUS
  <2> QED BY <2>1
<1>5. ASSUME NEW k \in 0 .. n - 1, Reaches(k) PROVE Reaches(k + 1)
  <2>1. PICK g : g = [i \in 0 .. k |-> IF i = 0 THEN base ELSE one(g[i - 1], i)]
    BY <1>5
  <2> DEFINE h == [i \in 0 .. k + 1 |-> IF i = k + 1 THEN one(g[k], k + 1) ELSE g[i]]
  <2>2. \A i \in 0 .. k + 1 : h[i] = IF i = 0 THEN base ELSE one(h[i - 1], i)
    BY <1>1, <2>1
  <2>3. h = [i \in 0 .. k + 1 |-> IF i = 0 THEN base ELSE one(h[i - 1], i)]
    BY <2>2
  <2> QED BY <2>3
<1> HIDE DEF Reaches
<1>6. \A k \in 0 .. n : k \in T
  <2>1. 0 \in T /\ \A k \in 0 .. n - 1 : k \in T => k + 1 \in T
    BY <1>1, <1>4, <1>5
  <2> HIDE DEF T
  <2> QED BY <1>1, <2>1, UpTo
<1>7. \E g : g = F(g)
  BY <1>1, <1>6 DEF Reaches
<1>8. after = F(after)
  BY <1>7
<1> HIDE DEF after
<1>9. after[0] = base /\ \A i \in 1 .. n : after[i] = one(after[i - 1], i)
  BY <1>1, <1>8
<1>10. after[0] = Stopping(s, FALSE) /\ \A i \in 1 .. Len(ds) : after[i] = InList(after[i - 1], ds[i], active)
  BY <1>2, <1>9 DEF base, n
<1> QED BY <1>3, <1>10 DEF n, Through

\* A directive gives a state of a context, a log, and whether it ends the list.
IsState(t) == \E c, entries : \E stop \in BOOLEAN : t = State(c, entries, stop)

LEMMA OneState ==
  ASSUME NEW d \in Directive, NEW active, NEW s
  PROVE  IsState(MeansOne(d, active, s))
<1> USE DEF IsState
<1> DEFINE e == SeenAs(d.expr, active, s)
           t == State(e.cx, s.log, FALSE)
           did == IF d.body = <<>> THEN t
                  ELSE IF d.each THEN MeansRounds(d, Rounds(e.val), t) ELSE Means(d.body, e.val, t)
<1> HIDE DEF e
<1>0. MeansOne(d, active, s) = CASE d.do = "use" -> MeansUse(d, e, s)
                                 [] d.do = "var" -> MeansVar(d, e, s)
                                 [] d.do = "with" -> MeansWith(d, e, s)
  BY DEF MeansOne, Given, e
<1>1. d.do \in {"use", "var", "with"}
  BY ProgramAssumption DEF IsDirective
<1>2. CASE d.do = "use"
  BY <1>0, <1>2 DEF MeansUse
<1>3. CASE d.do = "var"
  BY <1>0, <1>3 DEF MeansVar
<1>4. CASE d.do = "with"
  <2>1. ASSUME NEW f, NEW r
        PROVE  \E c, entries : \E stop \in BOOLEAN : MeansCases(d, f, r) = State(c, entries, stop)
    <3> DEFINE hit == FirstHitOf(d.cases, f, Seeing(f, r))
               after == State(Unseen(hit.cx, r), r.log, FALSE)
               x == IF hit.hit THEN Means(d.cases[hit.case].body, f, after) ELSE after
    <3> HIDE DEF hit
    <3>1. MeansCases(d, f, r) = Stopping(x, hit.hit /\ ~ d.continue)
      BY DEF MeansCases, Given, hit
    <3>2. (hit.hit /\ ~ d.continue) \in BOOLEAN
      OBVIOUS
    <3> HIDE DEF x
    <3> QED BY <3>1, <3>2 DEF Stopping
  <2>2. \/ \E f, r : MeansOne(d, active, s) = MeansCases(d, f, r)
        \/ \E last, f, r : MeansOne(d, active, s) = MeansAgain(d, last, f, r)
    BY <1>0, <1>4 DEF MeansWith, Given
  <2>3. \A last, f, r : \E g, u : MeansAgain(d, last, f, r) = MeansCases(d, g, u)
    BY DEF MeansAgain, Given
  <2> QED BY <2>1, <2>2, <2>3
<1> QED BY <1>1, <1>2, <1>3, <1>4

\* A list means its first directive, and then the rest if that does not end it.
LEMMA MeansNext ==
  ASSUME MeansEquation, NEW ds \in Seq(Directive), ds # <<>>, NEW active, NEW s
  PROVE  LET t == MeansOne(Head(ds), active, Stopping(s, FALSE))
         IN Means(ds, active, s) = IF t.stop THEN t ELSE Means(Tail(ds), active, t)
<1> DEFINE n == Len(ds)
           rest == Tail(ds)
           t == MeansOne(Head(ds), active, Stopping(s, FALSE))
<1>1. n \in Nat /\ n >= 1 /\ rest \in Seq(Directive) /\ Len(rest) = n - 1 /\ Head(ds) = ds[1] /\ Head(ds) \in Directive
  OBVIOUS
<1>2. \A i \in 1 .. n - 1 : rest[i] = ds[i + 1]
  OBVIOUS
<1>3. PICK g : Through(g, ds, active, s)
  BY MeansOfSteps
<1> HIDE DEF rest, t
<1>4. PICK h : Through(h, rest, active, t)
  BY <1>1, MeansOfSteps
<1>31. g[0] = Stopping(s, FALSE) /\ \A i \in 1 .. n : g[i] = InList(g[i - 1], ds[i], active)
  BY <1>3 DEF Through
<1>41. h[0] = Stopping(t, FALSE) /\ \A i \in 1 .. n - 1 : h[i] = InList(h[i - 1], rest[i], active)
  BY <1>1, <1>4 DEF Through
<1>5. Means(ds, active, s) = g[n] /\ Means(rest, active, t) = h[n - 1]
  BY <1>1, <1>3, <1>4 DEF MeansEquation, Through
<1>6. g[1] = t
  <2>1. 1 \in 1 .. n /\ 1 - 1 = 0
    BY <1>1
  <2>2. g[1] = InList(g[0], ds[1], active)
    BY <1>31, <2>1
  <2>3. g[0].stop = FALSE
    BY <1>31 DEF Stopping, State
  <2> QED BY <1>1, <1>31, <2>2, <2>3 DEF InList, t
<1>7. PICK c, entries : \E stop \in BOOLEAN : t = State(c, entries, stop)
  <2>1. IsState(t)
    BY <1>1, OneState DEF t
  <2> QED BY <2>1 DEF IsState
<1>8. ~ t.stop => h[0] = t
  <2>1. PICK stop \in BOOLEAN : t = State(c, entries, stop)
    BY <1>7
  <2>2. t.stop = stop /\ Stopping(t, FALSE) = State(c, entries, FALSE)
    BY <2>1 DEF Stopping, State
  <2> QED BY <1>41, <2>1, <2>2
<1> HIDE DEF n
<1>9. CASE t.stop
  <2> DEFINE T == {k \in 0 .. n - 1 : g[k + 1] = t}
  <2>1. \A k \in 0 .. n - 1 : k \in T
    <3>1. 0 \in T
      BY <1>1, <1>6
    <3>2. ASSUME NEW k \in 0 .. n - 1 - 1, k \in T PROVE k + 1 \in T
      <4>1. k + 2 \in 1 .. n /\ k + 2 - 1 = k + 1 /\ k + 1 \in 0 .. n - 1 /\ k + 1 + 1 = k + 2
        BY <1>1
      <4>2. g[k + 2] = InList(g[k + 1], ds[k + 2], active)
        BY <1>31, <4>1
      <4> QED BY <1>9, <3>2, <4>1, <4>2 DEF InList
    <3>3. n - 1 \in Nat
      BY <1>1
    <3> HIDE DEF T
    <3> QED BY <3>1, <3>2, <3>3, UpTo
  <2>2. n - 1 \in T
    BY <1>1, <2>1
  <2>3. g[n] = t
    BY <1>1, <2>2
  <2> QED BY <1>5, <1>9, <2>3 DEF t, rest, n
<1>10. CASE ~ t.stop
  <2> DEFINE T == {k \in 0 .. n - 1 : g[k + 1] = h[k]}
  <2>1. \A k \in 0 .. n - 1 : k \in T
    <3>1. 0 \in T
      BY <1>1, <1>6, <1>8, <1>10
    <3>2. ASSUME NEW k \in 0 .. n - 1 - 1, k \in T PROVE k + 1 \in T
      <4>1. /\ k + 2 \in 1 .. n /\ k + 2 - 1 = k + 1 /\ k + 1 \in 0 .. n - 1 /\ k + 1 + 1 = k + 2
            /\ k + 1 \in 1 .. n - 1 /\ k + 1 - 1 = k
        BY <1>1
      <4>2. g[k + 2] = InList(g[k + 1], ds[k + 2], active)
        BY <1>31, <4>1
      <4>3. h[k + 1] = InList(h[k], rest[k + 1], active)
        BY <1>41, <4>1
      <4>4. rest[k + 1] = ds[k + 2]
        BY <1>2, <4>1
      <4> QED BY <3>2, <4>1, <4>2, <4>3, <4>4
    <3>3. n - 1 \in Nat
      BY <1>1
    <3> HIDE DEF T
    <3> QED BY <3>1, <3>2, <3>3, UpTo
  <2>2. n - 1 \in T
    BY <1>1, <2>1
  <2>3. g[n] = h[n - 1]
    BY <1>1, <2>2
  <2> QED BY <1>5, <1>10, <2>3 DEF t, rest, n
<1> QED BY <1>9, <1>10

\* An empty list means nothing, and no list looks at whether one before it ended.
LEMMA MeansNothing ==
  ASSUME MeansEquation, NEW active, NEW s
  PROVE  Means(<<>>, active, s) = Stopping(s, FALSE)
<1> DEFINE ds == <<>>
<1>1. ds \in Seq(Directive) /\ Len(ds) = 0
  OBVIOUS
<1> HIDE DEF ds
<1>2. PICK g : Through(g, ds, active, s)
  BY <1>1, MeansOfSteps
<1>3. Means(ds, active, s) = MeansOf(ds, active, s)
  BY <1>1 DEF MeansEquation
<1> QED BY <1>1, <1>2, <1>3 DEF ds, Through

LEMMA MeansAnyStop ==
  ASSUME MeansEquation, NEW ds \in Seq(Directive), NEW active, NEW s, NEW stop
  PROVE  Means(ds, active, Stopping(s, stop)) = Means(ds, active, s)
<1>1. Stopping(Stopping(s, stop), FALSE) = Stopping(s, FALSE)
  BY DEF Stopping, State
<1>2. MeansOf(ds, active, Stopping(s, stop)) = MeansOf(ds, active, s)
  BY <1>1 DEF MeansOf
<1> QED BY <1>2 DEF MeansEquation

-----------------------------------------------------------------------------
(* The rounds of a for-each.                                               *)

Passes(g, d, fs, s) ==
  /\ g[0] = s
  /\ \A i \in 1 .. Len(fs) : g[i] = Means(d.body, fs[i], g[i - 1])
  /\ MeansRounds(d, fs, s) = g[Len(fs)]

LEMMA RoundsSteps ==
  ASSUME NEW S, NEW fs \in Seq(S), NEW d, NEW s
  PROVE  \E g : Passes(g, d, fs, s)
<1> DEFINE n == Len(fs)
           base == s
           one(t, i) == Given(LAMBDA v : Means(d.body, fs[i], v), t)
           F(f) == [i \in 0 .. n |-> IF i = 0 THEN base ELSE one(f[i - 1], i)]
           after == CHOOSE f : f = F(f)
<1>1. n \in Nat
  OBVIOUS
<1>2. \A t, i : one(t, i) = Means(d.body, fs[i], t)
  BY DEF Given
<1>3. MeansRounds(d, fs, s) = after[n]
  BY DEF MeansRounds, Carry
<1> HIDE DEF one, base, n
<1> DEFINE Reaches(k) == \E g : g = [i \in 0 .. k |-> IF i = 0 THEN base ELSE one(g[i - 1], i)]
           T == {k \in 0 .. n : Reaches(k)}
<1>4. Reaches(0)
  <2> DEFINE g == [i \in 0 .. 0 |-> base]
  <2>1. g = [i \in 0 .. 0 |-> IF i = 0 THEN base ELSE one(g[i - 1], i)]
    OBVIOUS
  <2> QED BY <2>1
<1>5. ASSUME NEW k \in 0 .. n - 1, Reaches(k) PROVE Reaches(k + 1)
  <2>1. PICK g : g = [i \in 0 .. k |-> IF i = 0 THEN base ELSE one(g[i - 1], i)]
    BY <1>5
  <2> DEFINE h == [i \in 0 .. k + 1 |-> IF i = k + 1 THEN one(g[k], k + 1) ELSE g[i]]
  <2>2. \A i \in 0 .. k + 1 : h[i] = IF i = 0 THEN base ELSE one(h[i - 1], i)
    BY <1>1, <2>1
  <2>3. h = [i \in 0 .. k + 1 |-> IF i = 0 THEN base ELSE one(h[i - 1], i)]
    BY <2>2
  <2> QED BY <2>3
<1> HIDE DEF Reaches
<1>6. \A k \in 0 .. n : k \in T
  <2>1. 0 \in T /\ \A k \in 0 .. n - 1 : k \in T => k + 1 \in T
    BY <1>1, <1>4, <1>5
  <2> HIDE DEF T
  <2> QED BY <1>1, <2>1, UpTo
<1>7. \E g : g = F(g)
  BY <1>1, <1>6 DEF Reaches
<1>8. after = F(after)
  BY <1>7
<1> HIDE DEF after
<1>9. after[0] = base /\ \A i \in 1 .. n : after[i] = one(after[i - 1], i)
  BY <1>1, <1>8
<1>10. after[0] = s /\ \A i \in 1 .. Len(fs) : after[i] = Means(d.body, fs[i], after[i - 1])
  BY <1>2, <1>9 DEF base, n
<1> QED BY <1>3, <1>10 DEF n, Passes

LEMMA RoundsNone ==
  ASSUME NEW d, NEW s
  PROVE  MeansRounds(d, <<>>, s) = s
<1> DEFINE fs == <<>>
<1>1. fs \in Seq({}) /\ Len(fs) = 0
  OBVIOUS
<1> HIDE DEF fs
<1>2. PICK g : Passes(g, d, fs, s)
  BY <1>1, RoundsSteps
<1> QED BY <1>1, <1>2 DEF fs, Passes

LEMMA RoundsNext ==
  ASSUME NEW S, NEW fs \in Seq(S), fs # <<>>, NEW d, NEW s
  PROVE  MeansRounds(d, fs, s) = MeansRounds(d, Tail(fs), Means(d.body, Head(fs), s))
<1> DEFINE n == Len(fs)
           rest == Tail(fs)
           t == Means(d.body, Head(fs), s)
<1>1. n \in Nat /\ n >= 1 /\ rest \in Seq(S) /\ Len(rest) = n - 1 /\ Head(fs) = fs[1]
  OBVIOUS
<1>2. \A i \in 1 .. n - 1 : rest[i] = fs[i + 1]
  OBVIOUS
<1> HIDE DEF rest, t
<1>3. PICK g : Passes(g, d, fs, s)
  BY RoundsSteps
<1>4. PICK h : Passes(h, d, rest, t)
  BY <1>1, RoundsSteps
<1>5. g[0] = s /\ MeansRounds(d, fs, s) = g[n] /\ \A i \in 1 .. n : g[i] = Means(d.body, fs[i], g[i - 1])
  BY <1>3 DEF Passes
<1>6. h[0] = t /\ MeansRounds(d, rest, t) = h[n - 1] /\ \A i \in 1 .. n - 1 : h[i] = Means(d.body, rest[i], h[i - 1])
  BY <1>1, <1>4 DEF Passes
<1> HIDE DEF n
<1> DEFINE T == {k \in 0 .. n - 1 : g[k + 1] = h[k]}
<1>7. \A k \in 0 .. n - 1 : k \in T
  <2>1. 0 \in T
    <3>1. 1 \in 1 .. n /\ 1 - 1 = 0 /\ 0 + 1 = 1
      BY <1>1
    <3>2. g[1] = Means(d.body, fs[1], g[0])
      BY <1>5, <3>1
    <3> QED BY <1>1, <1>5, <1>6, <3>1, <3>2 DEF t
  <2>2. ASSUME NEW k \in 0 .. n - 1 - 1, k \in T PROVE k + 1 \in T
    <3>1. /\ k + 2 \in 1 .. n /\ k + 2 - 1 = k + 1 /\ k + 1 \in 0 .. n - 1 /\ k + 1 + 1 = k + 2
          /\ k + 1 \in 1 .. n - 1 /\ k + 1 - 1 = k
      BY <1>1
    <3>2. g[k + 2] = Means(d.body, fs[k + 2], g[k + 1])
      BY <1>5, <3>1
    <3>3. h[k + 1] = Means(d.body, rest[k + 1], h[k])
      BY <1>6, <3>1
    <3>4. rest[k + 1] = fs[k + 2]
      BY <1>2, <3>1
    <3> QED BY <2>2, <3>1, <3>2, <3>3, <3>4
  <2>3. n - 1 \in Nat
    BY <1>1
  <2> HIDE DEF T
  <2> QED BY <2>1, <2>2, <2>3, UpTo
<1>8. n - 1 \in T
  BY <1>1, <1>7
<1>9. g[n] = h[n - 1]
  BY <1>1, <1>8
<1> QED BY <1>5, <1>6, <1>9 DEF t, rest

-----------------------------------------------------------------------------
(* The first case that compares.                                           *)

NoHit(c) == [hit |-> FALSE, cx |-> c, case |-> 0]
TryNext(cases, f, r, i) ==
  IF r.hit THEN r
  ELSE LET h == Compares(cases[i].cmp, f, r.cx) IN [hit |-> h.hit, cx |-> h.cx, case |-> IF h.hit THEN i ELSE 0]

Tries(g, cases, f, c) ==
  /\ g[0] = NoHit(c)
  /\ \A i \in 1 .. Len(cases) : g[i] = TryNext(cases, f, g[i - 1], i)
  /\ FirstHitOf(cases, f, c) = g[Len(cases)]

IsList(cases) == DOMAIN cases = 1 .. Len(cases) /\ Len(cases) \in Nat

LEMMA FirstHitSteps ==
  ASSUME NEW cases, IsList(cases), NEW f, NEW c
  PROVE  \E g : Tries(g, cases, f, c)
<1> DEFINE places == [i \in DOMAIN cases |-> i]
<1>0. Len(places) = Len(cases) /\ \A i \in 1 .. Len(cases) : places[i] = i
  BY DEF IsList
<1> DEFINE n == Len(places)
           base == NoHit(c)
           one(t, i) == Given(LAMBDA v : TryNext(cases, f, v, places[i]), t)
           F(m) == [i \in 0 .. n |-> IF i = 0 THEN base ELSE one(m[i - 1], i)]
           after == CHOOSE m : m = F(m)
<1>1. n \in Nat
  BY <1>0 DEF IsList
<1>2. \A t, i : one(t, i) = TryNext(cases, f, t, places[i])
  BY DEF Given
<1>3. FirstHitOf(cases, f, c) = after[n]
  BY DEF FirstHitOf, Carry, TryNext, NoHit
<1> HIDE DEF one, base, n, places
<1> DEFINE Reaches(k) == \E g : g = [i \in 0 .. k |-> IF i = 0 THEN base ELSE one(g[i - 1], i)]
           T == {k \in 0 .. n : Reaches(k)}
<1>4. Reaches(0)
  <2> DEFINE g == [i \in 0 .. 0 |-> base]
  <2>1. g = [i \in 0 .. 0 |-> IF i = 0 THEN base ELSE one(g[i - 1], i)]
    OBVIOUS
  <2> QED BY <2>1
<1>5. ASSUME NEW k \in 0 .. n - 1, Reaches(k) PROVE Reaches(k + 1)
  <2>1. PICK g : g = [i \in 0 .. k |-> IF i = 0 THEN base ELSE one(g[i - 1], i)]
    BY <1>5
  <2> DEFINE h == [i \in 0 .. k + 1 |-> IF i = k + 1 THEN one(g[k], k + 1) ELSE g[i]]
  <2>2. \A i \in 0 .. k + 1 : h[i] = IF i = 0 THEN base ELSE one(h[i - 1], i)
    BY <1>1, <2>1
  <2>3. h = [i \in 0 .. k + 1 |-> IF i = 0 THEN base ELSE one(h[i - 1], i)]
    BY <2>2
  <2> QED BY <2>3
<1> HIDE DEF Reaches
<1>6. \A k \in 0 .. n : k \in T
  <2>1. 0 \in T /\ \A k \in 0 .. n - 1 : k \in T => k + 1 \in T
    BY <1>1, <1>4, <1>5
  <2> HIDE DEF T
  <2> QED BY <1>1, <2>1, UpTo
<1>7. \E g : g = F(g)
  BY <1>1, <1>6 DEF Reaches
<1>8. after = F(after)
  BY <1>7
<1> HIDE DEF after
<1>9. after[0] = base /\ \A i \in 1 .. n : after[i] = one(after[i - 1], i)
  BY <1>1, <1>8
<1>10. after[0] = NoHit(c) /\ \A i \in 1 .. Len(cases) : after[i] = TryNext(cases, f, after[i - 1], i)
  BY <1>0, <1>2, <1>9 DEF base, n
<1> QED BY <1>0, <1>3, <1>10 DEF n, Tries

-----------------------------------------------------------------------------
(* What expressions and comparisons leave.                                 *)

\* The values and contexts there are, with all that the program makes of them; and
\* expressions and comparisons leave the active feature.
Closed(values, contexts) ==
  /\ Actives \subseteq values /\ NIL_FEATURE \in values
  /\ \A f \in values : Is(f, "TUPLE") =>
       f = Tup(Val(f)) /\ Val(f) \in Seq(values) /\ (Val(f) # <<>> => Tup(Tail(Val(f))) \in values)
  /\ \A f \in Actives : NewContext(f) \in contexts
  /\ \A c \in contexts :
       /\ IsContext(c) /\ c.active \in values
       /\ \A f \in values : [c EXCEPT !.active = f] \in contexts
       /\ \A d \in Directive : /\ ValueOf(d.expr, c).val \in values /\ ValueOf(d.expr, c).cx \in contexts
                               /\ d.do = "var" => \A f \in values : store_txn_var(c, d.name, f) \in contexts
                               /\ d.do = "with" => \A k \in DOMAIN d.cases, f \in values :
                                                     Compares(d.cases[k].cmp, f, c).cx \in contexts
  /\ KeepActive(values, contexts)

LEMMA Extracted ==
  ASSUME NEW values, NEW contexts, Closed(values, contexts), NEW c \in contexts, NEW d \in Directive
  PROVE  LET e == ValueOf(d.expr, c) IN e.val \in values /\ e.cx \in contexts /\ e.cx.active = c.active
BY DEF Closed, KeepActive

\* One active feature in the place of another.
Acting(c, f) == [c EXCEPT !.active = f]

LEMMA Acts ==
  ASSUME NEW c, IsContext(c), NEW f, NEW g
  PROVE  /\ Acting(Acting(c, f), g) = Acting(c, g)
         /\ Acting(c, c.active) = c
         /\ Acting(c, f).active = f /\ Acting(c, f).how = c.how
         /\ IsContext(Acting(c, f))
BY DEF Acting, IsContext

LEMMA ActsInVar ==
  ASSUME NEW c, IsContext(c), NEW name, NEW f, NEW g
  PROVE  /\ store_txn_var(Acting(c, g), name, f) = Acting(store_txn_var(c, name, f), g)
         /\ store_txn_var(c, name, f).active = c.active
<1> DEFINE m(v) == (name :> f) @@ v
<1>1. \A k : store_txn_var(k, name, f) = [k EXCEPT !.vars = m(k.vars)]
  BY DEF store_txn_var
<1> HIDE DEF m
<1> QED BY <1>1 DEF Acting, IsContext

LEMMA NoCases ==
  ASSUME NEW f, NEW c
  PROVE  FirstHitOf(<<>>, f, c) = NoHit(c)
<1> DEFINE cases == <<>>
<1>1. IsList(cases) /\ Len(cases) = 0
  BY DEF IsList
<1> HIDE DEF cases
<1>2. PICK g : Tries(g, cases, f, c)
  BY <1>1, FirstHitSteps
<1> QED BY <1>1, <1>2 DEF cases, Tries

\* What the comparisons leave, whether one was a hit or none.
Hits(r, values, contexts, active, n) ==
  /\ r.cx \in contexts /\ r.cx.active = active
  /\ r.hit \in BOOLEAN
  /\ r.case \in Nat
  /\ r.hit => r.case \in 1 .. n
  /\ ~ r.hit => r.case = 0

LEMMA FirstHit ==
  ASSUME NEW values, NEW contexts, Closed(values, contexts), NEW c \in contexts,
         NEW d \in Directive, d.do = "with", NEW f \in values
  PROVE  Hits(FirstHitOf(d.cases, f, c), values, contexts, c.active, Len(d.cases))
<1> DEFINE n == Len(d.cases)
<1>1. IsList(d.cases)
  BY ProgramAssumption DEF IsDirective, IsList
<1>2. PICK g : Tries(g, d.cases, f, c)
  BY <1>1, FirstHitSteps
<1>3. g[0] = NoHit(c) /\ FirstHitOf(d.cases, f, c) = g[n] /\ \A i \in 1 .. n : g[i] = TryNext(d.cases, f, g[i - 1], i)
  BY <1>2 DEF Tries
<1>4. n \in Nat /\ DOMAIN d.cases = 1 .. n
  BY <1>1 DEF IsList
<1>5. \A k \in 1 .. n, x \in contexts :
        LET h == Compares(d.cases[k].cmp, f, x) IN h.cx \in contexts /\ h.cx.active = x.active /\ h.hit \in BOOLEAN
  BY <1>4 DEF Closed, KeepActive
<1> HIDE DEF n
<1> DEFINE T == {k \in 0 .. n : Hits(g[k], values, contexts, c.active, n)}
<1>6. 0 \in T
  <2>1. Hits(NoHit(c), values, contexts, c.active, n)
    BY DEF NoHit, Hits
  <2> QED BY <1>3, <1>4, <2>1
<1>7. ASSUME NEW k \in 0 .. n - 1, k \in T PROVE k + 1 \in T
  <2>1. k + 1 \in 1 .. n /\ k + 1 - 1 = k /\ k + 1 \in 0 .. n /\ k + 1 \in Nat
    BY <1>4
  <2>2. g[k + 1] = TryNext(d.cases, f, g[k], k + 1)
    BY <1>3, <2>1
  <2>3. Hits(g[k], values, contexts, c.active, n)
    BY <1>7
  <2>4. CASE g[k].hit
    BY <2>1, <2>2, <2>3, <2>4 DEF TryNext
  <2>5. CASE ~ g[k].hit
    <3> DEFINE h == Compares(d.cases[k + 1].cmp, f, g[k].cx)
    <3>1. g[k + 1] = [hit |-> h.hit, cx |-> h.cx, case |-> IF h.hit THEN k + 1 ELSE 0]
      BY <2>2, <2>5 DEF TryNext
    <3>2. h.cx \in contexts /\ h.cx.active = c.active /\ h.hit \in BOOLEAN
      BY <1>5, <2>1, <2>3 DEF Hits
    <3> HIDE DEF h
    <3>3. Hits(g[k + 1], values, contexts, c.active, n)
      BY <2>1, <3>1, <3>2 DEF Hits
    <3> QED BY <2>1, <3>3
  <2> QED BY <2>4, <2>5
<1>8. n \in T
  <2> HIDE DEF T
  <2>1. \A k \in 0 .. n : k \in T
    BY <1>4, <1>6, <1>7, UpTo
  <2> QED BY <1>4, <2>1
<1> QED BY <1>3, <1>8 DEF n

-----------------------------------------------------------------------------
(* What is still to come, from the stack.                                  *)

\* The state of now, as the meaning has it, and what the whole program means.
Now == State(Acting(cx, first), log, terminal)
Goal == Means(program, first, State(NewContext(first), <<>>, FALSE))

\* What a frame makes of the active feature and the state that it is given its turn with.
FinishList(F, a, s) == IF s.stop THEN s ELSE Means(F.todo, a, s)
FinishWith(F, a, s) ==
  CASE F.phase = "do" -> MeansCases(F.d, F.feature, Means(F.d.body, F.feature, s))
    [] F.phase = "each" -> MeansAgain(F.d, LastOf(F.left, a), F.feature, MeansRounds(F.d, Rounds(F.left), s))
    [] F.phase = "cases" -> MeansCases(F.d, F.feature, s)
    [] F.phase = "end" -> Stopping(s, F.case # 0 /\ ~ F.d.continue)
Unwind(F, p) ==
  IF F.kind = "list" THEN <<p[1], FinishList(F, p[1], p[2])>> ELSE <<F.save, FinishWith(F, p[1], p[2])>>

\* The feature that a "with" is for is the active one when its turn comes.
Fits(F, a) ==
  F.kind = "with" =>
    /\ F.phase = "do" => a = F.feature
    /\ F.phase = "cases" => F.d.cases = <<>> \/ a = F.feature
    /\ F.phase = "each" => Is(F.left, "TUPLE") \/ is_nil(F.left)

\* A for-each that never ends: what is left is no tuple, and is itself left again.
Stuck(F) == F.kind = "with" /\ F.phase = "each" /\ ~ Is(F.left, "TUPLE") /\ ~ is_nil(F.left)
Endless(st) == \E i \in 1 .. Len(st) : Stuck(st[i])

\* The frames of a stack make e of p, one after the other.
Links(q, st, p, e) ==
  /\ q[0] = p /\ q[Len(st)] = e
  /\ \A i \in 1 .. Len(st) : q[i] = Unwind(st[i], q[i - 1]) /\ Fits(st[i], q[i - 1][1])
Chain(st, p, e) == \E q : Links(q, st, p, e)

LEMMA ChainEmpty ==
  ASSUME NEW p, NEW e
  PROVE  Chain(<<>>, p, e) <=> p = e
<1> DEFINE st == <<>>
<1>1. Len(st) = 0
  OBVIOUS
<1> HIDE DEF st
<1>2. ASSUME Chain(st, p, e) PROVE p = e
  BY <1>1, <1>2 DEF Chain, Links
<1>3. ASSUME p = e PROVE Chain(st, p, e)
  <2> DEFINE q == [i \in 0 .. 0 |-> p]
  <2>1. Links(q, st, p, e)
    BY <1>1, <1>3 DEF Links
  <2> QED BY <2>1 DEF Chain
<1> QED BY <1>2, <1>3 DEF st

LEMMA ChainPop ==
  ASSUME NEW S, NEW st \in Seq(S), st # <<>>, NEW p, NEW e, Chain(st, p, e)
  PROVE  Fits(Head(st), p[1]) /\ Chain(Tail(st), Unwind(Head(st), p), e)
<1> DEFINE n == Len(st)
           rest == Tail(st)
<1>1. n \in Nat /\ n >= 1 /\ Len(rest) = n - 1 /\ Head(st) = st[1]
  OBVIOUS
<1>2. \A i \in 1 .. n - 1 : rest[i] = st[i + 1]
  OBVIOUS
<1>3. PICK q : Links(q, st, p, e)
  BY DEF Chain
<1>4. q[0] = p /\ q[n] = e /\ \A i \in 1 .. n : q[i] = Unwind(st[i], q[i - 1]) /\ Fits(st[i], q[i - 1][1])
  BY <1>3 DEF Links
<1> HIDE DEF n, rest
<1>5. 1 \in 1 .. n /\ 1 - 1 = 0
  BY <1>1
<1>6. q[1] = Unwind(st[1], p) /\ Fits(st[1], p[1])
  <2>1. q[1] = Unwind(st[1], q[1 - 1]) /\ Fits(st[1], q[1 - 1][1])
    BY <1>4, <1>5
  <2> QED BY <1>4, <1>5, <2>1
<1> DEFINE r == [i \in 0 .. n - 1 |-> q[i + 1]]
<1>7. r[0] = q[1] /\ r[n - 1] = e
  BY <1>1, <1>4
<1>8. ASSUME NEW i \in 1 .. n - 1 PROVE r[i] = Unwind(rest[i], r[i - 1]) /\ Fits(rest[i], r[i - 1][1])
  <2>1. /\ i + 1 \in 1 .. n /\ i + 1 - 1 = i /\ i - 1 + 1 = i /\ i - 1 \in 0 .. n - 1 /\ i \in 0 .. n - 1
    BY <1>1
  <2>2. r[i] = q[i + 1] /\ r[i - 1] = q[i]
    BY <2>1
  <2>3. q[i + 1] = Unwind(st[i + 1], q[i]) /\ Fits(st[i + 1], q[i][1])
    BY <1>4, <2>1
  <2>4. rest[i] = st[i + 1]
    BY <1>2
  <2> QED BY <2>2, <2>3, <2>4
<1> HIDE DEF r
<1>9. Links(r, rest, Unwind(st[1], p), e)
  BY <1>1, <1>6, <1>7, <1>8 DEF Links
<1> QED BY <1>1, <1>6, <1>9 DEF Chain, rest

LEMMA ChainPush ==
  ASSUME NEW S, NEW st \in Seq(S), NEW F \in S, NEW p, NEW e, Fits(F, p[1]), Chain(st, Unwind(F, p), e)
  PROVE  Chain(<<F>> \o st, p, e)
<1> DEFINE n == Len(st)
           more == <<F>> \o st
<1>1. n \in Nat /\ Len(more) = n + 1 /\ more[1] = F
  OBVIOUS
<1>2. \A i \in 1 .. n : more[i + 1] = st[i]
  OBVIOUS
<1>3. PICK q : Links(q, st, Unwind(F, p), e)
  BY DEF Chain
<1>4. q[0] = Unwind(F, p) /\ q[n] = e /\ \A i \in 1 .. n : q[i] = Unwind(st[i], q[i - 1]) /\ Fits(st[i], q[i - 1][1])
  BY <1>3 DEF Links
<1> HIDE DEF n, more
<1> DEFINE r == [i \in 0 .. n + 1 |-> IF i = 0 THEN p ELSE q[i - 1]]
<1>5. r[0] = p /\ r[1] = Unwind(F, p) /\ r[n + 1] = e
  <2>1. 0 \in 0 .. n + 1 /\ 1 \in 0 .. n + 1 /\ n + 1 \in 0 .. n + 1 /\ 1 - 1 = 0 /\ n + 1 - 1 = n /\ n + 1 # 0
    BY <1>1
  <2>2. r[0] = p
    BY <2>1
  <2>3. r[1] = q[0]
    BY <2>1
  <2>4. r[n + 1] = q[n]
    <3> DEFINE m == n + 1
    <3>1. m \in 0 .. n + 1 /\ m # 0 /\ m - 1 = n
      BY <1>1
    <3> HIDE DEF m
    <3>2. r[m] = q[m - 1]
      BY <3>1
    <3> QED BY <3>1, <3>2 DEF m
  <2> HIDE DEF r
  <2> QED BY <1>4, <2>2, <2>3, <2>4
<1>6. ASSUME NEW i \in 1 .. n + 1 PROVE r[i] = Unwind(more[i], r[i - 1]) /\ Fits(more[i], r[i - 1][1])
  <2>1. CASE i = 1
    <3>1. i - 1 = 0
      BY <2>1
    <3> HIDE DEF r
    <3> QED BY <1>1, <1>5, <2>1, <3>1
  <2>2. CASE i # 1
    <3>1. /\ i - 1 \in 1 .. n /\ i - 1 + 1 = i /\ i \in 0 .. n + 1 /\ i - 1 \in 0 .. n + 1 /\ i # 0 /\ i - 1 # 0
      BY <1>1, <2>2
    <3>2. r[i] = q[i - 1] /\ r[i - 1] = q[i - 1 - 1]
      BY <3>1
    <3>3. q[i - 1] = Unwind(st[i - 1], q[i - 1 - 1]) /\ Fits(st[i - 1], q[i - 1 - 1][1])
      BY <1>4, <3>1
    <3>4. more[i] = st[i - 1]
      BY <1>2, <3>1
    <3> QED BY <3>2, <3>3, <3>4
  <2> QED BY <2>1, <2>2
<1> HIDE DEF r
<1>7. Links(r, more, p, e)
  BY <1>1, <1>5, <1>6 DEF Links
<1> QED BY <1>7 DEF Chain, more

\* A stack that has a for-each that never ends has it also below another frame.
LEMMA EndlessPush ==
  ASSUME NEW S, NEW st \in Seq(S), NEW F \in S
  PROVE  Endless(<<F>> \o st) <=> Stuck(F) \/ Endless(st)
<1> DEFINE n == Len(st)
           more == <<F>> \o st
<1>1. n \in Nat /\ Len(more) = n + 1 /\ more[1] = F
  OBVIOUS
<1>2. \A i \in 1 .. n : more[i + 1] = st[i]
  OBVIOUS
<1> HIDE DEF n, more
<1>3. ASSUME Endless(more) PROVE Stuck(F) \/ Endless(st)
  <2>1. PICK i \in 1 .. n + 1 : Stuck(more[i])
    BY <1>1, <1>3 DEF Endless
  <2>2. CASE i = 1
    BY <1>1, <2>1, <2>2
  <2>3. CASE i # 1
    <3>1. i - 1 \in 1 .. n /\ i - 1 + 1 = i
      BY <1>1, <2>3
    <3>2. more[i] = st[i - 1]
      BY <1>2, <3>1
    <3> QED BY <2>1, <3>1, <3>2 DEF Endless, n
  <2> QED BY <2>2, <2>3
<1>4. ASSUME Stuck(F) PROVE Endless(more)
  <2>1. 1 \in 1 .. n + 1
    BY <1>1
  <2> QED BY <1>1, <1>4, <2>1 DEF Endless
<1>5. ASSUME Endless(st) PROVE Endless(more)
  <2>1. PICK i \in 1 .. n : Stuck(st[i])
    BY <1>5 DEF Endless, n
  <2>2. i + 1 \in 1 .. n + 1
    BY <1>1
  <2> QED BY <1>1, <1>2, <2>1, <2>2 DEF Endless
<1> QED BY <1>3, <1>4, <1>5 DEF more

\* The stack and the state are sound if what is still to come gives e.
Sound(st, p, e) == Endless(st) \/ Chain(st, p, e)

LEMMA SoundPop ==
  ASSUME NEW S, NEW st \in Seq(S), st # <<>>, NEW p, NEW e, Sound(st, p, e), ~ Stuck(Head(st))
  PROVE  /\ Sound(Tail(st), Unwind(Head(st), p), e)
         /\ Fits(Head(st), p[1]) \/ Endless(Tail(st))
<1>1. st = <<Head(st)>> \o Tail(st) /\ Head(st) \in S /\ Tail(st) \in Seq(S)
  OBVIOUS
<1>2. CASE Endless(st)
  <2>1. Endless(st) <=> Stuck(Head(st)) \/ Endless(Tail(st))
    BY <1>1, EndlessPush, Zenon
  <2> QED BY <1>2, <2>1 DEF Sound
<1>3. CASE Chain(st, p, e)
  BY <1>3, ChainPop DEF Sound
<1> QED BY <1>2, <1>3 DEF Sound

LEMMA SoundPush ==
  ASSUME NEW S, NEW st \in Seq(S), NEW F \in S, NEW p, NEW e,
         Sound(st, Unwind(F, p), e), Fits(F, p[1]) \/ Stuck(F) \/ Endless(st)
  PROVE  Sound(<<F>> \o st, p, e)
<1>1. Endless(<<F>> \o st) <=> Stuck(F) \/ Endless(st)
  BY EndlessPush
<1>2. CASE Stuck(F) \/ Endless(st)
  BY <1>1, <1>2 DEF Sound
<1>3. CASE Chain(st, Unwind(F, p), e) /\ Fits(F, p[1])
  BY <1>3, ChainPush DEF Sound
<1> QED BY <1>2, <1>3 DEF Sound

-----------------------------------------------------------------------------
(* The invariant.                                                          *)

ListFrames == [kind : {"list"}, todo : Seq(Directive)]
WithFrames(values) ==
  {F \in [kind : {"with"}, d : Directive, feature : values, left : values, rounds : Nat, save : values,
          case : Nat, phase : {"do", "each", "cases", "end"}] : F.d.do = "with"}
Frames(values) == ListFrames \union WithFrames(values)

Typed(values, contexts) ==
  /\ program \in Seq(Directive) /\ first \in Actives
  /\ cx \in contexts /\ terminal \in BOOLEAN
  /\ stack \in Seq(Frames(values))

\* Until the behaviour is undefined, the frames of the stack make of the context, the log
\* and the flag what the program means; or a for-each is among them that never ends.
StackMeans(values, contexts) ==
  cx.how = "ok" => Typed(values, contexts) /\ Sound(stack, <<cx.active, Now>>, <<first, Goal>>)

LEMMA StackMeansNext ==
  ASSUME NEW values, NEW contexts,
         program' = program, first' = first, Typed(values, contexts)',
         Sound(stack', <<cx'.active, State(Acting(cx', first), log', terminal')>>, <<first, Goal>>)
  PROVE  StackMeans(values, contexts)'
<1>1. Now' = State(Acting(cx', first), log', terminal') /\ Goal' = Goal
  BY DEF Now, Goal
<1>2. (Sound(stack, <<cx.active, Now>>, <<first, Goal>>))' <=> Sound(stack', <<cx'.active, Now'>>, <<first', Goal'>>)
  OBVIOUS
<1> QED BY <1>1, <1>2 DEF StackMeans

\* What an expression is in the state of now.
LEMMA NowSeen ==
  ASSUME NEW values, NEW contexts, Closed(values, contexts), cx \in contexts
  PROVE  /\ IsContext(cx)
         /\ Now.cx = Acting(cx, first) /\ Now.log = log /\ Now.stop = terminal
         /\ Seeing(cx.active, Now) = cx
         /\ \A c : Unseen(c, Now) = Acting(c, first)
         /\ \A d \in Directive : SeenAs(d.expr, cx.active, Now) =
              [val |-> ValueOf(d.expr, cx).val, cx |-> Acting(ValueOf(d.expr, cx).cx, first)]
<1>1. IsContext(cx)
  BY DEF Closed
<1>2. Now.cx = Acting(cx, first) /\ Now.log = log /\ Now.stop = terminal
  BY DEF Now, State
<1>3. Seeing(cx.active, Now) = cx
  <2>1. Seeing(cx.active, Now) = Acting(Acting(cx, first), cx.active)
    BY <1>2 DEF Seeing, Acting
  <2> QED BY <1>1, <2>1, Acts
<1>4. \A c : Unseen(c, Now) = Acting(c, first)
  <2>1. Now.cx.active = first
    BY <1>1, <1>2, Acts
  <2> QED BY <2>1 DEF Unseen, Acting
<1>5. ASSUME NEW d \in Directive
      PROVE  SeenAs(d.expr, cx.active, Now) =
               [val |-> ValueOf(d.expr, cx).val, cx |-> Acting(ValueOf(d.expr, cx).cx, first)]
  BY <1>3, <1>4 DEF SeenAs, Given
<1> QED BY <1>1, <1>2, <1>3, <1>4, <1>5

LEMMA CasesAnyStop ==
  ASSUME NEW d, NEW f, NEW s, NEW stop
  PROVE  MeansCases(d, f, Stopping(s, stop)) = MeansCases(d, f, s)
<1> DEFINE t == Stopping(s, stop)
<1>1. t.cx = s.cx /\ t.log = s.log
  BY DEF Stopping, State
<1> HIDE DEF t
<1> QED BY <1>1 DEF MeansCases, Seeing, Unseen, Given, t

\* A "with" has its directives and those of its cases.
LEMMA WithDirective ==
  ASSUME NEW d \in Directive
  PROVE  /\ d.do \in {"use", "var", "with"}
         /\ d.do = "with" =>
              /\ d.body \in Seq(Directive) /\ d.each \in BOOLEAN /\ d.continue \in BOOLEAN
              /\ DOMAIN d.cases = 1 .. Len(d.cases) /\ Len(d.cases) \in Nat
              /\ \A k \in DOMAIN d.cases : d.cases[k].body \in Seq(Directive)
BY ProgramAssumption DEF IsDirective

LEMMA MeansBegin ==
  ASSUME MeansEquation, NEW values, NEW contexts, Closed(values, contexts), Begin
  PROVE  StackMeans(values, contexts)
<1> DEFINE F == ListFrame(program)
           s == State(NewContext(first), <<>>, FALSE)
<1>1. program \in Seq(Directive) /\ first \in Actives /\ cx = NewContext(first) /\ IsContext(cx) /\ cx.active = first
  BY ProgramAssumption DEF Begin
<1>2. cx \in contexts /\ terminal = FALSE /\ log = <<>>
  BY <1>1 DEF Closed, Begin
<1>3. F \in Frames(values) /\ F.kind = "list" /\ F.todo = program
  BY <1>1 DEF ListFrame, Frames, ListFrames
<1>4. stack = <<F>> /\ stack \in Seq(Frames(values)) /\ <<F>> \o <<>> = <<F>> /\ <<>> \in Seq(Frames(values))
  BY <1>3 DEF Begin
<1>5. Now = s
  <2>1. Acting(cx, first) = cx
    BY <1>1, Acts
  <2> QED BY <1>1, <1>2, <2>1 DEF Now
<1>6. Unwind(F, <<first, s>>) = <<first, Goal>>
  <2>1. s.stop = FALSE
    BY DEF State
  <2> QED BY <1>3, <2>1 DEF Unwind, FinishList, Goal
<1>7. Fits(F, first)
  BY <1>3 DEF Fits
<1>8. Sound(<<>>, Unwind(F, <<first, s>>), <<first, Goal>>)
  BY <1>6, ChainEmpty DEF Sound
<1> HIDE DEF F, s
<1>9. Sound(<<F>> \o <<>>, <<first, s>>, <<first, Goal>>)
  BY <1>3, <1>4, <1>7, <1>8, SoundPush
<1> QED BY <1>1, <1>2, <1>4, <1>5, <1>9 DEF StackMeans, Typed

-----------------------------------------------------------------------------
(* One operation after the other keeps the invariant.                      *)

LEMMA AtTop ==
  ASSUME NEW values, NEW contexts, Typed(values, contexts), StackMeans(values, contexts), Running
  PROVE  /\ Top \in Frames(values) /\ Below \in Seq(Frames(values))
         /\ stack = <<Top>> \o Below
         /\ ~ Stuck(Top) => /\ Sound(Below, Unwind(Top, <<cx.active, Now>>), <<first, Goal>>)
                            /\ Fits(Top, cx.active) \/ Endless(Below)
<1>1. stack \in Seq(Frames(values)) /\ stack # <<>>
  BY DEF Typed, Running
<1>2. Top \in Frames(values) /\ Below \in Seq(Frames(values)) /\ stack = <<Top>> \o Below
  BY <1>1 DEF Top, Below
<1>3. Sound(stack, <<cx.active, Now>>, <<first, Goal>>)
  BY DEF StackMeans, Running
<1>4. ASSUME ~ Stuck(Top)
      PROVE  /\ Sound(Below, Unwind(Top, <<cx.active, Now>>), <<first, Goal>>)
             /\ Fits(Top, cx.active) \/ Endless(Below)
  <2> DEFINE p == <<cx.active, Now>>
             e == <<first, Goal>>
  <2>1. p[1] = cx.active
    OBVIOUS
  <2> HIDE DEF p, e
  <2>2. Sound(stack, p, e)
    BY <1>3 DEF p, e
  <2>3. /\ Sound(Below, Unwind(Top, p), e)
        /\ Fits(Top, p[1]) \/ Endless(Below)
    BY <1>1, <1>4, <2>2, SoundPop DEF Top, Below
  <2> QED BY <2>1, <2>3 DEF p, e
<1> QED BY <1>2, <1>4

\* A list that is being invoked has a frame, and means its directives.
LEMMA AtList ==
  ASSUME NEW values, NEW contexts, Typed(values, contexts), StackMeans(values, contexts), Running, Top.kind = "list"
  PROVE  /\ Top = ListFrame(Top.todo) /\ Top.todo \in Seq(Directive)
         /\ Below \in Seq(Frames(values))
         /\ Sound(Below, <<cx.active, FinishList(Top, cx.active, Now)>>, <<first, Goal>>)
<1>1. Top \in ListFrames
  BY AtTop DEF Frames, WithFrames
<1>2. ~ Stuck(Top)
  BY DEF Stuck
<1>3. Unwind(Top, <<cx.active, Now>>) = <<cx.active, FinishList(Top, cx.active, Now)>>
  BY DEF Unwind
<1>4. Sound(Below, Unwind(Top, <<cx.active, Now>>), <<first, Goal>>) /\ Below \in Seq(Frames(values))
  BY <1>2, AtTop
<1>5. Top = ListFrame(Top.todo) /\ Top.todo \in Seq(Directive)
  BY <1>1 DEF ListFrames, ListFrame
<1> QED BY <1>3, <1>4, <1>5

\* A list that gets its turn: it has a frame, and means what is left of it.
LEMMA PushList ==
  ASSUME NEW values, NEW st \in Seq(Frames(values)), NEW ds \in Seq(Directive), NEW a, NEW s, NEW e,
         Sound(st, <<a, IF s.stop THEN s ELSE Means(ds, a, s)>>, e)
  PROVE  /\ Sound(<<ListFrame(ds)>> \o st, <<a, s>>, e)
         /\ ListFrame(ds) \in Frames(values)
         /\ <<ListFrame(ds)>> \o st \in Seq(Frames(values))
<1> DEFINE F == ListFrame(ds)
           S == Frames(values)
<1>1. F \in S /\ F.kind = "list" /\ F.todo = ds
  BY DEF ListFrame, Frames, ListFrames
<1>2. Unwind(F, <<a, s>>) = <<a, IF s.stop THEN s ELSE Means(ds, a, s)>>
  BY <1>1 DEF Unwind, FinishList
<1>3. Fits(F, a)
  BY <1>1 DEF Fits
<1> DEFINE p == <<a, s>>
<1>4. p[1] = a /\ st \in Seq(S)
  OBVIOUS
<1> HIDE DEF F, S, p
<1>5. Sound(st, Unwind(F, p), e)
  BY <1>2 DEF p
<1>6. Sound(<<F>> \o st, p, e)
  BY <1>1, <1>3, <1>4, <1>5, SoundPush
<1>7. <<F>> \o st \in Seq(S)
  BY <1>1, <1>4
<1> QED BY <1>1, <1>6, <1>7 DEF F, S, p

LEMMA MeansListEnd ==
  ASSUME MeansEquation, NEW values, NEW contexts, Closed(values, contexts),
         Typed(values, contexts), StackMeans(values, contexts), ListEnd
  PROVE  StackMeans(values, contexts)'
<1>1. /\ Running /\ Top.kind = "list" /\ (Top.todo = <<>> \/ terminal)
      /\ stack' = Below /\ program' = program /\ first' = first /\ cx' = cx /\ terminal' = terminal /\ log' = log
  BY DEF ListEnd
<1>2. /\ Below \in Seq(Frames(values))
      /\ Sound(Below, <<cx.active, FinishList(Top, cx.active, Now)>>, <<first, Goal>>)
  BY <1>1, AtList
<1>3. FinishList(Top, cx.active, Now) = Now
  <2>1. Now.stop = terminal /\ terminal \in BOOLEAN
    BY DEF Now, State, Typed
  <2>2. CASE terminal
    BY <2>1, <2>2 DEF FinishList
  <2>3. CASE ~ terminal
    <3>1. FinishList(Top, cx.active, Now) = Stopping(Now, FALSE)
      BY <1>1, <2>1, <2>3, MeansNothing DEF FinishList
    <3>2. terminal = FALSE
      BY <2>1, <2>3
    <3> QED BY <3>1, <3>2 DEF Stopping, State, Now
  <2> QED BY <2>2, <2>3
<1>4. Typed(values, contexts)'
  BY <1>1, <1>2 DEF Typed
<1>5. Sound(stack', <<cx'.active, State(Acting(cx', first), log', terminal')>>, <<first, Goal>>)
  BY <1>1, <1>2, <1>3 DEF Now
<1> QED BY <1>1, <1>4, <1>5, StackMeansNext

\* A list goes on after its first directive, with what that means.
LEMMA NextDirective ==
  ASSUME MeansEquation, NEW values, NEW contexts, Closed(values, contexts),
         Typed(values, contexts), StackMeans(values, contexts), NEW kind, AtDirective(kind)
  PROVE  LET t == MeansOne(Next1, cx.active, Now)
         IN /\ Next1 \in Directive /\ Next1.do = kind
            /\ Tail(Top.todo) \in Seq(Directive)
            /\ Rest = <<ListFrame(Tail(Top.todo))>> \o Below
            /\ Below \in Seq(Frames(values))
            /\ Now.stop = FALSE /\ terminal = FALSE
            /\ Sound(Rest, <<cx.active, t>>, <<first, Goal>>) /\ Rest \in Seq(Frames(values))
<1> DEFINE t == MeansOne(Next1, cx.active, Now)
           ds == Top.todo
<1>1. Running /\ Top.kind = "list" /\ ds # <<>> /\ ~ terminal /\ Next1.do = kind
  BY DEF AtDirective
<1>2. /\ Top = ListFrame(ds) /\ ds \in Seq(Directive)
      /\ Below \in Seq(Frames(values))
      /\ Sound(Below, <<cx.active, FinishList(Top, cx.active, Now)>>, <<first, Goal>>)
  BY <1>1, AtList
<1>3. terminal = FALSE /\ Now.stop = FALSE /\ Stopping(Now, FALSE) = Now
  BY <1>1 DEF Typed, Now, State, Stopping
<1>4. Next1 = Head(ds) /\ Next1 \in Directive /\ Tail(ds) \in Seq(Directive)
  BY <1>1, <1>2 DEF Next1
<1> HIDE DEF ds
<1>5. FinishList(Top, cx.active, Now) = IF t.stop THEN t ELSE Means(Tail(ds), cx.active, t)
  <2>1. FinishList(Top, cx.active, Now) = Means(ds, cx.active, Now)
    BY <1>3 DEF FinishList, ds
  <2>2. Means(ds, cx.active, Now) = LET u == MeansOne(Head(ds), cx.active, Stopping(Now, FALSE))
                                    IN IF u.stop THEN u ELSE Means(Tail(ds), cx.active, u)
    BY <1>1, <1>2, MeansNext
  <2> QED BY <1>3, <1>4, <2>1, <2>2
<1>6. Rest = <<ListFrame(Tail(ds))>> \o Below
  <2>1. [Top EXCEPT !.todo = Tail(Top.todo)] = ListFrame(Tail(ds))
    <3>1. \A x, y : [ListFrame(x) EXCEPT !.todo = y] = ListFrame(y)
      BY DEF ListFrame
    <3>2. Top = ListFrame(ds) /\ Top.todo = ds
      BY <1>2 DEF ds
    <3> HIDE DEF ds
    <3> QED BY <3>1, <3>2, Zenon
  <2> QED BY <2>1 DEF Rest
<1> HIDE DEF t
<1>7. Sound(Rest, <<cx.active, t>>, <<first, Goal>>) /\ Rest \in Seq(Frames(values))
  BY <1>2, <1>4, <1>5, <1>6, PushList
<1> QED BY <1>1, <1>2, <1>3, <1>4, <1>6, <1>7 DEF t, ds

LEMMA MeansDo_use ==
  ASSUME MeansEquation, NEW values, NEW contexts, Closed(values, contexts),
         Typed(values, contexts), StackMeans(values, contexts), Do_use
  PROVE  StackMeans(values, contexts)'
<1> DEFINE e == ValueOf(Next1.expr, cx)
           t == MeansOne(Next1, cx.active, Now)
<1>1. /\ AtDirective("use") /\ stack' = Rest /\ program' = program /\ first' = first /\ terminal' = terminal
      /\ cx' = e.cx /\ log' = Append(log, <<Next1.name, e.val>>)
  BY DEF Do_use
<1>2. /\ Next1 \in Directive /\ Next1.do = "use" /\ terminal = FALSE
      /\ Sound(Rest, <<cx.active, t>>, <<first, Goal>>) /\ Rest \in Seq(Frames(values))
  BY <1>1, NextDirective
<1>3. e.val \in values /\ e.cx \in contexts /\ e.cx.active = cx.active
  BY <1>2, Extracted DEF Typed
<1>4. t = State(Acting(e.cx, first), Append(log, <<Next1.name, e.val>>), FALSE)
  <2> DEFINE E == SeenAs(Next1.expr, cx.active, Now)
  <2>1. E = [val |-> e.val, cx |-> Acting(e.cx, first)] /\ Now.log = log
    BY <1>2, NowSeen DEF Typed
  <2>2. t = MeansUse(Next1, E, Now)
    BY <1>2 DEF MeansOne, Given
  <2> HIDE DEF E, e, t
  <2> QED BY <2>1, <2>2 DEF MeansUse
<1> HIDE DEF e, t
<1>5. Typed(values, contexts)'
  BY <1>1, <1>2, <1>3 DEF Typed
<1>6. Sound(stack', <<cx'.active, State(Acting(cx', first), log', terminal')>>, <<first, Goal>>)
  BY <1>1, <1>2, <1>3, <1>4
<1> QED BY <1>1, <1>5, <1>6, StackMeansNext

LEMMA MeansDo_var ==
  ASSUME MeansEquation, NEW values, NEW contexts, Closed(values, contexts),
         Typed(values, contexts), StackMeans(values, contexts), Do_var
  PROVE  StackMeans(values, contexts)'
<1> DEFINE e == ValueOf(Next1.expr, cx)
           t == MeansOne(Next1, cx.active, Now)
<1>1. /\ AtDirective("var") /\ stack' = Rest /\ program' = program /\ first' = first /\ terminal' = terminal
      /\ cx' = store_txn_var(e.cx, Next1.name, e.val) /\ log' = log
  BY DEF Do_var
<1>2. /\ Next1 \in Directive /\ Next1.do = "var" /\ terminal = FALSE
      /\ Sound(Rest, <<cx.active, t>>, <<first, Goal>>) /\ Rest \in Seq(Frames(values))
  BY <1>1, NextDirective
<1>3. e.val \in values /\ e.cx \in contexts /\ e.cx.active = cx.active
  BY <1>2, Extracted DEF Typed
<1>4. IsContext(e.cx) /\ cx' \in contexts
  BY <1>1, <1>2, <1>3 DEF Closed
<1>5. t = State(Acting(cx', first), log, FALSE)
  <2> DEFINE E == SeenAs(Next1.expr, cx.active, Now)
  <2>1. E = [val |-> e.val, cx |-> Acting(e.cx, first)] /\ Now.log = log
    BY <1>2, NowSeen DEF Typed
  <2>2. t = MeansVar(Next1, E, Now)
    BY <1>2 DEF MeansOne, Given
  <2> HIDE DEF E, e, t
  <2>3. t = State(store_txn_var(Acting(e.cx, first), Next1.name, e.val), log, FALSE)
    BY <2>1, <2>2 DEF MeansVar
  <2>4. store_txn_var(Acting(e.cx, first), Next1.name, e.val) = Acting(store_txn_var(e.cx, Next1.name, e.val), first)
    BY <1>4, ActsInVar
  <2>5. cx' = store_txn_var(e.cx, Next1.name, e.val)
    BY <1>1
  <2> QED BY <2>3, <2>4, <2>5
<1>6. cx'.active = cx.active
  BY <1>1, <1>3, <1>4, ActsInVar
<1> HIDE DEF e, t
<1>7. Typed(values, contexts)'
  BY <1>1, <1>2, <1>4 DEF Typed
<1>8. Sound(stack', <<cx'.active, State(Acting(cx', first), log', terminal')>>, <<first, Goal>>)
  BY <1>1, <1>2, <1>5, <1>6
<1> QED BY <1>1, <1>7, <1>8, StackMeansNext

\* The frame of a "with" as it is, and as it gets its turn.
LEMMA AtWithTop ==
  ASSUME NEW values, NEW contexts, Typed(values, contexts), StackMeans(values, contexts), NEW phase, AtWith(phase)
  PROVE  /\ Top \in WithFrames(values) /\ Top.phase = phase
         /\ Top.d \in Directive /\ Top.d.do = "with"
         /\ Top.feature \in values /\ Top.left \in values /\ Top.save \in values /\ Top.rounds \in Nat
         /\ Below \in Seq(Frames(values))
         /\ ~ Stuck(Top) => /\ Sound(Below, <<Top.save, FinishWith(Top, cx.active, Now)>>, <<first, Goal>>)
                            /\ Fits(Top, cx.active) \/ Endless(Below)
<1>1. Running /\ Top.kind = "with" /\ Top.phase = phase
  BY DEF AtWith
<1>2. Top \in WithFrames(values)
  BY <1>1, AtTop DEF Frames, ListFrames
<1>3. /\ Top.d \in Directive /\ Top.d.do = "with"
      /\ Top.feature \in values /\ Top.left \in values /\ Top.save \in values /\ Top.rounds \in Nat
  BY <1>2 DEF WithFrames
<1>4. Unwind(Top, <<cx.active, Now>>) = <<Top.save, FinishWith(Top, cx.active, Now)>>
  BY <1>1 DEF Unwind
<1> QED BY <1>1, <1>2, <1>3, <1>4, AtTop

LEMMA PushWith ==
  ASSUME NEW values, NEW st \in Seq(Frames(values)), NEW F \in WithFrames(values), NEW a, NEW s, NEW e,
         Sound(st, <<F.save, FinishWith(F, a, s)>>, e), Fits(F, a) \/ Stuck(F) \/ Endless(st)
  PROVE  Sound(<<F>> \o st, <<a, s>>, e) /\ <<F>> \o st \in Seq(Frames(values))
<1> DEFINE S == Frames(values)
           p == <<a, s>>
<1>1. F \in S /\ F.kind = "with"
  BY DEF Frames, WithFrames
<1>2. Unwind(F, p) = <<F.save, FinishWith(F, a, s)>>
  BY <1>1 DEF Unwind
<1>3. p[1] = a /\ st \in Seq(S)
  OBVIOUS
<1> HIDE DEF S, p
<1>4. Sound(<<F>> \o st, p, e)
  BY <1>1, <1>2, <1>3, SoundPush
<1>5. <<F>> \o st \in Seq(S)
  BY <1>1, <1>3
<1> QED BY <1>4, <1>5 DEF S, p

LEMMA MeansWithStart ==
  ASSUME MeansEquation, NEW values, NEW contexts, Closed(values, contexts),
         Typed(values, contexts), StackMeans(values, contexts), WithStart
  PROVE  StackMeans(values, contexts)'
<1> DEFINE e == ValueOf(Next1.expr, cx)
           t == MeansOne(Next1, cx.active, Now)
           s == State(Acting(e.cx, first), log, FALSE)
           F == WithFrame(Next1, e.val)
<1>1. /\ AtDirective("with") /\ stack' = <<F>> \o Rest /\ program' = program /\ first' = first
      /\ terminal' = terminal /\ cx' = Acting(e.cx, e.val) /\ log' = log
  BY DEF WithStart, Acting
<1>2. /\ Next1 \in Directive /\ Next1.do = "with" /\ terminal = FALSE
      /\ Sound(Rest, <<cx.active, t>>, <<first, Goal>>) /\ Rest \in Seq(Frames(values))
  BY <1>1, NextDirective
<1>3. e.val \in values /\ e.cx \in contexts /\ e.cx.active = cx.active /\ cx.active \in values
  <2>1. cx \in contexts
    BY DEF Typed
  <2>2. cx.active \in values
    BY <2>1 DEF Closed
  <2> QED BY <1>2, <2>1, <2>2, Extracted
<1>4. IsContext(e.cx) /\ cx' \in contexts
  BY <1>1, <1>3 DEF Closed, Acting
<1>5. cx'.active = e.val /\ Acting(cx', first) = Acting(e.cx, first)
  BY <1>1, <1>4, Acts
<1>6. t = MeansWith(Next1, [val |-> e.val, cx |-> Acting(e.cx, first)], Now) /\ Now.log = log
  <2>1. SeenAs(Next1.expr, cx.active, Now) = [val |-> e.val, cx |-> Acting(e.cx, first)] /\ Now.log = log
    BY <1>2, NowSeen DEF Typed
  <2> HIDE DEF e
  <2> QED BY <1>2, <2>1 DEF MeansOne, Given
<1> HIDE DEF e
<1>7. /\ F \in WithFrames(values) /\ F.save = cx.active /\ F.d = Next1 /\ F.feature = e.val /\ F.left = e.val
      /\ F.phase = IF Next1.body = <<>> THEN "cases" ELSE IF Next1.each THEN "each" ELSE "do"
  BY <1>2, <1>3 DEF WithFrame, WithFrames
<1> HIDE DEF F
<1>8. t = FinishWith(F, e.val, s)
  <2>1. t = IF Next1.body = <<>> THEN MeansCases(Next1, e.val, s)
            ELSE IF Next1.each
            THEN MeansAgain(Next1, LastOf(e.val, e.val), e.val, MeansRounds(Next1, Rounds(e.val), s))
            ELSE MeansCases(Next1, e.val, Means(Next1.body, e.val, s))
    BY <1>6 DEF MeansWith, Given
  <2> HIDE DEF s, t
  <2>2. CASE Next1.body = <<>>
    BY <1>7, <2>1, <2>2 DEF FinishWith
  <2>3. CASE Next1.body # <<>> /\ Next1.each
    BY <1>7, <2>1, <2>3 DEF FinishWith
  <2>4. CASE Next1.body # <<>> /\ ~ Next1.each
    BY <1>7, <2>1, <2>4 DEF FinishWith
  <2> QED BY <2>2, <2>3, <2>4
<1>9. Fits(F, e.val) \/ Stuck(F)
  <2>1. F.kind = "with"
    BY <1>7 DEF WithFrames
  <2> QED BY <1>7, <2>1 DEF Fits, Stuck
<1> HIDE DEF s, t
<1>10. Sound(<<F>> \o Rest, <<e.val, s>>, <<first, Goal>>) /\ <<F>> \o Rest \in Seq(Frames(values))
  BY <1>2, <1>7, <1>8, <1>9, PushWith
<1>11. Typed(values, contexts)'
  BY <1>1, <1>2, <1>4, <1>10 DEF Typed
<1>12. Sound(stack', <<cx'.active, State(Acting(cx', first), log', terminal')>>, <<first, Goal>>)
  BY <1>1, <1>2, <1>5, <1>10 DEF s
<1> QED BY <1>1, <1>11, <1>12, StackMeansNext

LEMMA MeansWithDo ==
  ASSUME MeansEquation, NEW values, NEW contexts, Closed(values, contexts),
         Typed(values, contexts), StackMeans(values, contexts), WithDo
  PROVE  StackMeans(values, contexts)'
<1> DEFINE F == [Top EXCEPT !.phase = "cases"]
           body == Top.d.body
           a == cx.active
           s == Stopping(Now, FALSE)
<1>1. /\ AtWith("do") /\ terminal' = FALSE /\ stack' = <<ListFrame(body), F>> \o Below
      /\ program' = program /\ first' = first /\ cx' = cx /\ log' = log
  BY DEF WithDo
<1>2. /\ Top \in WithFrames(values) /\ Top.phase = "do" /\ Top.kind = "with"
      /\ Top.d \in Directive /\ Top.d.do = "with"
      /\ Below \in Seq(Frames(values))
  BY <1>1, AtWithTop DEF AtWith
<1>3. /\ Sound(Below, <<Top.save, FinishWith(Top, a, Now)>>, <<first, Goal>>)
      /\ a = Top.feature \/ Endless(Below)
  <2>1. ~ Stuck(Top)
    BY <1>2 DEF Stuck
  <2> QED BY <1>1, <1>2, <2>1, AtWithTop DEF Fits
<1>4. F \in WithFrames(values) /\ F.phase = "cases" /\ F.d = Top.d /\ F.feature = Top.feature /\ F.save = Top.save
  BY <1>2 DEF WithFrames
<1>5. body \in Seq(Directive)
  BY <1>2, WithDirective
<1> HIDE DEF F, body, a, s
<1>6. Sound(<<F>> \o Below, <<a, Means(body, a, s)>>, <<first, Goal>>) /\ <<F>> \o Below \in Seq(Frames(values))
  <2>1. CASE Endless(Below)
    <3>1. Sound(Below, <<F.save, FinishWith(F, a, Means(body, a, s))>>, <<first, Goal>>)
      BY <2>1 DEF Sound
    <3> QED BY <1>2, <1>4, <2>1, <3>1, PushWith
  <2>2. CASE a = Top.feature
    <3>1. FinishWith(Top, a, Now) = MeansCases(Top.d, a, Means(body, a, Now))
      BY <1>2, <2>2 DEF FinishWith, body
    <3>2. FinishWith(F, a, Means(body, a, s)) = MeansCases(Top.d, a, Means(body, a, s))
      BY <1>4, <2>2 DEF FinishWith
    <3>3. Means(body, a, s) = Means(body, a, Now)
      BY <1>5, MeansAnyStop DEF s
    <3>4. Fits(F, a)
      BY <1>4, <2>2 DEF Fits
    <3>5. FinishWith(F, a, Means(body, a, s)) = FinishWith(Top, a, Now)
      BY <3>1, <3>2, <3>3
    <3> QED BY <1>2, <1>3, <1>4, <3>4, <3>5, PushWith
  <2> QED BY <1>3, <2>1, <2>2
<1>7. s.stop = FALSE /\ s = State(Acting(cx, first), log, FALSE)
  BY DEF s, Stopping, State, Now
<1>8. stack' = <<ListFrame(body)>> \o (<<F>> \o Below) /\ ListFrame(body) \in Frames(values) /\ F \in Frames(values)
  <2>1. ListFrame(body) \in Frames(values) /\ F \in Frames(values)
    BY <1>4, <1>5 DEF Frames, ListFrames, ListFrame
  <2> QED BY <1>1, <1>2, <2>1
<1>9. Sound(stack', <<a, s>>, <<first, Goal>>) /\ stack' \in Seq(Frames(values))
  BY <1>5, <1>6, <1>7, <1>8, PushList
<1>10. Typed(values, contexts)'
  BY <1>1, <1>9 DEF Typed
<1>11. Sound(stack', <<cx'.active, State(Acting(cx', first), log', terminal')>>, <<first, Goal>>)
  BY <1>1, <1>7, <1>9 DEF a
<1> QED BY <1>1, <1>10, <1>11, StackMeansNext

LEMMA OneOrMore ==
  ASSUME NEW S, NEW fs \in Seq(S), fs # <<>>
  PROVE  /\ Len(fs) = 1 => Tail(fs) = <<>> /\ fs[Len(fs)] = Head(fs)
         /\ Len(fs) # 1 => Tail(fs) # <<>> /\ Tail(fs)[Len(Tail(fs))] = fs[Len(fs)]
<1> DEFINE n == Len(fs)
<1>1. n \in Nat /\ n >= 1 /\ Tail(fs) \in Seq(S) /\ Len(Tail(fs)) = n - 1 /\ Head(fs) = fs[1]
  OBVIOUS
<1>2. \A i \in 1 .. n - 1 : Tail(fs)[i] = fs[i + 1]
  OBVIOUS
<1>3. ASSUME n = 1 PROVE Tail(fs) = <<>>
  <2>1. Len(Tail(fs)) = 0
    BY <1>1, <1>3
  <2> QED BY <1>1, <2>1, EmptySeq
<1>4. ASSUME n # 1 PROVE Tail(fs) # <<>> /\ Tail(fs)[n - 1] = fs[n]
  <2>1. n - 1 \in 1 .. n - 1 /\ n - 1 + 1 = n /\ n - 1 # 0
    BY <1>1, <1>4
  <2>2. Tail(fs) # <<>>
    BY <1>1, <2>1
  <2>3. Tail(fs)[n - 1] = fs[n - 1 + 1]
    BY <1>2, <2>1
  <2> QED BY <2>1, <2>2, <2>3
<1> QED BY <1>1, <1>3, <1>4

LEMMA MeansWithEach ==
  ASSUME MeansEquation, NEW values, NEW contexts, Closed(values, contexts),
         Typed(values, contexts), StackMeans(values, contexts), WithEach
  PROVE  StackMeans(values, contexts)'
<1> DEFINE left == Top.left
           F == [Top EXCEPT !.left = cdr(Top.left), !.rounds = @ + 1]
           body == Top.d.body
           a == car(left)
           s == State(Acting(cx, first), log, FALSE)
<1>1. /\ AtWith("each") /\ ~ is_nil(left) /\ program' = program /\ first' = first /\ log' = log
      /\ left = Tup(<<>>) => cx' = [cx EXCEPT !.how = "undefined"]
      /\ left # Tup(<<>>) => /\ cx' = Acting(cx, a) /\ terminal' = FALSE
                             /\ stack' = <<ListFrame(body), F>> \o Below
  BY DEF WithEach, Acting
<1>2. /\ Top \in WithFrames(values) /\ Top.phase = "each" /\ Top.kind = "with"
      /\ Top.d \in Directive /\ Top.d.do = "with"
      /\ left \in values /\ Top.rounds \in Nat
      /\ Below \in Seq(Frames(values))
  BY <1>1, AtWithTop DEF AtWith
<1>3. cx \in contexts /\ IsContext(cx) /\ terminal \in BOOLEAN
  BY DEF Typed, Closed
<1>4. CASE left = Tup(<<>>)
  <2>1. cx'.how # "ok"
    BY <1>1, <1>3, <1>4 DEF IsContext
  <2> QED BY <2>1 DEF StackMeans
<1>5. CASE left # Tup(<<>>)
  <2>1. body \in Seq(Directive)
    BY <1>2, WithDirective
  <2>2. Is(left, "TUPLE") =>
          /\ left = Tup(Val(left)) /\ Val(left) \in Seq(values) /\ Val(left) # <<>>
          /\ Tup(Tail(Val(left))) \in values /\ a = Head(Val(left))
    <3>1. Is(left, "TUPLE") =>
            left = Tup(Val(left)) /\ Val(left) \in Seq(values) /\ (Val(left) # <<>> => Tup(Tail(Val(left))) \in values)
      BY <1>2 DEF Closed
    <3>2. Is(left, "TUPLE") => Val(left) # <<>> /\ a = Head(Val(left))
      BY <1>5, <3>1 DEF car
    <3> QED BY <3>1, <3>2
  <2>3. NIL_FEATURE \in values
    BY DEF Closed
  <2>4. cdr(left) \in values /\ a \in values
    <3>1. CASE Is(left, "TUPLE")
      BY <2>2, <2>3, <3>1 DEF cdr
    <3>2. CASE ~ Is(left, "TUPLE")
      BY <1>2, <3>2 DEF cdr, car
    <3> QED BY <3>1, <3>2
  <2>5. /\ F \in WithFrames(values) /\ F.phase = "each" /\ F.kind = "with" /\ F.d = Top.d
        /\ F.feature = Top.feature /\ F.save = Top.save /\ F.left = cdr(left)
    <3> DEFINE x == cdr(left)
    <3>1. x \in values
      BY <2>4
    <3> HIDE DEF x
    <3>2. F = [Top EXCEPT !.left = x, !.rounds = @ + 1]
      BY DEF x, left
    <3> HIDE DEF F
    <3>3. F \in WithFrames(values)
      <4> DEFINE more == Top.rounds + 1
      <4>1. more \in Nat
        BY <1>2
      <4> HIDE DEF more
      <4>2. F = [Top EXCEPT !.left = x, !.rounds = more]
        BY <3>2 DEF more
      <4> QED BY <1>2, <3>1, <4>1, <4>2 DEF WithFrames
    <3>4. /\ F.phase = Top.phase /\ F.kind = Top.kind /\ F.d = Top.d
          /\ F.feature = Top.feature /\ F.save = Top.save /\ F.left = x
      BY <1>2, <3>2 DEF WithFrames
    <3> QED BY <1>2, <3>3, <3>4 DEF x
  <2>6. cx' \in contexts /\ cx'.active = a /\ Acting(cx', first) = Acting(cx, first)
    <3>1. cx' = Acting(cx, a)
      BY <1>1, <1>5
    <3>2. Acting(cx, a) \in contexts
      BY <1>3, <2>4 DEF Closed, Acting
    <3> QED BY <1>3, <3>1, <3>2, Acts
  <2>7. s = Stopping(Now, FALSE) /\ s.stop = FALSE
    BY DEF Now, Stopping, State
  <2>8. Now = s \/ Now = Stopping(s, TRUE)
    BY <1>3 DEF Now, Stopping, State
  <2>9. FinishWith(Top, cx.active, Now) =
          MeansAgain(Top.d, LastOf(left, cx.active), Top.feature, MeansRounds(Top.d, Rounds(left), Now))
    BY <1>2 DEF FinishWith
  <2> HIDE DEF left, F, body, a, s
  <2>10. Sound(<<F>> \o Below, <<a, Means(body, a, s)>>, <<first, Goal>>) /\ <<F>> \o Below \in Seq(Frames(values))
    <3> DEFINE t == Means(body, a, s)
    <3>1. CASE Endless(Below)
      <4>1. Sound(Below, <<F.save, FinishWith(F, a, t)>>, <<first, Goal>>)
        BY <3>1 DEF Sound
      <4> QED BY <1>2, <2>5, <3>1, <4>1, PushWith
    <3>2. CASE ~ Is(left, "TUPLE")
      <4>1. Stuck(F) /\ Stuck(Top)
        BY <1>1, <1>2, <2>5, <3>2 DEF Stuck, cdr, left
      <4>2. Endless(<<F>> \o Below)
        <5>1. F \in Frames(values)
          BY <2>5 DEF Frames
        <5> QED BY <1>2, <4>1, <5>1, EndlessPush
      <4>3. <<F>> \o Below \in Seq(Frames(values))
        BY <1>2, <2>5 DEF Frames
      <4> QED BY <4>2, <4>3 DEF Sound
    <3>3. CASE Is(left, "TUPLE")
      <4> DEFINE fs == Val(left)
      <4>1. fs \in Seq(values) /\ fs # <<>> /\ a = Head(fs) /\ left = Tup(fs)
        BY <2>2, <3>3
      <4>2. Rounds(left) = fs
        BY <1>1, <3>3 DEF Rounds, Items
      <4> HIDE DEF fs
      <4>3. Rounds(cdr(left)) = Tail(fs) /\ (Is(cdr(left), "TUPLE") \/ is_nil(cdr(left)))
        <5>1. CASE Len(fs) = 1
          <6>1. cdr(left) = NIL_FEATURE
            BY <3>3, <5>1 DEF cdr, fs
          <6>2. is_nil(NIL_FEATURE)
            BY DEF is_nil, Is, Type, NIL_FEATURE
          <6>3. Tail(fs) = <<>>
            BY <4>1, <5>1, OneOrMore
          <6> QED BY <6>1, <6>2, <6>3 DEF Rounds
        <5>2. CASE Len(fs) # 1
          <6>1. cdr(left) = Tup(Tail(fs))
            BY <3>3, <5>2 DEF cdr, fs
          <6>2. Is(cdr(left), "TUPLE") /\ Val(cdr(left)) = Tail(fs) /\ ~ is_nil(cdr(left))
            BY <6>1 DEF Tup, Is, Type, Val, is_nil
          <6> QED BY <6>2 DEF Rounds, Items
        <5> QED BY <5>1, <5>2
      <4>4. MeansRounds(Top.d, fs, Now) = MeansRounds(Top.d, Tail(fs), t)
        <5>1. Means(body, a, Stopping(s, TRUE)) = t
          BY <2>1, MeansAnyStop
        <5>2. Means(body, a, Now) = t
          BY <2>8, <5>1
        <5> QED BY <4>1, <5>2, RoundsNext DEF body
      <4>5. LastOf(left, cx.active) = LastOf(cdr(left), a)
        <5>1. LastOf(left, cx.active) = fs[Len(fs)]
          BY <4>1, <4>2 DEF LastOf
        <5>2. CASE Len(fs) = 1
          <6>1. Tail(fs) = <<>> /\ fs[Len(fs)] = a
            BY <4>1, <5>2, OneOrMore
          <6> QED BY <4>3, <5>1, <6>1 DEF LastOf
        <5>3. CASE Len(fs) # 1
          <6>1. Tail(fs) # <<>> /\ Tail(fs)[Len(Tail(fs))] = fs[Len(fs)]
            BY <4>1, <5>3, OneOrMore
          <6> QED BY <4>3, <5>1, <6>1 DEF LastOf
        <5> QED BY <5>2, <5>3
      <4>6. FinishWith(F, a, t) = FinishWith(Top, cx.active, Now)
        <5>1. FinishWith(F, a, t) = MeansAgain(F.d, LastOf(F.left, a), F.feature, MeansRounds(F.d, Rounds(F.left), t))
          BY <2>5 DEF FinishWith
        <5> HIDE DEF t
        <5> QED BY <2>5, <2>9, <4>2, <4>3, <4>4, <4>5, <5>1
      <4>7. ~ Stuck(Top) /\ Fits(F, a)
        BY <2>5, <3>3, <4>3 DEF Stuck, Fits, left
      <4>8. Sound(Below, <<F.save, FinishWith(F, a, t)>>, <<first, Goal>>)
        BY <1>1, <2>5, <4>6, <4>7, AtWithTop
      <4> QED BY <1>2, <2>5, <4>7, <4>8, PushWith
    <3> QED BY <3>2, <3>3
  <2>11. stack' = <<ListFrame(body)>> \o (<<F>> \o Below) /\ ListFrame(body) \in Frames(values) /\ F \in Frames(values)
    <3>1. ListFrame(body) \in Frames(values) /\ F \in Frames(values)
      BY <2>1, <2>5 DEF Frames, ListFrames, ListFrame
    <3> QED BY <1>1, <1>2, <1>5, <3>1
  <2>12. Sound(stack', <<a, s>>, <<first, Goal>>) /\ stack' \in Seq(Frames(values))
    BY <2>1, <2>7, <2>10, <2>11, PushList
  <2>13. Typed(values, contexts)'
    BY <1>1, <1>5, <2>6, <2>12 DEF Typed
  <2>14. Sound(stack', <<cx'.active, State(Acting(cx', first), log', terminal')>>, <<first, Goal>>)
    BY <1>1, <1>5, <2>6, <2>12 DEF s
  <2> QED BY <1>1, <2>13, <2>14, StackMeansNext
<1> QED BY <1>4, <1>5

LEMMA MeansWithEnd ==
  ASSUME MeansEquation, NEW values, NEW contexts, Closed(values, contexts),
         Typed(values, contexts), StackMeans(values, contexts), WithEnd
  PROVE  StackMeans(values, contexts)'
<1> DEFINE stop == Top.case # 0 /\ ~ Top.d.continue
<1>1. /\ AtWith("end") /\ terminal' = stop /\ cx' = Acting(cx, Top.save) /\ stack' = Below
      /\ program' = program /\ first' = first /\ log' = log
  BY DEF WithEnd, Acting
<1>2. /\ Top.phase = "end" /\ Top.save \in values /\ Below \in Seq(Frames(values))
  BY <1>1, AtWithTop
<1>3. Sound(Below, <<Top.save, FinishWith(Top, cx.active, Now)>>, <<first, Goal>>)
  <2>1. ~ Stuck(Top)
    BY <1>2 DEF Stuck
  <2> QED BY <1>1, <2>1, AtWithTop
<1>4. FinishWith(Top, cx.active, Now) = Stopping(Now, stop)
  BY <1>2 DEF FinishWith
<1>5. stop \in BOOLEAN
  OBVIOUS
<1> HIDE DEF stop
<1>6. cx' \in contexts /\ cx'.active = Top.save /\ Acting(cx', first) = Acting(cx, first)
  <2>1. cx \in contexts /\ IsContext(cx)
    BY DEF Typed, Closed
  <2>2. Acting(cx, Top.save) \in contexts
    BY <1>2, <2>1 DEF Closed, Acting
  <2> QED BY <1>1, <2>1, <2>2, Acts
<1>7. Stopping(Now, stop) = State(Acting(cx, first), log, stop)
  BY DEF Stopping, Now, State
<1>8. Typed(values, contexts)'
  BY <1>1, <1>2, <1>5, <1>6 DEF Typed
<1>9. Sound(stack', <<cx'.active, State(Acting(cx', first), log', terminal')>>, <<first, Goal>>)
  BY <1>1, <1>3, <1>4, <1>6, <1>7
<1> QED BY <1>1, <1>8, <1>9, StackMeansNext

LEMMA MeansWithEachEnd ==
  ASSUME MeansEquation, NEW values, NEW contexts, Closed(values, contexts),
         Typed(values, contexts), StackMeans(values, contexts), WithEachEnd
  PROVE  StackMeans(values, contexts)'
<1> DEFINE e == ValueOf(Top.d.expr, cx)
           none == Top.d.cases = <<>>
           F == IF none THEN [Top EXCEPT !.phase = "cases"] ELSE [Top EXCEPT !.phase = "cases", !.feature = e.val]
           a == IF none THEN cx.active ELSE e.val
           s == IF none THEN Now ELSE State(Acting(e.cx, first), log, terminal)
<1>1. /\ AtWith("each") /\ is_nil(Top.left) /\ program' = program /\ first' = first /\ log' = log
      /\ terminal' = terminal /\ cx' = (IF none THEN cx ELSE Acting(e.cx, e.val)) /\ stack' = <<F>> \o Below
  BY DEF WithEachEnd, Acting
<1>2. /\ Top \in WithFrames(values) /\ Top.phase = "each" /\ Top.kind = "with"
      /\ Top.d \in Directive /\ Top.d.do = "with"
      /\ Below \in Seq(Frames(values))
  BY <1>1, AtWithTop DEF AtWith
<1>3. cx \in contexts /\ terminal \in BOOLEAN
  BY DEF Typed
<1>4. Sound(Below, <<Top.save, FinishWith(Top, cx.active, Now)>>, <<first, Goal>>)
  <2>1. ~ Stuck(Top)
    BY <1>1 DEF Stuck
  <2> QED BY <1>1, <2>1, AtWithTop
<1>5. FinishWith(Top, cx.active, Now) = MeansAgain(Top.d, cx.active, Top.feature, Now)
  <2>1. Rounds(Top.left) = <<>>
    BY <1>1 DEF Rounds
  <2>2. LastOf(Top.left, cx.active) = cx.active
    BY <2>1 DEF LastOf
  <2>3. MeansRounds(Top.d, <<>>, Now) = Now
    BY RoundsNone
  <2>4. FinishWith(Top, cx.active, Now) =
          MeansAgain(Top.d, LastOf(Top.left, cx.active), Top.feature, MeansRounds(Top.d, Rounds(Top.left), Now))
    BY <1>2 DEF FinishWith
  <2> QED BY <2>1, <2>2, <2>3, <2>4
<1>6. e.val \in values /\ e.cx \in contexts
  BY <1>2, <1>3, Extracted
<1>7. SeenAs(Top.d.expr, cx.active, Now) = [val |-> e.val, cx |-> Acting(e.cx, first)] /\ Now.log = log
  BY <1>2, <1>3, NowSeen
<1> HIDE DEF e
<1>8. /\ F \in WithFrames(values) /\ F.phase = "cases" /\ F.d = Top.d /\ F.save = Top.save
      /\ F.feature = IF none THEN Top.feature ELSE e.val
  <2>1. CASE none
    BY <1>2, <2>1 DEF WithFrames
  <2>2. CASE ~ none
    BY <1>2, <1>6, <2>2 DEF WithFrames
  <2> QED BY <2>1, <2>2
<1> HIDE DEF F
<1>9. FinishWith(F, a, s) = FinishWith(Top, cx.active, Now)
  <2>0. FinishWith(F, a, s) = MeansCases(Top.d, F.feature, s)
    BY <1>8 DEF FinishWith
  <2>1. CASE none
    <3>1. MeansAgain(Top.d, cx.active, Top.feature, Now) = MeansCases(Top.d, Top.feature, Now)
      BY <2>1 DEF MeansAgain
    <3> QED BY <1>5, <1>8, <2>0, <2>1, <3>1
  <2>2. CASE ~ none
    <3>1. MeansAgain(Top.d, cx.active, Top.feature, Now) =
            MeansCases(Top.d, e.val, State(Acting(e.cx, first), log, FALSE))
      <4> DEFINE again == SeenAs(Top.d.expr, cx.active, Now)
                 t(v) == MeansCases(Top.d, v.val, State(v.cx, Now.log, FALSE))
      <4>1. MeansAgain(Top.d, cx.active, Top.feature, Now) = t(again)
        BY <2>2 DEF MeansAgain, Given
      <4>2. again.val = e.val /\ again.cx = Acting(e.cx, first)
        BY <1>7
      <4> HIDE DEF again
      <4> QED BY <1>7, <4>1, <4>2
    <3>2. State(Acting(e.cx, first), log, FALSE) = Stopping(s, FALSE)
      BY <2>2 DEF Stopping, State
    <3>3. MeansCases(Top.d, e.val, Stopping(s, FALSE)) = MeansCases(Top.d, e.val, s)
      BY CasesAnyStop
    <3>4. F.feature = e.val
      BY <1>8, <2>2
    <3> HIDE DEF s, a, none
    <3> QED BY <1>5, <2>0, <3>1, <3>2, <3>3, <3>4
  <2> QED BY <2>1, <2>2
<1>10. Fits(F, a)
  BY <1>8 DEF Fits
<1>11. cx' \in contexts /\ cx'.active = a /\ s = State(Acting(cx', first), log, terminal)
  <2>1. CASE none
    BY <1>1, <1>3, <2>1 DEF Now
  <2>2. CASE ~ none
    <3>1. cx' = Acting(e.cx, e.val) /\ a = e.val /\ s = State(Acting(e.cx, first), log, terminal)
      BY <1>1, <2>2
    <3>2. IsContext(e.cx) /\ Acting(e.cx, e.val) \in contexts
      BY <1>6 DEF Closed, Acting
    <3>3. Acting(e.cx, e.val).active = e.val /\ Acting(Acting(e.cx, e.val), first) = Acting(e.cx, first)
      BY <3>2, Acts
    <3> HIDE DEF s, a, none
    <3> QED BY <3>1, <3>2, <3>3
  <2> QED BY <2>1, <2>2
<1> HIDE DEF a, s
<1>12. Sound(stack', <<a, s>>, <<first, Goal>>) /\ stack' \in Seq(Frames(values))
  BY <1>1, <1>2, <1>4, <1>8, <1>9, <1>10, PushWith
<1>13. Typed(values, contexts)'
  BY <1>1, <1>3, <1>11, <1>12 DEF Typed
<1>14. Sound(stack', <<cx'.active, State(Acting(cx', first), log', terminal')>>, <<first, Goal>>)
  BY <1>1, <1>11, <1>12
<1> QED BY <1>1, <1>13, <1>14, StackMeansNext

LEMMA MeansWithCases ==
  ASSUME MeansEquation, NEW values, NEW contexts, Closed(values, contexts),
         Typed(values, contexts), StackMeans(values, contexts), WithCases
  PROVE  StackMeans(values, contexts)'
<1> DEFINE r == FirstHitOf(Top.d.cases, Top.feature, cx)
           F == [Top EXCEPT !.phase = "end", !.case = r.case]
           body == Top.d.cases[r.case].body
           a == cx.active
           s == State(Acting(r.cx, first), log, FALSE)
           after == IF r.hit THEN Means(body, a, s) ELSE s
<1>1. /\ AtWith("cases") /\ terminal' = FALSE /\ cx' = r.cx /\ program' = program /\ first' = first /\ log' = log
      /\ stack' = (IF r.hit THEN <<ListFrame(body)>> ELSE <<>>) \o <<F>> \o Below
  BY DEF WithCases
<1>2. /\ Top \in WithFrames(values) /\ Top.phase = "cases" /\ Top.kind = "with"
      /\ Top.d \in Directive /\ Top.d.do = "with" /\ Top.feature \in values
      /\ Below \in Seq(Frames(values))
  BY <1>1, AtWithTop DEF AtWith
<1>3. cx \in contexts /\ IsContext(cx)
  BY DEF Typed, Closed
<1>4. /\ Sound(Below, <<Top.save, FinishWith(Top, a, Now)>>, <<first, Goal>>)
      /\ Top.d.cases = <<>> \/ a = Top.feature \/ Endless(Below)
  <2>1. ~ Stuck(Top)
    BY <1>2 DEF Stuck
  <2> QED BY <1>1, <1>2, <2>1, AtWithTop DEF Fits
<1>5. /\ r.cx \in contexts /\ r.cx.active = a /\ r.hit \in BOOLEAN /\ r.case \in Nat
      /\ r.hit => r.case \in 1 .. Len(Top.d.cases) /\ r.case # 0
      /\ ~ r.hit => r.case = 0
  <2>1. Hits(r, values, contexts, a, Len(Top.d.cases))
    BY <1>2, <1>3, FirstHit
  <2> HIDE DEF r
  <2> QED BY <2>1 DEF Hits
<1>6. r.hit => body \in Seq(Directive) /\ Top.d.cases # <<>>
  <2>1. /\ DOMAIN Top.d.cases = 1 .. Len(Top.d.cases)
        /\ \A k \in DOMAIN Top.d.cases : Top.d.cases[k].body \in Seq(Directive)
    BY <1>2, WithDirective
  <2>2. Top.d.cases = <<>> => ~ (r.case \in 1 .. Len(Top.d.cases))
    OBVIOUS
  <2> HIDE DEF r
  <2> QED BY <1>5, <2>1, <2>2
<1>7. /\ F \in WithFrames(values) /\ F.phase = "end" /\ F.kind = "with" /\ F.d = Top.d /\ F.save = Top.save
      /\ F.case = r.case
  <2> HIDE DEF r
  <2> QED BY <1>2, <1>5 DEF WithFrames
<1>8. Top.d.cases = <<>> \/ a = Top.feature =>
        FinishWith(Top, a, Now) = Stopping(after, r.hit /\ ~ Top.d.continue)
  <2> DEFINE q == FirstHitOf(Top.d.cases, Top.feature, Seeing(Top.feature, Now))
             x == State(Unseen(q.cx, Now), Now.log, FALSE)
  <2>1. FinishWith(Top, a, Now) = MeansCases(Top.d, Top.feature, Now)
    BY <1>2 DEF FinishWith
  <2>2. MeansCases(Top.d, Top.feature, Now) =
          Stopping(IF q.hit THEN Means(Top.d.cases[q.case].body, Top.feature, x) ELSE x, q.hit /\ ~ Top.d.continue)
    <3> DEFINE end(v, w) == Stopping(IF v.hit THEN Means(Top.d.cases[v.case].body, Top.feature, w) ELSE w,
                                     v.hit /\ ~ Top.d.continue)
    <3>1. MeansCases(Top.d, Top.feature, Now) = end(q, x)
      BY DEF MeansCases, Given
    <3> QED BY <3>1
  <2>3. /\ Seeing(a, Now) = cx /\ Now.log = log /\ Now.cx = Acting(cx, first)
        /\ \A c : Unseen(c, Now) = Acting(c, first)
    BY <1>3, NowSeen
  <2>4. CASE a = Top.feature
    <3>1. q = r
      BY <2>3, <2>4
    <3> HIDE DEF q, r
    <3>2. x = s
      BY <2>3, <3>1
    <3> HIDE DEF x, s
    <3> QED BY <2>1, <2>2, <2>4, <3>1, <3>2
  <2>5. CASE Top.d.cases = <<>>
    <3>1. q = NoHit(Seeing(Top.feature, Now)) /\ r = NoHit(cx)
      BY <2>5, NoCases
    <3>2. q.hit = FALSE /\ r.hit = FALSE /\ q.cx = Seeing(Top.feature, Now) /\ r.cx = cx
      BY <3>1 DEF NoHit
    <3>3. Unseen(q.cx, Now) = Acting(cx, first)
      <4>1. Unseen(q.cx, Now) = Acting(Acting(Acting(cx, first), Top.feature), first)
        <5>1. Seeing(Top.feature, Now) = Acting(Now.cx, Top.feature)
          BY DEF Seeing, Acting
        <5>2. Unseen(q.cx, Now) = Acting(q.cx, first)
          BY <2>3
        <5> HIDE DEF q
        <5> QED BY <2>3, <3>2, <5>1, <5>2
      <4> QED BY <1>3, <4>1, Acts
    <3> HIDE DEF q, r
    <3>4. x = s
      BY <2>3, <3>2, <3>3
    <3> HIDE DEF x, s
    <3> QED BY <2>1, <2>2, <3>2, <3>4
  <2> QED BY <2>4, <2>5
<1>9. s.stop = FALSE
  BY DEF State
<1>10. cx'.active = a /\ s = State(Acting(cx', first), log', terminal')
  BY <1>1, <1>5
<1> HIDE DEF r, F, a, s
<1>11. Sound(<<F>> \o Below, <<a, after>>, <<first, Goal>>) /\ <<F>> \o Below \in Seq(Frames(values))
  <2>1. Fits(F, a)
    BY <1>7 DEF Fits
  <2>2. Sound(Below, <<F.save, FinishWith(F, a, after)>>, <<first, Goal>>)
    <3>1. CASE Endless(Below)
      BY <3>1 DEF Sound
    <3>2. CASE Top.d.cases = <<>> \/ a = Top.feature
      <4>1. FinishWith(F, a, after) = Stopping(after, r.hit /\ ~ Top.d.continue)
        <5>1. FinishWith(F, a, after) = Stopping(after, r.case # 0 /\ ~ Top.d.continue)
          BY <1>7 DEF FinishWith
        <5>2. r.case # 0 <=> r.hit
          BY <1>5
        <5>3. (r.case # 0) = r.hit
          BY <1>5, <5>2
        <5> QED BY <5>1, <5>3
      <4> QED BY <1>4, <1>7, <1>8, <3>2, <4>1
    <3> QED BY <1>4, <3>1, <3>2
  <2> HIDE DEF after
  <2> QED BY <1>2, <1>7, <2>1, <2>2, PushWith
<1>12. Sound(stack', <<a, s>>, <<first, Goal>>) /\ stack' \in Seq(Frames(values))
  <2>1. CASE r.hit
    <3>1. ListFrame(body) \in Frames(values) /\ F \in Frames(values)
      BY <1>6, <1>7, <2>1 DEF Frames, ListFrames, ListFrame
    <3>2. stack' = <<ListFrame(body)>> \o (<<F>> \o Below)
      <4>1. stack' = <<ListFrame(body)>> \o <<F>> \o Below
        BY <1>1, <2>1
      <4> QED BY <1>2, <3>1, <4>1
    <3>3. Sound(<<F>> \o Below, <<a, IF s.stop THEN s ELSE Means(body, a, s)>>, <<first, Goal>>)
      BY <1>9, <1>11, <2>1
    <3> QED BY <1>6, <1>11, <2>1, <3>2, <3>3, PushList
  <2>2. CASE ~ r.hit
    <3>1. F \in Frames(values)
      BY <1>7 DEF Frames
    <3>2. stack' = <<F>> \o Below
      <4>1. stack' = <<>> \o <<F>> \o Below
        BY <1>1, <2>2
      <4> QED BY <1>2, <3>1, <4>1
    <3> QED BY <1>11, <2>2, <3>2
  <2> QED BY <2>1, <2>2
<1>13. Typed(values, contexts)'
  BY <1>1, <1>5, <1>12 DEF Typed
<1> QED BY <1>1, <1>10, <1>12, <1>13, StackMeansNext

\* The invariant holds at every state.
LEMMA StackMeansAlways ==
  ASSUME MeansEquation, NEW values, NEW contexts, Closed(values, contexts)
  PROVE  Invocation => []StackMeans(values, contexts)
<1>1. Begin => StackMeans(values, contexts)
  BY MeansBegin
<1>2. ASSUME StackMeans(values, contexts), [Invoke]_invoking PROVE StackMeans(values, contexts)'
  <2>1. CASE Invoke
    <3>1. Running
      BY <2>1 DEF Invoke, ListEnd, Do_use, Do_var, WithStart, WithDo, WithEach, WithEachEnd, WithCases, WithEnd,
                  AtDirective, AtWith
    <3>2. Typed(values, contexts)
      BY <1>2, <3>1 DEF StackMeans, Running
    <3> QED BY <1>2, <2>1, <3>2, MeansListEnd, MeansDo_use, MeansDo_var, MeansWithStart, MeansWithDo, MeansWithEach,
               MeansWithEachEnd, MeansWithCases, MeansWithEnd DEF Invoke
  <2>2. CASE UNCHANGED invoking
    <3>1. /\ program' = program /\ first' = first /\ cx' = cx /\ terminal' = terminal /\ stack' = stack /\ log' = log
      BY <2>2 DEF invoking
    <3>2. Now' = Now /\ Goal' = Goal
      BY <3>1 DEF Now, Goal
    <3> QED BY <1>2, <3>1, <3>2 DEF StackMeans, Typed
  <2> QED BY <1>2, <2>1, <2>2
<1> QED BY <1>1, <1>2, PTL DEF Invocation

\* However "with" is nested, and whatever expressions and comparisons there are: if these
\* leave the active feature as it is, the one active feature and the one terminal flag of
\* Do_with::invoke give every directive the feature of the "with" it is written in, end a
\* list only at a "with" of its own that compared, and leave the feature of before.
THEOREM DirectivesAsWritten ==
  ASSUME MeansEquation, NEW values, NEW contexts, Closed(values, contexts)
  PROVE  Invocation => []AsWritten
<1>1. Invocation => []StackMeans(values, contexts)
  BY StackMeansAlways
<1>2. StackMeans(values, contexts) => AsWritten
  <2> SUFFICES ASSUME StackMeans(values, contexts), stack = <<>>, cx.how = "ok"
               PROVE  log = Goal.log /\ cx.active = first
    BY DEF AsWritten, Goal
  <2>1. Sound(<<>>, <<cx.active, Now>>, <<first, Goal>>)
    BY DEF StackMeans
  <2>2. ~ Endless(<<>>)
    BY DEF Endless
  <2>3. <<cx.active, Now>> = <<first, Goal>>
    BY <2>1, <2>2, ChainEmpty DEF Sound
  <2>4. Now = Goal /\ cx.active = first
    BY <2>3
  <2>5. Now.log = log
    BY DEF Now, State
  <2> QED BY <2>4, <2>5
<1> QED BY <1>1, <1>2, PTL

-----------------------------------------------------------------------------
(* The text that a comparison found and the rest.                          *)

LEMMA MinMax ==
  ASSUME NEW m \in Int, NEW n \in Int
  PROVE  Min({m, n}) = (IF m <= n THEN m ELSE n) /\ Max({m, n}) = (IF m >= n THEN m ELSE n)
<1>1. \E x \in {m, n} : \A y \in {m, n} : x <= y
  OBVIOUS
<1>2. \E x \in {m, n} : \A y \in {m, n} : x >= y
  OBVIOUS
<1>3. Min({m, n}) \in {m, n} /\ \A y \in {m, n} : Min({m, n}) <= y
  BY <1>1 DEF Min
<1>4. Max({m, n}) \in {m, n} /\ \A y \in {m, n} : Max({m, n}) >= y
  BY <1>2 DEF Max
<1> QED BY <1>3, <1>4

\* A text is cut in two.
LEMMA Cut ==
  ASSUME NEW S, NEW text \in Seq(S), NEW n \in 0 .. Len(text)
  PROVE  /\ Beginning(text, n) \o Without(text, n) = text
         /\ Beginning(text, Len(text) - n) \o Ending(text, n) = text
         /\ Len(Ending(text, n)) = n
         /\ Beginning(text, n) \in Seq(S) /\ Without(text, n) \in Seq(S)
         /\ Beginning(text, Len(text) - n) \in Seq(S) /\ Ending(text, n) \in Seq(S)
<1> DEFINE m == Len(text)
<1>1. m \in Nat /\ n \in Int /\ m \in Int /\ 0 \in Int /\ m - n \in Int /\ n <= m /\ 0 <= n
  OBVIOUS
<1>2. Min({n, m}) = n /\ Min({m - n, m}) = m - n /\ Max({0, m - n}) = m - n
  <2> DEFINE k == m - n
  <2>1. k \in Int /\ k <= m /\ 0 <= k
    BY <1>1
  <2> HIDE DEF k, m
  <2>2. Min({n, m}) = n
    BY <1>1, MinMax
  <2>3. Min({k, m}) = k
    BY <1>1, <2>1, MinMax
  <2>4. Max({0, k}) = k
    <3>1. Max({0, k}) = IF 0 >= k THEN 0 ELSE k
      BY <1>1, <2>1, MinMax
    <3> QED BY <2>1, <3>1
  <2> QED BY <2>2, <2>3, <2>4 DEF k
<1>3. \A k \in 0 .. m : SubSeq(text, 1, k) \o SubSeq(text, k + 1, m) = text
  <2> TAKE k \in 0 .. m
  <2>1. 1 \in 1 .. Len(text) + 1 /\ k \in 1 - 1 .. Len(text) /\ m \in k .. Len(text)
    BY <1>1
  <2>2. SubSeq(text, 1, k) \o SubSeq(text, k + 1, m) = SubSeq(text, 1, m)
    BY <2>1, ConcatAdjacentSubSeq
  <2> QED BY <2>2, SubSeqFull
<1>4. n \in 0 .. m /\ m - n \in 0 .. m
  BY <1>1
<1>5. /\ Beginning(text, n) = SubSeq(text, 1, n) /\ Without(text, n) = SubSeq(text, n + 1, m)
      /\ Beginning(text, m - n) = SubSeq(text, 1, m - n) /\ Ending(text, n) = SubSeq(text, m - n + 1, m)
  BY <1>2 DEF Beginning, Without, Ending
<1>6. Len(Ending(text, n)) = n
  <2>1. Len(SubSeq(text, m - n + 1, m)) = n
    BY <1>1
  <2> QED BY <1>5, <2>1
<1>7. /\ SubSeq(text, 1, n) \in Seq(S) /\ SubSeq(text, n + 1, m) \in Seq(S)
      /\ SubSeq(text, 1, m - n) \in Seq(S) /\ SubSeq(text, m - n + 1, m) \in Seq(S)
  BY <1>1, SubSeqProperties
<1> QED BY <1>3, <1>4, <1>5, <1>6, <1>7

\* A context that has captures.
HasCaptures(c) ==
  /\ c = [x \in DOMAIN c |-> c[x]] /\ {"src", "ovec", "remainder"} \subseteq DOMAIN c
  /\ \E S : c.ovec \in Seq(S)

\* The group that directives get of a literal capture.
GroupOf(capture) == SubSeq(capture, 1, LiteralEnd(capture))

LEMMA Captured ==
  ASSUME NEW c, HasCaptures(c), NEW S, NEW capture \in Seq(S), NEW rest
  PROVE  LET r == LiteralHit(c, capture, rest)
         IN r.hit /\ active_group(r.cx, 0) = GroupOf(capture) /\ r.cx.remainder = rest
<1> DEFINE end == LiteralEnd(capture)
           whole == <<0, end>>
           others == IF c.ovec = <<>> THEN <<>> ELSE Tail(c.ovec)
           pairs == <<whole>> \o others
           b == [c EXCEPT !.src = capture, !.ovec = pairs]
<1>1. end \in Nat /\ end <= Len(capture) /\ Len(capture) \in Nat
  <2>1. capture # <<>> => Len(capture) # 0
    OBVIOUS
  <2> QED BY <2>1 DEF LiteralEnd
<1>2. Len(pairs) \in Nat /\ Len(pairs) >= 1 /\ pairs[1] = whole
  <2>1. PICK V : c.ovec \in Seq(V)
    BY DEF HasCaptures
  <2> DEFINE W == V \union {whole}
  <2>2. others \in Seq(V)
    BY <2>1
  <2>3. others \in Seq(W) /\ whole \in W
    <3>1. V \subseteq W /\ whole \in W
      OBVIOUS
    <3> HIDE DEF W, others, whole
    <3> QED BY <2>2, <3>1
  <2> HIDE DEF W, others, whole
  <2> QED BY <2>3
<1>3. whole[1] = 0 /\ whole[2] = end /\ whole # <<>>
  OBVIOUS
<1>4. set_literal_capture(c, capture) = b
  BY DEF set_literal_capture
<1> HIDE DEF pairs, whole, end
<1>5. LiteralHit(c, capture, rest) = [hit |-> TRUE, cx |-> [b EXCEPT !.remainder = rest]]
  BY <1>4 DEF LiteralHit, Hit
<1> DEFINE d == [b EXCEPT !.remainder = rest]
<1>6. d.src = capture /\ d.remainder = rest /\ d.ovec = pairs
  BY DEF HasCaptures
<1> HIDE DEF d
<1>7. active_group(d, 0) = GroupOf(capture)
  <2>1. Min({end, Len(capture)}) = end
    BY <1>1, MinMax
  <2>2. ~ (0 >= Len(pairs)) /\ 0 + 1 = 1
    BY <1>2
  <2>3. active_group(d, 0) = SubSeq(capture, whole[1] + 1, Min({whole[2], Len(capture)}))
    BY <1>2, <1>3, <1>6, <2>2 DEF active_group
  <2>4. active_group(d, 0) = SubSeq(capture, 0 + 1, Min({end, Len(capture)}))
    BY <1>3, <2>3
  <2>5. 0 + 1 = 1
    OBVIOUS
  <2>6. active_group(d, 0) = SubSeq(capture, 1, end)
    BY ONLY <2>1, <2>4, <2>5, Zenon
  <2> QED BY <2>6 DEF GroupOf, end
<1> DEFINE r == LiteralHit(c, capture, rest)
<1>8. r.hit /\ r.cx = d
  BY <1>5 DEF d
<1> HIDE DEF r
<1>9. r.hit /\ active_group(r.cx, 0) = GroupOf(capture) /\ r.cx.remainder = rest
  BY <1>6, <1>7, <1>8
<1> QED BY <1>9 DEF r

\* What was found is the group and one token more, the last, if anything was found.
LEMMA GroupLacks ==
  ASSUME NEW S, NEW capture \in Seq(S)
  PROVE  LET g == GroupOf(capture)
             lost == IF capture = <<>> THEN <<>> ELSE <<capture[Len(capture)]>>
         IN g \in Seq(S) /\ lost \in Seq(S) /\ g \o lost = capture /\ (lost = <<>> => g = <<>>)
<1> DEFINE g == GroupOf(capture)
           lost == IF capture = <<>> THEN <<>> ELSE <<capture[Len(capture)]>>
           n == Len(capture)
<1>1. CASE capture = <<>>
  BY <1>1 DEF GroupOf, LiteralEnd
<1>2. CASE capture # <<>>
  <2>1. n \in Nat /\ n # 0 /\ n - 1 \in Nat
    BY <1>2
  <2>2. g = SubSeq(capture, 1, n - 1) /\ lost = <<capture[n]>>
    BY <1>2 DEF GroupOf, LiteralEnd
  <2>3. SubSeq(capture, n, n) = <<capture[n]>>
    <3> DEFINE q == SubSeq(capture, n, n)
    <3>1. n \in Int /\ \A i \in n .. n : capture[i] \in S
      BY <2>1
    <3>2. q \in Seq(S) /\ Len(q) = IF n <= n THEN n - n + 1 ELSE 0
      BY <3>1, SubSeqProperties
    <3>3. \A i \in 1 .. n - n + 1 : q[i] = capture[n + i - 1]
      BY <3>1, SubSeqProperties
    <3> HIDE DEF q
    <3>4. Len(q) = 1 /\ q[1] = capture[n]
      BY <2>1, <3>2, <3>3
    <3>5. q = <<capture[n]>>
      BY <3>2, <3>4
    <3> QED BY <3>5 DEF q
  <2>4. SubSeq(capture, 1, n - 1) \o SubSeq(capture, n - 1 + 1, n) = SubSeq(capture, 1, n)
    <3>1. 1 \in 1 .. n + 1 /\ n - 1 \in 1 - 1 .. n /\ n \in n - 1 .. n
      BY <2>1
    <3> QED BY <3>1, ConcatAdjacentSubSeq
  <2>5. n - 1 + 1 = n /\ SubSeq(capture, 1, n) = capture
    BY <2>1, SubSeqFull
  <2>6. g \o lost = capture
    BY <2>2, <2>3, <2>4, <2>5
  <2>7. g \in Seq(S) /\ lost \in Seq(S) /\ lost # <<>>
    BY <2>1, <2>2
  <2> HIDE DEF g, lost
  <2>8. g \in Seq(S) /\ lost \in Seq(S) /\ g \o lost = capture /\ (lost = <<>> => g = <<>>)
    BY <2>6, <2>7
  <2> QED BY <2>8 DEF g, lost
<1> QED BY <1>1, <1>2

\* A text that is what was found and the rest, in either order, can be taken apart.
LEMMA FoundAndRest ==
  ASSUME NEW S, NEW capture \in Seq(S), NEW rest \in Seq(S), NEW key, NEW active,
         active = IF key \in {"suffix", "tld"} THEN rest \o capture ELSE capture \o rest
  PROVE  TakenApart(key, active, GroupOf(capture), rest)
<1> DEFINE g == GroupOf(capture)
           lost == IF capture = <<>> THEN <<>> ELSE <<capture[Len(capture)]>>
<1>1. g \in Seq(S) /\ lost \in Seq(S) /\ g \o lost = capture /\ (lost = <<>> => g = <<>>)
  BY GroupLacks
<1>2. active = PutTogether(key, g, lost, rest)
  <2> HIDE DEF g, lost
  <2>1. g \in Seq(S) /\ lost \in Seq(S) /\ rest \in Seq(S)
    BY <1>1
  <2>2. rest \o (g \o lost) = (rest \o g) \o lost
    BY ONLY <2>1, ConcatAssociative
  <2> QED BY <1>1, <2>2 DEF PutTogether
<1>3. lost \in {<<>>} \union {<<active[i]>> : i \in DOMAIN active}
  <2>1. CASE capture = <<>>
    BY <2>1
  <2>2. CASE capture # <<>>
    <3> DEFINE n == Len(capture)
               k == Len(rest)
    <3>1. n \in Nat /\ n # 0 /\ n \in 1 .. n /\ k \in Nat
      BY <2>2
    <3>2. CASE key \in {"suffix", "tld"}
      <4>1. k + n \in DOMAIN active /\ active[k + n] = capture[n]
        BY <3>1, <3>2
      <4> QED BY <2>2, <4>1
    <3>3. CASE key \notin {"suffix", "tld"}
      <4>1. n \in DOMAIN active /\ active[n] = capture[n]
        BY <3>1, <3>3
      <4> QED BY <2>2, <4>1
    <3> QED BY <3>2, <3>3
  <2> QED BY <2>1, <2>2
<1> HIDE DEF lost
<1> QED BY <1>1, <1>2, <1>3 DEF TakenApart

\* Whichever comparison of texts it is, if it hits, the text that was compared is group 0,
\* one token that is in neither, and the remainder, in their order.
THEOREM TextSplits ==
  ASSUME NEW S, NEW text \in Seq(S), NEW active \in Seq(S), NEW key \in TextKeys \ {"contains"}, NEW nc,
         NEW c, HasCaptures(c), TextCmp(key, nc, text, active, c).hit
  PROVE  LET r == TextCmp(key, nc, text, active, c)
         IN TakenApart(key, active, active_group(r.cx, 0), r.cx.remainder)
<1> DEFINE r == TextCmp(key, nc, text, active, c)
           n == Len(text)
           m == Len(active)
<1> SUFFICES TakenApart(key, active, active_group(r.cx, 0), r.cx.remainder)
  OBVIOUS
<1>1. n \in Nat /\ m \in Nat
  OBVIOUS
<1>2. ~ Miss(c).hit
  BY DEF Miss
<1>3. ASSUME NEW capture \in Seq(S), NEW rest \in Seq(S), r = LiteralHit(c, capture, rest),
             active = IF key \in {"suffix", "tld"} THEN rest \o capture ELSE capture \o rest
      PROVE  TakenApart(key, active, active_group(r.cx, 0), r.cx.remainder)
  <2>1. active_group(r.cx, 0) = GroupOf(capture) /\ r.cx.remainder = rest
    <3> HIDE DEF r
    <3> QED BY <1>3, Captured
  <2>2. TakenApart(key, active, GroupOf(capture), rest)
    BY <1>3, FoundAndRest
  <2> HIDE DEF r
  <2> QED BY <2>1, <2>2
<1>4. CASE key \in {"match", "path"}
  <2>1. r = LiteralHit(c, active, <<>>)
    <3>1. CASE key = "match"
      <4>1. r = IF Same(nc, text, active) THEN LiteralHit(c, active, <<>>) ELSE Miss(c)
        BY <3>1 DEF TextCmp, Cmp_Match
      <4> QED BY <1>2, <4>1
    <3>2. CASE key = "path"
      <4> DEFINE target == IF nc THEN text ELSE RTrimSlash(text)
      <4>1. r = IF StartsWith(nc, active, target) /\ Without(active, Len(target)) \in {<<>>, <<"/">>}
                THEN LiteralHit(c, active, <<>>) ELSE Miss(c)
        BY <3>2 DEF TextCmp, Cmp_Path
      <4> HIDE DEF target
      <4> QED BY <1>2, <4>1
    <3> QED BY <1>4, <3>1, <3>2
  <2>2. <<>> \in Seq(S) /\ active \o <<>> = active /\ key \notin {"suffix", "tld"}
    BY <1>4
  <2> HIDE DEF r
  <2> QED BY <1>3, <2>1, <2>2
<1>5. CASE key = "prefix"
  <2>1. r = IF StartsWith(nc, active, text) THEN LiteralHit(c, Beginning(active, n), Without(active, n)) ELSE Miss(c)
    BY <1>5 DEF TextCmp, Cmp_Prefix
  <2>2. r = LiteralHit(c, Beginning(active, n), Without(active, n)) /\ n <= m
    BY <1>2, <2>1 DEF StartsWith
  <2>3. /\ Beginning(active, n) \o Without(active, n) = active
        /\ Beginning(active, n) \in Seq(S) /\ Without(active, n) \in Seq(S)
    <3>1. n \in 0 .. Len(active)
      BY <1>1, <2>2
    <3> HIDE DEF n, m, r
    <3>2. /\ Beginning(active, n) \o Without(active, n) = active
          /\ Beginning(active, Len(active) - n) \o Ending(active, n) = active
          /\ Beginning(active, n) \in Seq(S) /\ Without(active, n) \in Seq(S)
          /\ Beginning(active, Len(active) - n) \in Seq(S) /\ Ending(active, n) \in Seq(S)
      BY <3>1, Cut
    <3> QED BY <3>2 DEF m
  <2> HIDE DEF r
  <2> QED BY <1>3, <1>5, <2>2, <2>3
<1>6. CASE key = "suffix"
  <2>1. r = IF EndsIn(nc, active, text) THEN LiteralHit(c, Ending(active, n), Beginning(active, m - n)) ELSE Miss(c)
    BY <1>6 DEF TextCmp, Cmp_Suffix
  <2>2. r = LiteralHit(c, Ending(active, n), Beginning(active, m - n)) /\ n <= m
    BY <1>2, <2>1 DEF EndsIn
  <2>3. /\ Beginning(active, m - n) \o Ending(active, n) = active
        /\ Beginning(active, m - n) \in Seq(S) /\ Ending(active, n) \in Seq(S)
    <3>1. n \in 0 .. Len(active)
      BY <1>1, <2>2
    <3> HIDE DEF n, m, r
    <3>2. /\ Beginning(active, n) \o Without(active, n) = active
          /\ Beginning(active, Len(active) - n) \o Ending(active, n) = active
          /\ Beginning(active, n) \in Seq(S) /\ Without(active, n) \in Seq(S)
          /\ Beginning(active, Len(active) - n) \in Seq(S) /\ Ending(active, n) \in Seq(S)
      BY <3>1, Cut
    <3> QED BY <3>2 DEF m
  <2> HIDE DEF r
  <2> QED BY <1>3, <1>6, <2>2, <2>3
<1>7. CASE key = "tld"
  <2> DEFINE capture == Ending(active, n + 1)
             rest == Beginning(active, m - Len(capture))
             dotted == n = m \/ active[m - n] = "."
  <2>1. r = IF EndsIn(nc, active, text) /\ dotted THEN LiteralHit(c, capture, rest) ELSE Miss(c)
    BY <1>7 DEF TextCmp, Cmp_TLD
  <2>2. r = LiteralHit(c, capture, rest) /\ n <= m
    BY <1>2, <2>1 DEF EndsIn
  <2>3. rest \o capture = active /\ rest \in Seq(S) /\ capture \in Seq(S)
    <3>1. CASE n < m
      <4>1. n + 1 \in 0 .. m
        BY <1>1, <3>1
      <4> QED BY <4>1, Cut
    <3>2. CASE n = m
      <4>1. m \in Int /\ 0 \in Int /\ m - (n + 1) \in Int /\ m - (n + 1) < 0 /\ m - m = 0
        BY <1>1, <3>2
      <4>2. Max({0, m - (n + 1)}) = 0 /\ Max({0, m - m}) = 0
        <5> DEFINE k == m - (n + 1)
                   j == m - m
        <5>1. k \in Int /\ k < 0 /\ j \in Int /\ j = 0 /\ 0 \in Int
          BY <4>1
        <5> HIDE DEF k, j
        <5>2. Max({0, k}) = IF 0 >= k THEN 0 ELSE k
          BY <5>1, MinMax
        <5>3. Max({0, j}) = IF 0 >= j THEN 0 ELSE j
          BY <5>1, MinMax
        <5> QED BY <5>1, <5>2, <5>3 DEF k, j
      <4>3. Ending(active, n + 1) = Ending(active, m)
        BY <4>2 DEF Ending
      <4>4. m \in 0 .. m
        BY <1>1
      <4> QED BY <4>3, <4>4, Cut
    <3> QED BY <1>1, <2>2, <3>1, <3>2
  <2> HIDE DEF r, capture, rest
  <2> QED BY <1>3, <1>7, <2>2, <2>3
<1> QED BY <1>4, <1>5, <1>6, <1>7 DEF TextKeys

LEMMA TextMisses ==
  ASSUME NEW text, NEW active, NEW key \in TextKeys \ {"contains"}, NEW nc, NEW c, ~ TextCmp(key, nc, text, active, c).hit
  PROVE  TextCmp(key, nc, text, active, c) = Miss(c)
<1> DEFINE r == TextCmp(key, nc, text, active, c)
<1>1. \A capture, rest : LiteralHit(c, capture, rest).hit
  BY DEF LiteralHit, Hit
<1>2. r = Miss(c) \/ \E capture, rest : r = LiteralHit(c, capture, rest)
  <2>1. CASE key = "match"
    <3>1. r = Cmp_Match(nc, text, active, c)
      BY <2>1 DEF TextCmp
    <3> QED BY <3>1 DEF Cmp_Match
  <2>2. CASE key = "suffix"
    <3>1. r = Cmp_Suffix(nc, text, active, c)
      BY <2>2 DEF TextCmp
    <3> QED BY <3>1 DEF Cmp_Suffix
  <2>3. CASE key = "prefix"
    <3>1. r = Cmp_Prefix(nc, text, active, c)
      BY <2>3 DEF TextCmp
    <3> QED BY <3>1 DEF Cmp_Prefix
  <2>4. CASE key = "tld"
    <3>1. r = Cmp_TLD(nc, text, active, c)
      BY <2>4 DEF TextCmp
    <3> QED BY <3>1 DEF Cmp_TLD
  <2>5. CASE key = "path"
    <3>1. r = Cmp_Path(nc, text, active, c)
      BY <2>5 DEF TextCmp
    <3> QED BY <3>1 DEF Cmp_Path
  <2> QED BY <2>1, <2>2, <2>3, <2>4, <2>5 DEF TextKeys
<1> QED BY <1>1, <1>2

\* The comparisons with one text after the other.
TryText(key, nc, active, r, g) ==
  OrElse(r, IF Is(g, "STRING") THEN TextCmp(key, nc, Val(g), active, r.cx) ELSE Miss(r.cx))

TriesTexts(q, key, nc, given, f, c) ==
  /\ q[0] = Miss(c)
  /\ \A i \in 1 .. Len(Items(given)) : q[i] = TryText(key, nc, Val(f), q[i - 1], Items(given)[i])
  /\ Cmp_LiteralString(key, nc, given, f, c) = q[Len(Items(given))]

LEMMA LiteralStringSteps ==
  ASSUME NEW V, NEW given, Items(given) \in Seq(V), NEW key, NEW nc, NEW f, Is(f, "STRING"), NEW c
  PROVE  \E q : TriesTexts(q, key, nc, given, f, c)
<1> DEFINE gs == Items(given)
           n == Len(gs)
           base == Miss(c)
           one(t, i) == Given(LAMBDA v : TryText(key, nc, Val(f), v, gs[i]), t)
           F(m) == [i \in 0 .. n |-> IF i = 0 THEN base ELSE one(m[i - 1], i)]
           after == CHOOSE m : m = F(m)
<1>1. n \in Nat
  OBVIOUS
<1>2. \A t, i : one(t, i) = TryText(key, nc, Val(f), t, gs[i])
  BY DEF Given
<1>3. Cmp_LiteralString(key, nc, given, f, c) = after[n]
  BY DEF Cmp_LiteralString, Carry, TryText
<1> HIDE DEF one, base, n, gs
<1> DEFINE Reaches(k) == \E g : g = [i \in 0 .. k |-> IF i = 0 THEN base ELSE one(g[i - 1], i)]
           T == {k \in 0 .. n : Reaches(k)}
<1>4. Reaches(0)
  <2> DEFINE g == [i \in 0 .. 0 |-> base]
  <2>1. g = [i \in 0 .. 0 |-> IF i = 0 THEN base ELSE one(g[i - 1], i)]
    OBVIOUS
  <2> QED BY <2>1
<1>5. ASSUME NEW k \in 0 .. n - 1, Reaches(k) PROVE Reaches(k + 1)
  <2>1. PICK g : g = [i \in 0 .. k |-> IF i = 0 THEN base ELSE one(g[i - 1], i)]
    BY <1>5
  <2> DEFINE h == [i \in 0 .. k + 1 |-> IF i = k + 1 THEN one(g[k], k + 1) ELSE g[i]]
  <2>2. \A i \in 0 .. k + 1 : h[i] = IF i = 0 THEN base ELSE one(h[i - 1], i)
    BY <1>1, <2>1
  <2>3. h = [i \in 0 .. k + 1 |-> IF i = 0 THEN base ELSE one(h[i - 1], i)]
    BY <2>2
  <2> QED BY <2>3
<1> HIDE DEF Reaches
<1>6. \A k \in 0 .. n : k \in T
  <2>1. 0 \in T /\ \A k \in 0 .. n - 1 : k \in T => k + 1 \in T
    BY <1>1, <1>4, <1>5
  <2> HIDE DEF T
  <2> QED BY <1>1, <2>1, UpTo
<1>7. \E g : g = F(g)
  <2>1. Reaches(n)
    BY <1>1, <1>6
  <2> QED BY <2>1 DEF Reaches
<1>8. after = F(after)
  BY <1>7
<1> HIDE DEF after
<1>9. after[0] = base /\ \A i \in 1 .. n : after[i] = one(after[i - 1], i)
  BY <1>1, <1>8
<1>10. after[0] = Miss(c) /\ \A i \in 1 .. n : after[i] = TryText(key, nc, Val(f), after[i - 1], gs[i])
  BY <1>2, <1>9 DEF base
<1> QED BY <1>3, <1>10 DEF n, gs, TriesTexts

\* What comparisons with texts leave if one of them hits.
SplitBy(r, key, active) == TakenApart(key, active, active_group(r.cx, 0), r.cx.remainder)

LEMMA LiteralStringSplits ==
  ASSUME NEW V, NEW given, Items(given) \in Seq(V), \A g \in V : Is(g, "STRING") => Val(g) \in Text,
         NEW key \in TextKeys \ {"contains"}, NEW nc, NEW f, Is(f, "STRING"), Val(f) \in Text,
         NEW c, HasCaptures(c), Cmp_LiteralString(key, nc, given, f, c).hit
  PROVE  SplitBy(Cmp_LiteralString(key, nc, given, f, c), key, Val(f))
<1> DEFINE gs == Items(given)
           n == Len(gs)
<1>1. PICK q : TriesTexts(q, key, nc, given, f, c)
  BY LiteralStringSteps
<1>2. /\ q[0] = Miss(c) /\ Cmp_LiteralString(key, nc, given, f, c) = q[n]
      /\ \A i \in 1 .. n : q[i] = TryText(key, nc, Val(f), q[i - 1], gs[i])
  BY <1>1 DEF TriesTexts
<1>3. n \in Nat /\ \A i \in 1 .. n : gs[i] \in V
  OBVIOUS
<1> HIDE DEF n, gs
<1> DEFINE Good(r) == IF r.hit THEN SplitBy(r, key, Val(f)) ELSE r = Miss(c)
           T == {k \in 0 .. n : Good(q[k])}
<1>4. 0 \in T
  <2>1. Good(Miss(c))
    BY DEF Miss
  <2> QED BY <1>2, <1>3, <2>1
<1>5. ASSUME NEW k \in 0 .. n - 1, k \in T PROVE k + 1 \in T
  <2>1. k + 1 \in 1 .. n /\ k + 1 - 1 = k /\ k + 1 \in 0 .. n
    BY <1>3
  <2>2. q[k + 1] = TryText(key, nc, Val(f), q[k], gs[k + 1])
    BY <1>2, <2>1
  <2>3. Good(q[k])
    BY <1>5
  <2>4. Good(q[k + 1])
    <3>1. CASE q[k].hit
      <4>1. q[k + 1] = q[k]
        BY <2>2, <3>1 DEF TryText, OrElse
      <4> HIDE DEF Good
      <4> QED BY <2>3, <4>1
    <3>2. CASE ~ q[k].hit
      <4>1. q[k] = Miss(c)
        BY <2>3, <3>2
      <4>2. q[k].cx = c
        BY <4>1 DEF Miss
      <4> DEFINE g == gs[k + 1]
                 r == TextCmp(key, nc, Val(g), Val(f), c)
      <4>3. g \in V
        BY <1>3, <2>1
      <4>4. q[k + 1] = IF Is(g, "STRING") THEN r ELSE Miss(c)
        BY <2>2, <3>2, <4>2 DEF TryText, OrElse
      <4>5. CASE Is(g, "STRING")
        <5>1. Val(g) \in Seq(Token) /\ Val(f) \in Seq(Token)
          BY <4>3, <4>5 DEF Text
        <5>2. r.hit => SplitBy(r, key, Val(f))
          BY <5>1, TextSplits DEF SplitBy
        <5>3. ~ r.hit => r = Miss(c)
          BY TextMisses
        <5> HIDE DEF r
        <5> QED BY <4>4, <4>5, <5>2, <5>3
      <4>6. CASE ~ Is(g, "STRING")
        <5>1. q[k + 1] = Miss(c)
          BY <4>4, <4>6
        <5>2. ~ Miss(c).hit
          BY DEF Miss
        <5> QED BY <5>1, <5>2
      <4> QED BY <4>5, <4>6
    <3> QED BY <3>1, <3>2
  <2> HIDE DEF Good
  <2> QED BY <2>1, <2>4
<1>6. n \in T
  <2> HIDE DEF T
  <2>1. \A k \in 0 .. n : k \in T
    BY <1>3, <1>4, <1>5, UpTo
  <2> QED BY <1>3, <2>1
<1> QED BY <1>2, <1>6

\* The case that compares is one that was a hit.
LEMMA FirstHitCase ==
  ASSUME NEW values, NEW contexts, Closed(values, contexts), NEW c \in contexts,
         NEW d \in Directive, d.do = "with", NEW f \in values, FirstHitOf(d.cases, f, c).hit
  PROVE  LET r == FirstHitOf(d.cases, f, c)
         IN \E x \in contexts : LET h == Compares(d.cases[r.case].cmp, f, x) IN h.hit /\ h.cx = r.cx
<1> DEFINE n == Len(d.cases)
           Was(r) == r.hit => \E x \in contexts : LET h == Compares(d.cases[r.case].cmp, f, x) IN h.hit /\ h.cx = r.cx
<1>1. IsList(d.cases)
  BY ProgramAssumption DEF IsDirective, IsList
<1>2. PICK g : Tries(g, d.cases, f, c)
  BY <1>1, FirstHitSteps
<1>3. g[0] = NoHit(c) /\ FirstHitOf(d.cases, f, c) = g[n] /\ \A i \in 1 .. n : g[i] = TryNext(d.cases, f, g[i - 1], i)
  BY <1>2 DEF Tries
<1>4. n \in Nat /\ DOMAIN d.cases = 1 .. n
  BY <1>1 DEF IsList
<1>5. \A k \in 1 .. n, x \in contexts :
        LET h == Compares(d.cases[k].cmp, f, x) IN h.cx \in contexts /\ h.hit \in BOOLEAN
  BY <1>4 DEF Closed, KeepActive
<1> HIDE DEF n
<1> DEFINE T == {k \in 0 .. n : g[k].cx \in contexts /\ Was(g[k])}
<1>6. 0 \in T
  <2>1. NoHit(c).cx \in contexts /\ ~ NoHit(c).hit
    BY DEF NoHit
  <2> QED BY <1>3, <1>4, <2>1
<1>7. ASSUME NEW k \in 0 .. n - 1, k \in T PROVE k + 1 \in T
  <2>1. k + 1 \in 1 .. n /\ k + 1 - 1 = k /\ k + 1 \in 0 .. n
    BY <1>4
  <2>2. g[k + 1] = TryNext(d.cases, f, g[k], k + 1)
    BY <1>3, <2>1
  <2>3. g[k].cx \in contexts /\ Was(g[k])
    BY <1>7
  <2>4. CASE g[k].hit
    <3>1. g[k + 1] = g[k]
      BY <2>2, <2>4 DEF TryNext
    <3> HIDE DEF Was
    <3> QED BY <2>1, <2>3, <3>1
  <2>5. CASE ~ g[k].hit
    <3> DEFINE h == Compares(d.cases[k + 1].cmp, f, g[k].cx)
    <3>1. g[k + 1] = [hit |-> h.hit, cx |-> h.cx, case |-> IF h.hit THEN k + 1 ELSE 0]
      BY <2>2, <2>5 DEF TryNext
    <3>2. h.cx \in contexts
      BY <1>5, <2>1, <2>3
    <3>3. g[k + 1].cx = h.cx /\ g[k + 1].hit = h.hit /\ (h.hit => g[k + 1].case = k + 1)
      BY <3>1
    <3>4. Was(g[k + 1])
      <4> SUFFICES ASSUME g[k + 1].hit
                   PROVE  \E x \in contexts : LET u == Compares(d.cases[g[k + 1].case].cmp, f, x) IN u.hit /\ u.cx = g[k + 1].cx
        OBVIOUS
      <4>1. g[k + 1].case = k + 1
        BY <3>3
      <4>2. LET u == Compares(d.cases[g[k + 1].case].cmp, f, g[k].cx) IN u.hit /\ u.cx = g[k + 1].cx
        BY <3>3, <4>1
      <4> QED BY <2>3, <4>2
    <3> HIDE DEF h, Was
    <3> QED BY <2>1, <3>2, <3>3, <3>4
  <2> QED BY <2>4, <2>5
<1>8. n \in T
  <2> HIDE DEF T
  <2>1. \A k \in 0 .. n : k \in T
    BY <1>4, <1>6, <1>7, UpTo
  <2> QED BY <1>4, <2>1
<1> QED BY <1>3, <1>8

\* What comparisons of texts do in a case: they miss, or compare the feature, which is a
\* text, with an extracted value.
ComparesTexts(values, contexts) ==
  /\ \A f \in values : Is(f, "STRING") => Val(f) \in Text
  /\ \A c \in contexts : HasCaptures(c)
  /\ \A d \in Directive : d.do = "with" => \A k \in DOMAIN d.cases, f \in values, c \in contexts :
       LET cmp == d.cases[k].cmp
           r == Compares(cmp, f, c)
       IN cmp.key \in TextKeys => \E x \in contexts :
            \/ r = Miss(x)
            \/ Is(f, "STRING") /\ \E given \in values : r = Cmp_LiteralString(cmp.key, cmp.nc, given, f, x)

\* After a case that compares a text, whatever comes before and in it, the feature is group
\* 0 as directives get it, one octet that set_literal_capture leaves out of it, and the
\* remainder.
THEOREM CasesSplit ==
  ASSUME MeansEquation, NEW values, NEW contexts, Closed(values, contexts), ComparesTexts(values, contexts)
  PROVE  Invocation => Splits
<1> DEFINE Split == WithCases =>
             LET k == stack'[Len(stack') - Len(Below)].case
             IN k # 0 /\ Top.d.cases[k].cmp.key \in TextKeys \ {"contains"} =>
                  TakenApart(Top.d.cases[k].cmp.key, Val(Top.feature), active_group(cx', 0), cx'.remainder)
<1>1. Invocation => []StackMeans(values, contexts)
  BY StackMeansAlways
<1>2. ASSUME StackMeans(values, contexts), WithCases PROVE Split
  <2> DEFINE r == FirstHitOf(Top.d.cases, Top.feature, cx)
             F == [Top EXCEPT !.phase = "end", !.case = r.case]
             body == Top.d.cases[r.case].body
             f == Top.feature
             cmp == Top.d.cases[r.case].cmp
  <2>1. /\ AtWith("cases") /\ cx' = r.cx
        /\ stack' = (IF r.hit THEN <<ListFrame(body)>> ELSE <<>>) \o <<F>> \o Below
    BY <1>2 DEF WithCases
  <2>2. Typed(values, contexts) /\ cx \in contexts
    BY <1>2, <2>1 DEF StackMeans, Typed, AtWith, Running
  <2>3. /\ Top \in WithFrames(values) /\ Top.d \in Directive /\ Top.d.do = "with" /\ f \in values
        /\ Below \in Seq(Frames(values))
    BY <1>2, <2>1, <2>2, AtWithTop
  <2>4. Hits(r, values, contexts, cx.active, Len(Top.d.cases))
    BY <2>2, <2>3, FirstHit
  <2>5. r.hit => \E x \in contexts : LET h == Compares(cmp, f, x) IN h.hit /\ h.cx = r.cx
    BY <2>2, <2>3, FirstHitCase
  <2>6. DOMAIN Top.d.cases = 1 .. Len(Top.d.cases) /\ \A k \in DOMAIN Top.d.cases : Top.d.cases[k].body \in Seq(Directive)
    BY <2>3, WithDirective
  <2>7. F.case = r.case
    BY <2>3 DEF WithFrames
  <2>8. stack'[Len(stack') - Len(Below)] = F
    <3>1. F \in Frames(values)
      <4>1. F \in WithFrames(values)
        <5> HIDE DEF r
        <5> QED BY <2>3, <2>4 DEF WithFrames, Hits
      <4> QED BY <4>1 DEF Frames
    <3> DEFINE n == Len(Below)
    <3>2. n \in Nat
      BY <2>3
    <3> HIDE DEF r, F
    <3>3. CASE r.hit
      <4> DEFINE L == ListFrame(body)
      <4>1. L \in Frames(values)
        BY <2>4, <2>6, <3>3 DEF Frames, ListFrames, ListFrame, Hits
      <4>2. stack' = <<L>> \o <<F>> \o Below
        BY <2>1, <3>3
      <4> HIDE DEF L
      <4>3. stack' = <<L, F>> \o Below
        BY <4>2
      <4>4. Len(stack') = n + 2 /\ stack'[2] = F
        BY <2>3, <3>1, <4>1, <4>3
      <4>5. Len(stack') - n = 2
        BY <3>2, <4>4
      <4> QED BY <4>4, <4>5
    <3>4. CASE ~ r.hit
      <4>1. stack' = <<>> \o <<F>> \o Below
        BY <2>1, <3>4
      <4>2. stack' = <<F>> \o Below
        BY <2>3, <3>1, <4>1
      <4>3. Len(stack') = n + 1 /\ stack'[1] = F
        BY <2>3, <3>1, <4>2
      <4>4. Len(stack') - n = 1
        BY <3>2, <4>3
      <4> QED BY <4>3, <4>4
    <3> QED BY <3>3, <3>4
  <2> SUFFICES ASSUME r.case # 0, cmp.key \in TextKeys \ {"contains"}
               PROVE  SplitBy(r, cmp.key, Val(f))
    <3> HIDE DEF r, F
    <3> QED BY <2>1, <2>7, <2>8 DEF SplitBy
  <2>9. r.hit /\ r.case \in DOMAIN Top.d.cases
    <3> HIDE DEF r
    <3> QED BY <2>4, <2>6 DEF Hits
  <2>10. PICK x \in contexts : LET h == Compares(cmp, f, x) IN h.hit /\ h.cx = r.cx
    BY <2>5, <2>9
  <2> DEFINE h == Compares(cmp, f, x)
  <2>11. h.hit /\ h.cx = r.cx
    BY <2>10
  <2>12. \A y : ~ Miss(y).hit
    BY DEF Miss
  <2> HIDE DEF r
  <2>13. \E y \in contexts :
          \/ h = Miss(y)
          \/ Is(f, "STRING") /\ \E given \in values : h = Cmp_LiteralString(cmp.key, cmp.nc, given, f, y)
    BY <2>3, <2>9 DEF ComparesTexts
  <2> HIDE DEF h
  <2>14. PICK y \in contexts :
          Is(f, "STRING") /\ \E given \in values : h = Cmp_LiteralString(cmp.key, cmp.nc, given, f, y)
    BY <2>11, <2>12, <2>13
  <2>15. PICK given \in values : h = Cmp_LiteralString(cmp.key, cmp.nc, given, f, y)
    BY <2>14
  <2>16. HasCaptures(y) /\ Val(f) \in Text /\ \A g \in values : Is(g, "STRING") => Val(g) \in Text
    BY <2>3, <2>14 DEF ComparesTexts
  <2>17. Items(given) \in Seq(values)
    <3>1. Is(given, "TUPLE") => Val(given) \in Seq(values)
      BY DEF Closed
    <3> QED BY <3>1 DEF Items
  <2>18. SplitBy(h, cmp.key, Val(f))
    BY <2>11, <2>14, <2>15, <2>16, <2>17, LiteralStringSplits
  <2> QED BY <2>11, <2>18 DEF SplitBy
<1>3. StackMeans(values, contexts) /\ [Invoke]_invoking => [Split]_invoking
  <2>1. StackMeans(values, contexts) => Split
    BY <1>2
  <2> HIDE DEF Split
  <2> QED BY <2>1
<1>4. Splits <=> [][Split]_invoking
  BY DEF Splits
<1> HIDE DEF Split
<1> QED BY <1>1, <1>3, <1>4, PTL DEF Invocation

=============================================================================
