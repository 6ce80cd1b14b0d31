-------------------------------- MODULE With --------------------------------
(***************************************************************************)
(* The directive "with" as the directives of a hook are invoked: the       *)
(* feature is extracted and becomes the active one, directives are done    *)
(* for it or for each of its elements, and those of the first case that    *)
(* compares.                                                               *)
(* Source: Machinery.cc, Directive.cc, Context.cc.                         *)
(*                                                                         *)
(* A directive is a "with", a "var", or a "use" that stands for any other  *)
(* directive with an expression: it is put in the log with the value.      *)
(* The stack has a frame for every list and every "with" that is being     *)
(* invoked, the innermost first.  What expressions and comparisons give is *)
(* left to the constants ValueOf and Compares.                             *)
(***************************************************************************)
EXTENDS Comparisons

CONSTANTS
  Directive,         \* the directives there are, those in others too
  Programs,          \* lists of directives
  Loads(_),          \* whether a list can be loaded
  Actives,           \* features that are active at first
  NewContext(_),     \* the context at first, with its active feature
  ValueOf(_, _),     \* Context::extract: an expression in a context gives a value and the context
  Compares(_, _, _), \* a comparison of a feature in a context gives hit and the context
  MaxRounds,         \* bound: the rounds of a for-each
  Means(_, _, _)     \* what a list means, for a feature in a state: as MeansOf says

\* What contexts have here; the rest of a context is between expressions and comparisons.
IsContext(c) == c = [x \in DOMAIN c |-> c[x]] /\ {"active", "vars", "how"} \subseteq DOMAIN c

IsDirective(d) ==
  /\ d.do \in {"use", "var", "with"}
  /\ d.do = "with" =>
       /\ d.body \in Seq(Directive) /\ d.each \in BOOLEAN /\ d.continue \in BOOLEAN
       /\ DOMAIN d.cases = 1 .. Len(d.cases) /\ Len(d.cases) \in Nat
       /\ \A k \in DOMAIN d.cases : d.cases[k].body \in Seq(Directive)

ASSUME ProgramAssumption ==
  /\ \A d \in Directive : IsDirective(d)
  /\ Programs \subseteq Seq(Directive)
  /\ \A f \in Actives : IsContext(NewContext(f)) /\ NewContext(f).active = f

\* Expressions and comparisons leave the active feature as it is.
KeepActive(values, contexts) ==
  \A c \in contexts, d \in Directive :
    /\ ValueOf(d.expr, c).cx.active = c.active
    /\ d.do = "with" => \A k \in DOMAIN d.cases, f \in values :
         LET r == Compares(d.cases[k].cmp, f, c) IN r.hit \in BOOLEAN /\ r.cx.active = c.active

VARIABLES
  program,   \* the directives of the hook
  first,     \* the feature that is active at first
  cx,        \* the context
  terminal,  \* Context::_terminal_p
  stack, log

invoking == <<program, first, cx, terminal, stack, log>>

-----------------------------------------------------------------------------
(* The invocation of the directives of a hook.                             *)

ListFrame(ds) == [kind |-> "list", todo |-> ds]

Begin ==
  /\ program \in {ds \in Programs : Loads(ds)}
  /\ first \in Actives
  /\ cx = NewContext(first)
  /\ terminal = FALSE
  /\ stack = <<ListFrame(program)>>
  /\ log = <<>>

Running == stack # <<>> /\ cx.how = "ok"
Top == Head(stack)
Below == Tail(stack)
Next1 == Head(Top.todo)
AtDirective(kind) ==
  Running /\ Top.kind = "list" /\ Top.todo # <<>> /\ ~ terminal /\ Next1.do = kind
Rest == <<[Top EXCEPT !.todo = Tail(@)]>> \o Below
AtWith(phase) == Running /\ Top.kind = "with" /\ Top.phase = phase

\* DirectiveList::invoke: until one is terminal.
ListEnd ==
  /\ Running /\ Top.kind = "list"
  /\ Top.todo = <<>> \/ terminal
  /\ stack' = Below
  /\ UNCHANGED <<program, first, cx, terminal, log>>

Do_use ==
  /\ AtDirective("use")
  /\ LET e == ValueOf(Next1.expr, cx) IN cx' = e.cx /\ log' = Append(log, <<Next1.name, e.val>>)
  /\ stack' = Rest
  /\ UNCHANGED <<program, first, terminal>>

store_txn_var(c, name, f) == [c EXCEPT !.vars = (name :> f) @@ @]

Do_var ==
  /\ AtDirective("var")
  /\ LET e == ValueOf(Next1.expr, cx) IN cx' = store_txn_var(e.cx, Next1.name, e.val)
  /\ stack' = Rest
  /\ UNCHANGED <<program, first, terminal, log>>

\* Do_with::invoke, until the directives of "do" or of for-each.
WithFrame(d, feature) ==
  [kind |-> "with", d |-> d, feature |-> feature, left |-> feature, rounds |-> 0, save |-> cx.active,
   case |-> 0, phase |-> IF d.body = <<>> THEN "cases" ELSE IF d.each THEN "each" ELSE "do"]

WithStart ==
  /\ AtDirective("with")
  /\ LET e == ValueOf(Next1.expr, cx)
     IN cx' = [e.cx EXCEPT !.active = e.val] /\ stack' = <<WithFrame(Next1, e.val)>> \o Rest
  /\ UNCHANGED <<program, first, terminal, log>>

WithDo ==
  /\ AtWith("do")
  /\ terminal' = FALSE
  /\ stack' = <<ListFrame(Top.d.body), [Top EXCEPT !.phase = "cases"]>> \o Below
  /\ UNCHANGED <<program, first, cx, log>>

\* The elements are taken from what is left of the feature; what is no tuple is its
\* own first element and has no rest.
car(f) == IF Is(f, "TUPLE") THEN Head(Val(f)) ELSE f
cdr_KeepsLast(f) ==
  IF ~ Is(f, "TUPLE") \/ Len(Val(f)) = 1 THEN f ELSE Tup(Tail(Val(f)))

cdr(f) ==
  IF ~ Is(f, "TUPLE") THEN f
  ELSE IF Len(Val(f)) = 1 THEN NIL_FEATURE ELSE Tup(Tail(Val(f)))

\* (The whole feature is kept in _active_ext meanwhile, which nothing reads.)
WithEach ==
  /\ AtWith("each")
  /\ ~ is_nil(Top.left)
  /\ Top.rounds < MaxRounds
  /\ IF Top.left = Tup(<<>>)
     THEN cx' = [cx EXCEPT !.how = "undefined"] /\ UNCHANGED <<terminal, stack>>
     ELSE /\ cx' = [cx EXCEPT !.active = car(Top.left)]
          /\ terminal' = FALSE
          /\ stack' = <<ListFrame(Top.d.body), [Top EXCEPT !.left = cdr(@), !.rounds = @ + 1]>> \o Below
  /\ UNCHANGED <<program, first, log>>

\* For the cases the feature is extracted again.
WithEachEnd ==
  /\ AtWith("each")
  /\ is_nil(Top.left)
  /\ LET e == ValueOf(Top.d.expr, cx)
     IN IF Top.d.cases = <<>>
        THEN cx' = cx /\ stack' = <<[Top EXCEPT !.phase = "cases"]>> \o Below
        ELSE /\ cx' = [e.cx EXCEPT !.active = e.val]
             /\ stack' = <<[Top EXCEPT !.phase = "cases", !.feature = e.val]>> \o Below
  /\ UNCHANGED <<program, first, terminal, log>>

\* The first case that compares with the feature, 0 if there is none.
FirstHitOf(cases, f, c) ==
  Carry(LAMBDA r, i : IF r.hit THEN r
                      ELSE LET h == Compares(cases[i].cmp, f, r.cx)
                           IN [hit |-> h.hit, cx |-> h.cx, case |-> IF h.hit THEN i ELSE 0],
        [hit |-> FALSE, cx |-> c, case |-> 0], [i \in DOMAIN cases |-> i])

WithCases ==
  /\ AtWith("cases")
  /\ terminal' = FALSE
  /\ LET r == FirstHitOf(Top.d.cases, Top.feature, cx)
         frame == [Top EXCEPT !.phase = "end", !.case = r.case]
     IN /\ cx' = r.cx
        /\ stack' = (IF r.hit THEN <<ListFrame(Top.d.cases[r.case].body)>> ELSE <<>>) \o <<frame>> \o Below
  /\ UNCHANGED <<program, first, log>>

WithEnd_KeepsActive ==
  /\ AtWith("end")
  /\ terminal' = (Top.case # 0 /\ ~ Top.d.continue)
  /\ stack' = Below
  /\ UNCHANGED <<program, first, cx, log>>

\* A case that compares ends the list the directive is in, unless it is to continue.
WithEnd ==
  /\ AtWith("end")
  /\ terminal' = (Top.case # 0 /\ ~ Top.d.continue)
  /\ cx' = [cx EXCEPT !.active = Top.save]
  /\ stack' = Below
  /\ UNCHANGED <<program, first, log>>

Invoke ==
  \/ ListEnd \/ Do_use \/ Do_var
  \/ WithStart \/ WithDo \/ WithEach \/ WithEachEnd \/ WithCases \/ WithEnd

Invocation == Begin /\ [][Invoke]_invoking /\ WF_invoking(Invoke)

-----------------------------------------------------------------------------
(* What directives mean, without a stack: each sees the feature "active"   *)
(* that it is in.  A state is a context, a log, and whether the list is to *)
(* stop; its context has the active feature of before all along.           *)

State(c, entries, stop) == [cx |-> c, log |-> entries, stop |-> stop]
Stopping(s, stop) == State(s.cx, s.log, stop)

Seeing(active, s) == [s.cx EXCEPT !.active = active]
Unseen(c, s) == [c EXCEPT !.active = s.cx.active]

SeenAs(e, active, s) == Given(LAMBDA r : [val |-> r.val, cx |-> Unseen(r.cx, s)], ValueOf(e, Seeing(active, s)))

MeansUse(d, e, s) == State(e.cx, Append(s.log, <<d.name, e.val>>), FALSE)
MeansVar(d, e, s) == State(store_txn_var(e.cx, d.name, e.val), s.log, FALSE)

\* The case that compares, and the list that the "with" is in ends if it is not to continue.
MeansCases(d, f, s) ==
  Given(LAMBDA r :
          Given(LAMBDA after : Stopping(IF r.hit THEN Means(d.cases[r.case].body, f, after) ELSE after,
                                        r.hit /\ ~ d.continue),
                State(Unseen(r.cx, s), s.log, FALSE)),
        FirstHitOf(d.cases, f, Seeing(f, s)))

MeansRounds(d, fs, s) == Carry(LAMBDA t, f : Means(d.body, f, t), s, fs)

\* The elements of a feature, and the one that is the last to be active.
Rounds(f) == IF is_nil(f) THEN <<>> ELSE Items(f)
LastOf(f, otherwise) == IF Rounds(f) = <<>> THEN otherwise ELSE Rounds(f)[Len(Rounds(f))]

\* What is still to do after the directives of a for-each.
MeansAgain(d, last, f, s) ==
  IF d.cases = <<>> THEN MeansCases(d, f, s)
  ELSE Given(LAMBDA again : MeansCases(d, again.val, State(again.cx, s.log, FALSE)), SeenAs(d.expr, last, s))

MeansWith(d, e, s) ==
  Given(LAMBDA t :
          IF d.body = <<>> THEN MeansCases(d, e.val, t)
          ELSE IF d.each
          THEN Given(LAMBDA did : MeansAgain(d, LastOf(e.val, e.val), e.val, did), MeansRounds(d, Rounds(e.val), t))
          ELSE Given(LAMBDA did : MeansCases(d, e.val, did), Means(d.body, e.val, t)),
        State(e.cx, s.log, FALSE))

MeansOne(d, active, s) ==
  Given(LAMBDA e : CASE d.do = "use" -> MeansUse(d, e, s)
                     [] d.do = "var" -> MeansVar(d, e, s)
                     [] d.do = "with" -> MeansWith(d, e, s),
        SeenAs(d.expr, active, s))

\* What Means is, in terms of what it is for the lists that are in a list.
MeansOf(ds, active, s) ==
  LET after(t, d) == IF t.stop THEN t ELSE MeansOne(d, active, t)
  IN Carry(after, Stopping(s, FALSE), ds)

-----------------------------------------------------------------------------
(* Properties.                                                             *)

\* However "with" is nested, every directive that is invoked sees the feature of the
\* "with" it is written in, a list ends only at a "with" of its own that compared, and
\* at the end the active feature is again the one of before: the one active feature
\* and the one terminal flag of Do_with::invoke give what the configuration says.
AsWritten ==
  stack = <<>> /\ cx.how = "ok" =>
    /\ log = Means(program, first, State(NewContext(first), <<>>, FALSE)).log
    /\ cx.active = first

\* A text, put together of group 0, the token that group 0 lacks, and the remainder: that
\* token is the last one that the comparison found, and it lacks none if nothing was found.
PutTogether(key, group, lost, rest) ==
  IF key \in {"suffix", "tld"} THEN rest \o group \o lost ELSE group \o lost \o rest

TakenApart(key, text, group, rest) ==
  \E lost \in {<<>>} \union {<<text[i]>> : i \in DOMAIN text} :
    /\ lost = <<>> => group = <<>>
    /\ text = PutTogether(key, group, lost, rest)

\* After a case compared a text, its directives can take the feature apart with group 0
\* and the remainder ("{*}"), in the order of the comparison, but for one octet that they
\* see in neither: set_literal_capture ends the group before the last octet of what was
\* found, although it is documented as the matched string (ComparisonReference.en.rst).
Splits ==
  [][WithCases =>
       LET k == stack'[Len(stack') - Len(Below)].case
       IN k # 0 /\ Top.d.cases[k].cmp.key \in TextKeys \ {"contains"} =>
            TakenApart(Top.d.cases[k].cmp.key, Val(Top.feature), active_group(cx', 0), cx'.remainder)]_invoking

\* The loops that the code has no end for: a for-each over what is no tuple, which cdr
\* leaves as it is, and an rxp-replace<g> of an empty match.
Looping ==
  \/ cx.how = "hung"
  \/ AtWith("each") /\ ~ is_nil(Top.left) /\ ~ Is(Top.left, "TUPLE")

\* The directives of a hook come to an end, whatever is nested in them, unless they get in
\* one of these two loops (or where the behaviour is undefined): a for-each uses up the
\* elements of a tuple, and every "with" gives the list it is in back its turn.  From the
\* loops there is no way on: cdr does not give nil for a scalar, as common.h says it does.
Ends ==
  /\ <>(stack = <<>> \/ cx.how = "undefined" \/ Looping)
  /\ [](Looping => [](stack # <<>>))
=============================================================================
