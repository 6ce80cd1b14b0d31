------------------------------ MODULE TxnHooks ------------------------------
(***************************************************************************)
(* The life of one transaction as txn_box sees it: the Context that holds  *)
(* its state, the hooks Traffic Server (ATS) delivers to it, the top level *)
(* directives of the global configuration, the directives of the txn_box   *)
(* instances on the matched remap rule, and the directives that other      *)
(* directives scheduled for a later hook ("when").  Source: Context.cc,    *)
(* txn_box.cc (CB_Txn_Start), txn_box_remap.cc (TSRemapDoRemap).           *)
(*                                                                         *)
(* All of this runs under the mutex of the transaction, so the steps of a  *)
(* transaction are sequential; what varies is which hooks ATS visits,      *)
(* which "when" a directive reaches and what it sets.                      *)
(***************************************************************************)
EXTENDS Naturals, Sequences

\* enum class Hook: the order of the values is the order of the hooks.
INVALID    == 0
POST_LOAD  == 1
TXN_START  == 4
CREQ       == 5
PRE_REMAP  == 6
REMAP      == 7
POST_REMAP == 8
TXN_CLOSE  == 12
Hook       == 0..12

CONSTANTS
  Directive,   \* every directive of the configurations
  Global,      \* Global[h]: top level directives of the global configuration
  Rules,       \* Rules[i]: directives of the i-th txn_box instance of the rule
  Whens,       \* Whens[d]: the schedulings that invoking d can reach, in order
  MayEnd,      \* directives that can mark the context terminal
  MayFail      \* directives that can set the status returned to ATS

When == [hook : Hook, drtv : Directive]

ASSUME ConfigAssumption ==
  /\ Global \in [Hook -> Seq(Directive)]
  /\ Rules  \in Seq(Seq(Directive))
  /\ Whens  \in [Directive -> Seq(When)]
  /\ MayEnd \subseteq Directive
  /\ MayFail \subseteq Directive

VARIABLES
  ats,       \* the last hook ATS has reached, INVALID before the first
  atsHooks,  \* the ATS hooks the continuation of the Context is added to
  started,   \* ATS has called the global TXN_START continuation
  ruleIdx,   \* how many instances of the remap rule ATS has called
  ctl,       \* who runs: ATS, or the list of directives being invoked
  pos,       \* the next element of that list
  todo,      \* what the directive being invoked can still schedule
  ctx,       \* the Context: not created, live or deleted
  global,    \* Context::_cfg is the global configuration, not the empty one
  curHook,   \* _cur_hook
  terminal,  \* _terminal_p
  status,    \* _global_status
  hookSet,   \* _hooks[h].hook_set_p
  cbList,    \* _hooks[h].cb_list, with the hook it was scheduled from and,
             \* for the properties, how often the callback was invoked
  answer     \* what ATS was last told: reenabled with a status, or remapped

atsVars == <<ats, atsHooks, started, ruleIdx>>
ctxVars == <<ctx, global, curHook, terminal, status, hookSet, cbList>>
vars    == <<atsVars, ctl, pos, todo, ctxVars, answer>>

Status   == {"continue", "error"}
Callback == [drtv : Directive, from : Hook, runs : Nat]

TypeOK ==
  /\ ats \in Hook
  /\ atsHooks \subseteq Hook
  /\ started \in BOOLEAN
  /\ ruleIdx \in 0..Len(Rules)
  /\ ctl \in {"ats", "global", "rule", "callbacks"}
  /\ ctl = "rule" => ruleIdx # 0
  /\ pos \in Nat \ {0}
  /\ todo \in Seq(When)
  /\ ctx \in {"none", "live", "deleted"}
  /\ global \in BOOLEAN
  /\ curHook \in Hook
  /\ terminal \in BOOLEAN
  /\ status \in Status
  /\ hookSet \in [Hook -> BOOLEAN]
  /\ cbList \in [Hook -> Seq(Callback)]
  /\ answer \in Status \cup {"none", "remap"}

-----------------------------------------------------------------------------

\* The array TS_Hook: it has no entry for the hooks ATS does not have, and the
\* zero found there is the value of TS_HTTP_READ_REQUEST_HDR_HOOK.
TS_Hook(h) == IF h \in TXN_START..TXN_CLOSE \ {REMAP} THEN h ELSE CREQ

\* _cfg->hook_directives(h)
HookDirectives(h) == IF global THEN Global[h] ELSE << >>

Init ==
  /\ ats = INVALID /\ atsHooks = {} /\ started = FALSE /\ ruleIdx = 0
  /\ ctl = "ats" /\ pos = 1 /\ todo = << >>
  /\ ctx = "none" /\ global = FALSE
  /\ curHook = INVALID /\ terminal = FALSE /\ status = "continue"
  /\ hookSet = [h \in Hook |-> FALSE]
  /\ cbList = [h \in Hook |-> << >>]
  /\ answer = "none"

\* Mutant: the clean up hook is asked for only if a directive uses it.
NewContext_NoCleanup(isGlobal, drtvs) ==
  LET used == {h \in Hook : drtvs[h] # << >>}
  IN  /\ ctx' = "live"
      /\ global' = isGlobal
      /\ hookSet' = [h \in Hook |-> h \in used]
      /\ atsHooks' = {TS_Hook(h) : h \in used}

\* Context::Context and Context::enable_hooks, for a configuration whose top
\* level directives are drtvs: a hook for each list that is not empty, and
\* always one to clean up.
NewContext(isGlobal, drtvs) ==
  LET used == {h \in Hook : drtvs[h] # << >>}
  IN  /\ ctx' = "live"
      /\ global' = isGlobal
      /\ hookSet' = [h \in Hook |-> h \in used]
      /\ atsHooks' = {TS_Hook(h) : h \in used} \cup {TXN_CLOSE}

\* CB_Txn_Start with a configuration, and when there is none (it never loaded,
\* or shutdown dropped it).
CB_Txn_Start ==
  /\ ctl = "ats" /\ ~started
  /\ started' = TRUE
  /\ NewContext(TRUE, Global)
  /\ answer' = "continue"
  /\ UNCHANGED <<ats, ruleIdx, ctl, pos, todo, curHook, terminal, status, cbList>>

CB_Txn_Start_NoConfig ==
  /\ ctl = "ats" /\ ~started
  /\ started' = TRUE
  /\ answer' = "continue"
  /\ UNCHANGED <<ats, atsHooks, ruleIdx, ctl, pos, todo, ctxVars>>

\* ATS comes to hook h.  It visits hooks in order and may skip any but the
\* first and the last (an error, a cache hit).  TXN_START comes at once.
Reaches(h) ==
  /\ ctl = "ats" /\ started
  /\ h \in TXN_START..TXN_CLOSE \ {REMAP} /\ h > ats
  /\ ats = INVALID => h = TXN_START

\* ATS delivers nothing at a hook the continuation was not added to.
AtsPasses(h) ==
  /\ Reaches(h)
  /\ h \notin atsHooks
  /\ ats' = h
  /\ UNCHANGED <<atsHooks, started, ruleIdx, ctl, pos, todo, ctxVars, answer>>

\* Context::ts_callback up to the first directive: the status is reset,
\* invoke_for_hook starts on the top level directives of the configuration.
AtsDelivers(h) ==
  /\ Reaches(h)
  /\ h \in atsHooks
  /\ ats' = h
  /\ ctl' = "global" /\ pos' = 1
  /\ curHook' = h
  /\ status' = "continue"
  /\ UNCHANGED <<atsHooks, started, ruleIdx, todo, ctx, global, terminal,
                 hookSet, cbList, answer>>

\* Mutant: what an earlier hook or instance left in _terminal_p stays.
StartRule_NoReset ==
  /\ ctl' = "rule" /\ pos' = 1
  /\ curHook' = REMAP
  /\ UNCHANGED terminal

\* The start of invoke_for_remap.
StartRule ==
  /\ ctl' = "rule" /\ pos' = 1
  /\ curHook' = REMAP
  /\ terminal' = FALSE

\* TSRemapDoRemap for the next instance on the matched rule, between PRE_REMAP
\* and POST_REMAP: it uses the Context of the transaction, or makes one on the
\* empty configuration; invoke_for_remap starts on the directives of the rule.
TSRemapDoRemap ==
  /\ ctl = "ats" /\ ats \in TXN_START..REMAP
  /\ ruleIdx < Len(Rules)
  /\ ats' = REMAP
  /\ ruleIdx' = ruleIdx + 1
  /\ IF ctx = "none" THEN NewContext(FALSE, [h \in Hook |-> << >>])
                     ELSE UNCHANGED <<ctx, global, hookSet, atsHooks>>
  /\ StartRule
  /\ UNCHANGED <<started, todo, status, cbList, answer>>

\* A broken instance (null handle) leaves the transaction alone.
TSRemapDoRemap_Broken ==
  /\ ctl = "ats" /\ ats \in TXN_START..REMAP
  /\ ruleIdx < Len(Rules)
  /\ ats' = REMAP
  /\ ruleIdx' = ruleIdx + 1
  /\ answer' = "remap"
  /\ UNCHANGED <<atsHooks, started, ctl, pos, todo, ctxVars>>

\* A directive is invoked: it may end the invocation of the list it is in, set
\* the status of the hook, and from here on schedule what its "when"s hold.
\* endable: the value of _terminal_p when it is invoked.
Invoke(d, endable) ==
  /\ \/ terminal' = endable
     \/ d \in MayEnd /\ terminal' = TRUE
  /\ \/ status' = status
     \/ d \in MayFail /\ status' \in Status
  /\ todo' = Whens[d]
  /\ pos' = pos + 1
  /\ UNCHANGED <<atsVars, ctl, ctx, global, curHook, hookSet, answer>>

\* invoke_for_remap, the first loop: no reset between the directives.
InvokeRuleDirective ==
  /\ ctl = "rule" /\ todo = << >>
  /\ pos <= Len(Rules[ruleIdx]) /\ (pos > 1 => ~terminal)
  /\ Invoke(Rules[ruleIdx][pos], terminal)
  /\ UNCHANGED cbList

RuleDone ==
  /\ ctl = "rule" /\ todo = << >>
  /\ pos > Len(Rules[ruleIdx]) \/ (pos > 1 /\ terminal)
  /\ ctl' = "global" /\ pos' = 1
  /\ UNCHANGED <<atsVars, todo, ctxVars, answer>>

\* The loop over the top level directives, in invoke_for_hook and the second
\* one of invoke_for_remap: reset before each.
InvokeTopLevel ==
  /\ ctl = "global" /\ todo = << >>
  /\ pos <= Len(HookDirectives(curHook))
  /\ Invoke(HookDirectives(curHook)[pos], FALSE)
  /\ UNCHANGED cbList

TopLevelDone ==
  /\ ctl = "global" /\ todo = << >>
  /\ pos > Len(HookDirectives(curHook))
  /\ ctl' = "callbacks" /\ pos' = 1
  /\ UNCHANGED <<atsVars, todo, ctxVars, answer>>

Ran(c) == [drtv |-> c.drtv, from |-> c.from, runs |-> c.runs + 1]

\* Context::invoke_callbacks: the list is read again at each step, so what the
\* callbacks of this hook schedule for this hook is invoked as well.
InvokeCallback ==
  /\ ctl = "callbacks" /\ todo = << >>
  /\ pos <= Len(cbList[curHook])
  /\ Invoke(cbList[curHook][pos].drtv, FALSE)
  /\ LET list == cbList[curHook]
     IN  cbList' = [cbList EXCEPT ![curHook] = [list EXCEPT ![pos] = Ran(list[pos])]]

\* Mutants: the hook asked for is the one that is running; the callback is put
\* at the front of the list.
OnHookDo_WrongHook(w) ==
  /\ IF ~hookSet[w.hook] /\ w.hook >= curHook
       THEN /\ atsHooks' = atsHooks \cup {TS_Hook(curHook)}
            /\ hookSet' = [hookSet EXCEPT ![w.hook] = TRUE]
       ELSE UNCHANGED <<atsHooks, hookSet>>
  /\ cbList' = [cbList EXCEPT ![w.hook] =
       Append(@, [drtv |-> w.drtv, from |-> curHook, runs |-> 0])]

OnHookDo_Prepend(w) ==
  /\ IF ~hookSet[w.hook] /\ w.hook >= curHook
       THEN /\ atsHooks' = atsHooks \cup {TS_Hook(w.hook)}
            /\ hookSet' = [hookSet EXCEPT ![w.hook] = TRUE]
       ELSE UNCHANGED <<atsHooks, hookSet>>
  /\ cbList' = [cbList EXCEPT ![w.hook] =
       <<[drtv |-> w.drtv, from |-> curHook, runs |-> 0]>> \o @]

\* When::invoke, and the fix up directives of proxy-reply and redirect:
\* Context::on_hook_do.  A hook that is already past is not set, and the
\* callback is added to its list all the same.
OnHookDo(w) ==
  /\ IF ~hookSet[w.hook] /\ w.hook >= curHook
       THEN /\ atsHooks' = atsHooks \cup {TS_Hook(w.hook)}
            /\ hookSet' = [hookSet EXCEPT ![w.hook] = TRUE]
       ELSE UNCHANGED <<atsHooks, hookSet>>
  /\ cbList' = [cbList EXCEPT ![w.hook] =
       Append(@, [drtv |-> w.drtv, from |-> curHook, runs |-> 0])]

Schedule ==
  /\ ctl # "ats" /\ todo # << >>
  /\ OnHookDo(Head(todo))
  /\ todo' = Tail(todo)
  /\ UNCHANGED <<ats, started, ruleIdx, ctl, pos, ctx, global, curHook,
                 terminal, status, answer>>

\* The "when" is in a branch the directive does not take.
NotReached ==
  /\ ctl # "ats" /\ todo # << >>
  /\ todo' = Tail(todo)
  /\ UNCHANGED <<atsVars, ctl, pos, ctxVars, answer>>

\* Mutants: the callbacks stop at one that is terminal, as the directives of a
\* remap rule do; the loop looks one element too far.
CallbacksDone_Terminal == todo = << >> /\ (pos > Len(cbList[curHook]) \/ terminal)
\* invoke_callbacks has come to the end of the list.
CallbacksDone == todo = << >> /\ pos > Len(cbList[curHook])

\* The end of invoke_for_hook and ts_callback: at TXN_CLOSE the Context is
\* deleted, and the status given to ATS is read from it after that, so that it
\* can be any value.
HookDone ==
  /\ ctl = "callbacks" /\ curHook # REMAP
  /\ CallbacksDone
  /\ curHook' = INVALID
  /\ ctl' = "ats"
  /\ IF curHook = TXN_CLOSE THEN ctx' = "deleted" /\ answer' \in Status
                            ELSE UNCHANGED ctx /\ answer' = status
  /\ UNCHANGED <<atsVars, pos, todo, global, terminal, status, hookSet, cbList>>

\* The end of invoke_for_remap and TSRemapDoRemap.  What is returned says
\* whether the URL was remapped, and nothing of _global_status.
RemapDone ==
  /\ ctl = "callbacks" /\ curHook = REMAP
  /\ CallbacksDone
  /\ curHook' = INVALID
  /\ ctl' = "ats"
  /\ answer' = "remap"
  /\ UNCHANGED <<atsVars, pos, todo, ctx, global, terminal, status, hookSet, cbList>>

\* The transaction is over.
Finished == ats = TXN_CLOSE /\ ctl = "ats" /\ UNCHANGED vars

Ats ==
  \/ CB_Txn_Start \/ CB_Txn_Start_NoConfig
  \/ \E h \in Hook : AtsPasses(h) \/ AtsDelivers(h)
  \/ TSRemapDoRemap \/ TSRemapDoRemap_Broken

TxnBox ==
  \/ InvokeRuleDirective \/ RuleDone
  \/ InvokeTopLevel \/ TopLevelDone
  \/ InvokeCallback
  \/ Schedule \/ NotReached
  \/ HookDone \/ RemapDone

Next == Ats \/ TxnBox \/ Finished

Spec == Init /\ [][Next]_vars

\* The thread that delivers an event runs the callback to its end, and ATS
\* takes every transaction to its close.
FairSpec ==
  /\ Spec
  /\ WF_vars(TxnBox)
  /\ WF_vars(Ats)

-----------------------------------------------------------------------------
EventHook == TXN_START..TXN_CLOSE \ {REMAP}

\* The callbacks of hook h that were scheduled before it was over, and those
\* that came too late (on_hook_do keeps them in the list, and never reports it).
InTime(h) == {i \in DOMAIN cbList[h] : cbList[h][i].from <= h}

\* What must be so of the callbacks of hook h when the transaction leaves it.
Settled(h) ==
  \A i \in DOMAIN cbList[h] :
    cbList[h][i].runs = IF i \in InTime(h) THEN 1 ELSE 0

\* No scheduled directive is lost, run twice or run too late: when a delivered
\* event is over, and when ATS passes a hook without delivering it, each
\* callback scheduled in time for that hook has been invoked exactly once and
\* the others never.  This is what hook_set_p, the test against _cur_hook and
\* the list being extended while it is walked have to achieve together.
\* REMAP is apart: each instance on the rule walks its list.
NoCallbackLost ==
  [][\A h \in EventHook : ats' = h /\ ctl' = "ats" => Settled(h)']_vars

\* The scheduling of Context keeps the promise of "when" that Deferred states,
\* for every hook but REMAP.
Slot(h, c) == CASE c.from > h -> "late"
                [] c.from <= h /\ c.runs = 0 -> "due"
                [] c.from <= h /\ c.runs = 1 -> "done"
                [] OTHER -> "again"

slots == [h \in EventHook |-> [i \in DOMAIN cbList[h] |-> Slot(h, cbList[h][i])]]

D == INSTANCE Deferred WITH Hook <- EventHook, at <- ats, slots <- slots

KeepsPromise == D!DeferredSpec

\* The callbacks of a hook are invoked in the order they were scheduled, those
\* that were added while the list was walked included (the comment in
\* invoke_callbacks), in REMAP with several instances as well.
ScheduledOrder ==
  \A h \in Hook : \A i, j \in DOMAIN cbList[h] :
    i < j => cbList[h][i].runs >= cbList[h][j].runs

\* The Context is there whenever a directive runs, whether CB_Txn_Start or
\* TSRemapDoRemap made it, and is gone when the transaction is: enable_hooks
\* always asks for TXN_CLOSE, and nothing is delivered after it.
ContextLife ==
  /\ ctl # "ats" => ctx = "live" /\ curHook = ats
  /\ ats = TXN_CLOSE /\ ctl = "ats" => ctx # "live"

\* A remap rule stops early only because one of its own directives marked the
\* context terminal, never because of one invoked at another hook or by another
\* instance: invoke_for_remap resets _terminal_p before the rule only.
RuleCutShort ==
  [][ctl = "rule" /\ ctl' # "rule" =>
       \/ pos > Len(Rules[ruleIdx])
       \/ \E i \in 1..pos - 1 : Rules[ruleIdx][i] \in MayEnd]_vars

\* Every Context is deleted in the end: it asks for TXN_CLOSE, and every list of
\* directives that is started before that ends, although it can be extended while
\* it is walked.
ContextFreed == ctx = "live" ~> ctx = "deleted"

=============================================================================
