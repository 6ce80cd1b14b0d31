--------------------------- MODULE TxnHooksProofs ---------------------------
(***************************************************************************)
(* Proofs about TxnHooks, for every configuration: the types, the life of  *)
(* the Context, and that no scheduled directive is lost or run twice.      *)
(***************************************************************************)
EXTENDS TxnHooks, SequenceTheorems, TLAPS

\* Nothing is scheduled and no hook is asked for before there is a Context, and
\* a Context is deleted by TXN_CLOSE only.
LifeInv ==
  /\ ctl # "ats" => ctx = "live" /\ curHook = ats /\ ats \in TXN_START..TXN_CLOSE
  /\ ctl = "ats" => todo = << >>
  /\ ctl = "rule" => ruleIdx \in DOMAIN Rules /\ curHook = REMAP
  /\ ~started => ctx = "none" /\ ats = INVALID
  /\ ctx = "none" => /\ atsHooks = {}
                     /\ \A h \in Hook : cbList[h] = << >> /\ ~hookSet[h]
  /\ ctx = "live" => TXN_CLOSE \in atsHooks
  /\ ctx = "deleted" => ats = TXN_CLOSE
  /\ ats = TXN_CLOSE /\ ctl = "ats" => ctx # "live"

\* A callback in time for its hook has that hook set, and a hook that is set is
\* one ATS was asked for.
HookInv ==
  /\ \A h \in Hook : hookSet[h] => TS_Hook(h) \in atsHooks
  /\ \A h \in Hook : \A i \in DOMAIN cbList[h] :
       /\ cbList[h][i].from <= ats
       /\ cbList[h][i].from <= h => hookSet[h]

\* The callbacks of a hook have not been invoked before it is delivered nor
\* while its top level directives are; then they have been up to pos.
RunsInv ==
  /\ ctl = "callbacks" => pos <= Len(cbList[curHook]) + 1
  /\ \A h \in EventHook :
       /\ h > ats \/ (h = ats /\ ctl = "global") =>
            \A i \in DOMAIN cbList[h] : cbList[h][i].runs = 0
       /\ h = ats /\ ctl = "callbacks" =>
            \A i \in DOMAIN cbList[h] :
              cbList[h][i].runs = IF i < pos THEN 1 ELSE 0

IInv == TypeOK /\ LifeInv /\ HookInv /\ RunsInv

-----------------------------------------------------------------------------
\* The lists that are walked hold directives.
LEMMA Lists ==
  ASSUME TypeOK
  PROVE  /\ \A h \in Hook : HookDirectives(h) \in Seq(Directive)
         /\ \A r \in 1..Len(Rules) : Rules[r] \in Seq(Directive)
         /\ \A d \in Directive : Whens[d] \in Seq(When)
BY ConfigAssumption DEF TypeOK, HookDirectives

LEMMA RuleCount == Len(Rules) \in Nat
BY ConfigAssumption

\* on_hook_do keeps the types.
LEMMA OnHookDoTypes ==
  ASSUME TypeOK, NEW w \in When, OnHookDo(w)
  PROVE  /\ atsHooks' \subseteq Hook
         /\ hookSet' \in [Hook -> BOOLEAN]
         /\ cbList' \in [Hook -> Seq(Callback)]
<1>1. TS_Hook(w.hook) \in Hook
  BY DEF TS_Hook, Hook, When, TXN_START, TXN_CLOSE, REMAP, CREQ
<1>2. [drtv |-> w.drtv, from |-> curHook, runs |-> 0] \in Callback
  BY DEF TypeOK, Callback, When
<1>3. cbList' \in [Hook -> Seq(Callback)]
  BY <1>2 DEF OnHookDo, TypeOK, When
<1> QED
  BY <1>1, <1>3 DEF OnHookDo, TypeOK, When

\* Invoking a directive keeps the types of everything but cbList.
LEMMA InvokeTypes ==
  ASSUME TypeOK, NEW d \in Directive, NEW e \in BOOLEAN, Invoke(d, e),
         cbList' \in [Hook -> Seq(Callback)]
  PROVE  TypeOK'
<1>1. terminal' \in BOOLEAN
  BY Zenon DEF Invoke
<1>2. status' \in Status /\ pos' \in Nat \ {0}
  BY DEF TypeOK, Invoke
<1>3. todo' \in Seq(When)
  BY Lists DEF Invoke
<1> QED
  BY <1>1, <1>2, <1>3 DEF TypeOK, Invoke, atsVars

LEMMA NewContextTypes ==
  ASSUME TypeOK, NEW g \in BOOLEAN, NEW drtvs, NewContext(g, drtvs)
  PROVE  /\ ctx' = "live" /\ global' = g
         /\ hookSet' \in [Hook -> BOOLEAN]
         /\ atsHooks' \subseteq Hook
         /\ TXN_CLOSE \in atsHooks'
         /\ \A h \in Hook : hookSet'[h] => TS_Hook(h) \in atsHooks'
<1> DEFINE used == {h \in Hook : drtvs[h] # << >>}
<1>1. \A h \in Hook : TS_Hook(h) \in Hook
  BY DEF TS_Hook, Hook, TXN_START, TXN_CLOSE, REMAP, CREQ
<1>2. hookSet' = [h \in Hook |-> h \in used]
  BY DEF NewContext
<1>3. atsHooks' = {TS_Hook(h) : h \in used} \cup {TXN_CLOSE}
  BY DEF NewContext
<1>4. TXN_CLOSE \in Hook
  BY DEF Hook, TXN_CLOSE
<1>5. hookSet' \in [Hook -> BOOLEAN] /\ \A h \in Hook : hookSet'[h] = (h \in used)
  BY <1>2
<1>6. atsHooks' \subseteq Hook
  BY <1>1, <1>3, <1>4
<1>7. \A h \in Hook : hookSet'[h] => TS_Hook(h) \in atsHooks'
  BY <1>3, <1>5
<1> QED
  BY <1>3, <1>5, <1>6, <1>7 DEF NewContext

LEMMA TypeInit == Init => TypeOK
<1> SUFFICES ASSUME Init PROVE TypeOK
  OBVIOUS
<1>1. << >> \in Seq(When) /\ << >> \in Seq(Callback)
  OBVIOUS
<1>2. cbList \in [Hook -> Seq(Callback)] /\ hookSet \in [Hook -> BOOLEAN]
  BY <1>1 DEF Init
<1>3. INVALID \in Hook /\ 0 \in 0..Len(Rules)
  BY RuleCount DEF Hook, INVALID
<1>4. started \in BOOLEAN /\ global \in BOOLEAN /\ terminal \in BOOLEAN
  BY Zenon DEF Init
<1> QED
  BY <1>1, <1>2, <1>3, <1>4 DEF Init, TypeOK, Status

LEMMA TypeNext == TypeOK /\ [Next]_vars => TypeOK'
<1> SUFFICES ASSUME TypeOK, [Next]_vars PROVE TypeOK'
  OBVIOUS
<1>1. CASE CB_Txn_Start
  BY <1>1, NewContextTypes DEF CB_Txn_Start, TypeOK, Status
<1>2. CASE CB_Txn_Start_NoConfig
  BY <1>2 DEF CB_Txn_Start_NoConfig, TypeOK, ctxVars, Status
<1>3. ASSUME NEW h \in Hook, AtsPasses(h) PROVE TypeOK'
  BY <1>3 DEF AtsPasses, TypeOK, ctxVars
<1>4. ASSUME NEW h \in Hook, AtsDelivers(h) PROVE TypeOK'
  BY <1>4 DEF AtsDelivers, TypeOK, Status
<1>5. CASE TSRemapDoRemap
  <2>1. REMAP \in Hook /\ ruleIdx' \in 0..Len(Rules)
    BY <1>5, RuleCount DEF TSRemapDoRemap, TypeOK, Hook, REMAP
  <2>2. /\ ctx' \in {"none", "live", "deleted"} /\ global' \in BOOLEAN
        /\ hookSet' \in [Hook -> BOOLEAN] /\ atsHooks' \subseteq Hook
    BY <1>5, NewContextTypes DEF TSRemapDoRemap, StartRule, TypeOK
  <2>3. terminal' \in BOOLEAN
    BY <1>5, Zenon DEF TSRemapDoRemap, StartRule
  <2> QED
    BY <1>5, <2>1, <2>2, <2>3 DEF TSRemapDoRemap, StartRule, TypeOK
<1>6. CASE TSRemapDoRemap_Broken
  <2>1. REMAP \in Hook /\ ruleIdx' \in 0..Len(Rules)
    BY <1>6, RuleCount DEF TSRemapDoRemap_Broken, TypeOK, Hook, REMAP
  <2> QED
    BY <1>6, <2>1 DEF TSRemapDoRemap_Broken, TypeOK, ctxVars
<1>7. CASE InvokeRuleDirective
  <2>1. ruleIdx \in 1..Len(Rules)
    BY <1>7 DEF InvokeRuleDirective, TypeOK
  <2> QED
    BY <1>7, <2>1, InvokeTypes, Lists DEF InvokeRuleDirective, TypeOK
<1>8. CASE RuleDone
  BY <1>8 DEF RuleDone, TypeOK, atsVars, ctxVars
<1>9. CASE InvokeTopLevel
  <2>1. /\ HookDirectives(curHook)[pos] \in Directive
        /\ cbList' \in [Hook -> Seq(Callback)]
    BY <1>9, Lists DEF InvokeTopLevel, TypeOK
  <2> QED
    BY <1>9, <2>1, InvokeTypes DEF InvokeTopLevel
<1>10. CASE TopLevelDone
  BY <1>10 DEF TopLevelDone, TypeOK, atsVars, ctxVars
<1>11. CASE InvokeCallback
  <2>1. cbList[curHook][pos] \in Callback
    BY <1>11 DEF InvokeCallback, TypeOK
  <2>2. cbList' \in [Hook -> Seq(Callback)]
    <3>1. Ran(cbList[curHook][pos]) \in Callback
      BY <2>1 DEF Ran, Callback
    <3>2. [cbList[curHook] EXCEPT ![pos] = Ran(cbList[curHook][pos])] \in Seq(Callback)
      BY <1>11, <3>1, ExceptSeq DEF InvokeCallback, TypeOK
    <3> QED
      BY <1>11, <3>2 DEF InvokeCallback, TypeOK
  <2> QED
    BY <1>11, <2>1, <2>2, InvokeTypes DEF InvokeCallback, Callback
<1>12. CASE Schedule
  <2>1. Head(todo) \in When /\ Tail(todo) \in Seq(When)
    BY <1>12 DEF Schedule, TypeOK
  <2> QED
    BY <1>12, <2>1, OnHookDoTypes DEF Schedule, TypeOK
<1>13. CASE NotReached
  BY <1>13 DEF NotReached, TypeOK, atsVars, ctxVars
<1>14. CASE HookDone
  <2>1. /\ ctx' \in {"none", "live", "deleted"}
        /\ answer' \in Status
    BY <1>14 DEF HookDone, TypeOK
  <2> QED
    BY <1>14, <2>1 DEF HookDone, TypeOK, atsVars, Hook, INVALID
<1>15. CASE RemapDone
  BY <1>15 DEF RemapDone, TypeOK, atsVars, Hook, INVALID
<1>16. CASE UNCHANGED vars
  BY <1>16 DEF TypeOK, vars, atsVars, ctxVars
<1> QED
  BY <1>1, <1>2, <1>3, <1>4, <1>5, <1>6, <1>7, <1>8, <1>9, <1>10, <1>11,
     <1>12, <1>13, <1>14, <1>15, <1>16 DEF Next, Ats, TxnBox, Finished

\* Every variable keeps its type, for every configuration.
THEOREM TypeCorrect == Spec => []TypeOK
BY TypeInit, TypeNext, PTL DEF Spec

-----------------------------------------------------------------------------
USE DEF INVALID, TXN_START, CREQ, REMAP, TXN_CLOSE

\* The elements of the lists.
LEMMA Elements ==
  ASSUME TypeOK
  PROVE  \A h \in Hook :
           /\ DOMAIN cbList[h] = 1..Len(cbList[h])
           /\ Len(cbList[h]) \in Nat
           /\ \A i \in DOMAIN cbList[h] :
                /\ i \in Nat \ {0} /\ i <= Len(cbList[h]) /\ ~(i < 1)
                /\ cbList[h][i].from \in Hook /\ cbList[h][i].from \in Nat
                /\ cbList[h][i].runs \in Nat
<1> SUFFICES ASSUME NEW h \in Hook
             PROVE  /\ DOMAIN cbList[h] = 1..Len(cbList[h]) /\ Len(cbList[h]) \in Nat
                    /\ \A i \in DOMAIN cbList[h] :
                         /\ i \in Nat \ {0} /\ i <= Len(cbList[h]) /\ ~(i < 1)
                         /\ cbList[h][i].from \in Hook /\ cbList[h][i].from \in Nat
                         /\ cbList[h][i].runs \in Nat
  OBVIOUS
<1>1. cbList[h] \in Seq(Callback)
  BY DEF TypeOK
<1>2. DOMAIN cbList[h] = 1..Len(cbList[h]) /\ Len(cbList[h]) \in Nat
  BY <1>1
<1>3. ASSUME NEW i \in DOMAIN cbList[h]
      PROVE  /\ cbList[h][i].from \in Hook /\ cbList[h][i].from \in Nat
             /\ cbList[h][i].runs \in Nat
  <2>1. cbList[h][i] \in Callback
    BY <1>1
  <2>2. cbList[h][i].from \in Hook /\ cbList[h][i].runs \in Nat
    BY <2>1 DEF Callback
  <2> QED
    BY <2>2 DEF Hook
<1>4. \A i \in 1..Len(cbList[h]) : i \in Nat \ {0} /\ i <= Len(cbList[h]) /\ ~(i < 1)
  BY <1>2
<1> QED
  BY <1>2, <1>3, <1>4

\* What invoking a callback changes in the lists: one element, its count.
LEMMA RunEffect ==
  ASSUME TypeOK, InvokeCallback
  PROVE  /\ pos \in DOMAIN cbList[curHook]
         /\ \A h \in Hook : DOMAIN cbList'[h] = DOMAIN cbList[h]
         /\ \A h \in Hook : Len(cbList'[h]) = Len(cbList[h])
         /\ \A h \in Hook : \A i \in DOMAIN cbList[h] :
              /\ cbList'[h][i].from = cbList[h][i].from
              /\ cbList'[h][i].runs = IF h = curHook /\ i = pos
                                        THEN cbList[h][i].runs + 1
                                        ELSE cbList[h][i].runs
<1> DEFINE list == cbList[curHook]
           new  == [list EXCEPT ![pos] = Ran(list[pos])]
<1>1. list \in Seq(Callback) /\ pos \in 1..Len(list) /\ curHook \in Hook
  BY DEF TypeOK, InvokeCallback
<1>2. Ran(list[pos]) \in Callback /\ Ran(list[pos]).from = list[pos].from
      /\ Ran(list[pos]).runs = list[pos].runs + 1
  <2>1. list[pos] \in Callback
    BY <1>1
  <2> QED
    BY <2>1 DEF Ran, Callback
<1>3. /\ Len(new) = Len(list) /\ new \in Seq(Callback)
      /\ \A j \in 1..Len(list) : new[j] = IF j = pos THEN Ran(list[pos]) ELSE list[j]
  BY <1>1, <1>2, ExceptSeq
<1>4. \A h \in Hook : cbList'[h] = IF h = curHook THEN new ELSE cbList[h]
  BY <1>1 DEF InvokeCallback, TypeOK
<1>5. DOMAIN new = DOMAIN list /\ DOMAIN list = 1..Len(list)
  BY <1>1, <1>3
<1> HIDE DEF new
<1> QED
  BY <1>1, <1>2, <1>3, <1>4, <1>5

\* What scheduling changes: one list has a new last element.
LEMMA ScheduleEffect ==
  ASSUME TypeOK, NEW w \in When, OnHookDo(w)
  PROVE  \A h \in Hook :
           /\ \A i \in DOMAIN cbList[h] :
                i \in DOMAIN cbList'[h] /\ cbList'[h][i] = cbList[h][i]
           /\ Len(cbList'[h]) >= Len(cbList[h])
           /\ \A i \in DOMAIN cbList'[h] \ DOMAIN cbList[h] :
                /\ h = w.hook /\ i = Len(cbList[h]) + 1
                /\ cbList'[h][i].from = curHook /\ cbList'[h][i].runs = 0
<1> SUFFICES ASSUME NEW h \in Hook
             PROVE  /\ \A i \in DOMAIN cbList[h] :
                         i \in DOMAIN cbList'[h] /\ cbList'[h][i] = cbList[h][i]
                    /\ Len(cbList'[h]) >= Len(cbList[h])
                    /\ \A i \in DOMAIN cbList'[h] \ DOMAIN cbList[h] :
                         /\ h = w.hook /\ i = Len(cbList[h]) + 1
                         /\ cbList'[h][i].from = curHook /\ cbList'[h][i].runs = 0
  OBVIOUS
<1> DEFINE cb == [drtv |-> w.drtv, from |-> curHook, runs |-> 0]
<1>1. cb \in Callback /\ cb.from = curHook /\ cb.runs = 0
  BY DEF TypeOK, Callback, When
<1>2. /\ cbList[h] \in Seq(Callback)
      /\ DOMAIN cbList[h] = 1..Len(cbList[h]) /\ Len(cbList[h]) \in Nat
  BY DEF TypeOK
<1>3. cbList'[h] = IF h = w.hook THEN Append(cbList[h], cb) ELSE cbList[h]
  BY DEF OnHookDo, TypeOK, When
<1> HIDE DEF cb
<1>4. /\ DOMAIN Append(cbList[h], cb) = 1..Len(cbList[h]) + 1
      /\ Len(Append(cbList[h], cb)) = Len(cbList[h]) + 1
      /\ \A i \in 1..Len(cbList[h]) : Append(cbList[h], cb)[i] = cbList[h][i]
      /\ Append(cbList[h], cb)[Len(cbList[h]) + 1] = cb
  BY <1>1, <1>2, AppendProperties
<1> QED
  BY <1>1, <1>2, <1>3, <1>4

LEMMA InitInv == Init => IInv
<1> SUFFICES ASSUME Init PROVE IInv
  OBVIOUS
<1>1. LifeInv
  BY DEF Init, LifeInv
<1>2. HookInv /\ RunsInv
  BY DEF Init, HookInv, RunsInv, EventHook, Hook
<1> QED
  BY <1>1, <1>2, TypeInit DEF IInv

LEMMA LifeNext == IInv /\ [Next]_vars => LifeInv'
<1> SUFFICES ASSUME IInv, [Next]_vars PROVE LifeInv'
  OBVIOUS
<1> USE DEF IInv
<1>1. CASE CB_Txn_Start
  <2>1. ctx' = "live" /\ TXN_CLOSE \in atsHooks'
    BY <1>1, NewContextTypes DEF CB_Txn_Start
  <2> QED
    BY <1>1, <2>1 DEF CB_Txn_Start, LifeInv
<1>2. CASE CB_Txn_Start_NoConfig
  BY <1>2 DEF CB_Txn_Start_NoConfig, LifeInv, ctxVars
<1>3. ASSUME NEW h \in Hook, AtsPasses(h) PROVE LifeInv'
  <2>1. /\ started /\ h > ats /\ h <= TXN_CLOSE /\ h \notin atsHooks
        /\ h \in 0..12 /\ ats \in 0..12 /\ ctl = "ats"
    BY <1>3 DEF AtsPasses, Reaches, TypeOK, Hook
  <2>2. ctx # "deleted" /\ (ctx = "live" => h # TXN_CLOSE)
    BY <2>1 DEF LifeInv
  <2> QED
    BY <1>3, <2>1, <2>2 DEF AtsPasses, LifeInv, ctxVars
<1>4. ASSUME NEW h \in Hook, AtsDelivers(h) PROVE LifeInv'
  <2>1. started /\ h > ats /\ h \in TXN_START..TXN_CLOSE /\ h \in atsHooks
    BY <1>4 DEF AtsDelivers, Reaches
  <2>2. ctx = "live"
    BY <2>1 DEF LifeInv, TypeOK
  <2> QED
    BY <1>4, <2>1, <2>2 DEF AtsDelivers, LifeInv
<1>5. CASE TSRemapDoRemap
  <2>1. ruleIdx' \in DOMAIN Rules
    BY <1>5, RuleCount, ConfigAssumption DEF TSRemapDoRemap, TypeOK
  <2>2. ctx' = "live" /\ TXN_CLOSE \in atsHooks'
    <3>1. CASE ctx = "none"
      BY <1>5, <3>1, NewContextTypes DEF TSRemapDoRemap
    <3>2. CASE ctx # "none"
      <4>1. ctx # "deleted"
        BY <1>5 DEF TSRemapDoRemap, LifeInv
      <4> QED
        BY <1>5, <3>2, <4>1 DEF TSRemapDoRemap, StartRule, LifeInv, TypeOK
    <3> QED
      BY <3>1, <3>2
  <2> QED
    BY <1>5, <2>1, <2>2 DEF TSRemapDoRemap, StartRule, LifeInv, TypeOK
<1>6. CASE TSRemapDoRemap_Broken
  BY <1>6 DEF TSRemapDoRemap_Broken, LifeInv, ctxVars
<1>7. CASE InvokeRuleDirective
  BY <1>7 DEF InvokeRuleDirective, Invoke, LifeInv, atsVars
<1>8. CASE RuleDone
  BY <1>8 DEF RuleDone, LifeInv, atsVars, ctxVars
<1>9. CASE InvokeTopLevel
  BY <1>9 DEF InvokeTopLevel, Invoke, LifeInv, atsVars
<1>10. CASE TopLevelDone
  BY <1>10 DEF TopLevelDone, LifeInv, atsVars, ctxVars
<1>11. CASE InvokeCallback
  BY <1>11 DEF InvokeCallback, Invoke, LifeInv, atsVars
<1>12. CASE Schedule
  BY <1>12 DEF Schedule, OnHookDo, LifeInv
<1>13. CASE NotReached
  BY <1>13 DEF NotReached, LifeInv, atsVars, ctxVars
<1>14. CASE HookDone
  BY <1>14 DEF HookDone, CallbacksDone, LifeInv, atsVars
<1>15. CASE RemapDone
  BY <1>15 DEF RemapDone, CallbacksDone, LifeInv, atsVars
<1>16. CASE UNCHANGED vars
  BY <1>16 DEF LifeInv, vars, atsVars, ctxVars
<1> QED
  BY <1>1, <1>2, <1>3, <1>4, <1>5, <1>6, <1>7, <1>8, <1>9, <1>10, <1>11,
     <1>12, <1>13, <1>14, <1>15, <1>16 DEF Next, Ats, TxnBox, Finished

LEMMA HookNext == IInv /\ [Next]_vars => HookInv'
<1> SUFFICES ASSUME IInv, [Next]_vars PROVE HookInv'
  OBVIOUS
<1> USE DEF IInv
<1>0. ats \in 0..12 /\ Hook = 0..12
  BY DEF TypeOK, Hook
<1>1. ASSUME NEW drtvs, NEW g \in BOOLEAN, NewContext(g, drtvs), ctx = "none",
             UNCHANGED cbList
      PROVE  HookInv'
  <2>1. \A h \in Hook : DOMAIN cbList'[h] = {}
    BY <1>1 DEF LifeInv
  <2> QED
    BY <1>1, <2>1, NewContextTypes DEF HookInv, TS_Hook
<1>2. ASSUME UNCHANGED <<atsHooks, hookSet, cbList>>, ats' \in Hook, ats' >= ats
      PROVE  HookInv'
  <2>1. \A h \in Hook : \A i \in DOMAIN cbList[h] : cbList[h][i].from \in Nat
    BY <1>0, Elements
  <2> QED
    BY <1>0, <1>2, <2>1 DEF HookInv, TS_Hook, Hook
<1>3. CASE CB_Txn_Start
  BY <1>1, <1>3 DEF CB_Txn_Start, LifeInv
<1>4. ASSUME NEW h \in Hook, AtsPasses(h) \/ AtsDelivers(h) PROVE HookInv'
  BY <1>0, <1>2, <1>4 DEF AtsPasses, AtsDelivers, Reaches, ctxVars
<1>5. CASE TSRemapDoRemap
  <2>1. CASE ctx = "none"
    BY <1>1, <1>5, <2>1 DEF TSRemapDoRemap, StartRule
  <2>2. CASE ctx # "none"
    BY <1>0, <1>2, <1>5, <2>2 DEF TSRemapDoRemap, StartRule
  <2> QED
    BY <2>1, <2>2
<1>6. CASE TSRemapDoRemap_Broken
  BY <1>0, <1>2, <1>6 DEF TSRemapDoRemap_Broken, ctxVars
<1>7. CASE InvokeCallback
  <2>1. \A h \in Hook : DOMAIN cbList'[h] = DOMAIN cbList[h]
    BY <1>7, RunEffect
  <2>2. \A h \in Hook : \A i \in DOMAIN cbList[h] : cbList'[h][i].from = cbList[h][i].from
    BY <1>7, RunEffect
  <2>3. UNCHANGED <<atsHooks, hookSet, ats>>
    BY <1>7 DEF InvokeCallback, Invoke, atsVars
  <2> QED
    BY <2>1, <2>2, <2>3 DEF HookInv, TS_Hook
<1>8. CASE Schedule
  <2> DEFINE w == Head(todo)
  <2>1. w \in When /\ OnHookDo(w) /\ UNCHANGED ats /\ curHook = ats
    BY <1>8 DEF Schedule, TypeOK, LifeInv
  <2> HIDE DEF w
  <2>2. \A h \in Hook : hookSet'[h] => TS_Hook(h) \in atsHooks'
    BY <2>1 DEF OnHookDo, HookInv, TypeOK
  <2>3. \A h \in Hook : hookSet[h] => hookSet'[h]
    BY <2>1 DEF OnHookDo, TypeOK
  <2>4. w.hook >= curHook => hookSet'[w.hook]
    BY <2>1 DEF OnHookDo, TypeOK, When
  <2>5. ASSUME NEW h \in Hook, NEW i \in DOMAIN cbList'[h]
        PROVE  cbList'[h][i].from <= ats /\ (cbList'[h][i].from <= h => hookSet'[h])
    <3>1. CASE i \in DOMAIN cbList[h]
      BY <2>1, <2>3, <3>1, ScheduleEffect DEF HookInv
    <3>2. CASE i \notin DOMAIN cbList[h]
      <4>1. h = w.hook /\ cbList'[h][i].from = curHook
        BY <2>1, <3>2, ScheduleEffect
      <4> QED
        BY <1>0, <2>1, <2>4, <4>1
    <3> QED
      BY <3>1, <3>2
  <2> QED
    BY <2>1, <2>2, <2>5 DEF HookInv, TS_Hook
<1>9. CASE UNCHANGED <<ats, atsHooks, hookSet, cbList>>
  BY <1>0, <1>2, <1>9
<1> QED
  BY <1>3, <1>4, <1>5, <1>6, <1>7, <1>8, <1>9
     DEF Next, Ats, TxnBox, Finished, CB_Txn_Start_NoConfig, InvokeRuleDirective,
         RuleDone, InvokeTopLevel, TopLevelDone, NotReached, HookDone, RemapDone,
         Invoke, vars, atsVars, ctxVars

LEMMA RunsNext == IInv /\ [Next]_vars => RunsInv'
<1> SUFFICES ASSUME IInv, [Next]_vars PROVE RunsInv'
  OBVIOUS
<1> USE DEF IInv
<1>0. /\ ats \in 0..12 /\ Hook = 0..12 /\ EventHook \subseteq Hook
      /\ REMAP \notin EventHook /\ INVALID \notin EventHook
      /\ pos \in Nat \ {0} /\ curHook \in Hook
  BY DEF TypeOK, Hook, EventHook
\* What neither invokes nor schedules nor starts on the callbacks.
<1>1. ASSUME UNCHANGED cbList, ats' >= ats, ats' \in Hook,
             ctl' = "callbacks" => ctl = "callbacks" /\ UNCHANGED <<ats, pos, curHook>>,
             ctl' = "global" => ctl = "global" \/ ats' > ats \/ ats' = REMAP
      PROVE  RunsInv'
  BY <1>0, <1>1 DEF RunsInv
<1>2. CASE TopLevelDone
  <2>1. UNCHANGED <<cbList, ats, curHook>> /\ ctl = "global" /\ ctl' = "callbacks" /\ pos' = 1
    BY <1>2 DEF TopLevelDone, atsVars, ctxVars
  <2>2. \A h \in Hook : \A i \in DOMAIN cbList[h] : ~(i < 1)
    BY <1>0, Elements
  <2>3. Len(cbList[curHook]) \in Nat
    BY <1>0, Elements
  <2> QED
    BY <1>0, <2>1, <2>2, <2>3 DEF RunsInv
<1>3. CASE InvokeCallback
  <2>1. /\ UNCHANGED <<ats, ctl, curHook>> /\ ctl = "callbacks" /\ pos' = pos + 1
        /\ curHook = ats /\ pos <= Len(cbList[curHook])
    BY <1>3 DEF InvokeCallback, Invoke, atsVars, LifeInv
  <2>2. /\ \A h \in Hook : DOMAIN cbList'[h] = DOMAIN cbList[h]
        /\ \A h \in Hook : Len(cbList'[h]) = Len(cbList[h])
        /\ \A h \in Hook : \A i \in DOMAIN cbList[h] :
             cbList'[h][i].runs = IF h = curHook /\ i = pos
                                    THEN cbList[h][i].runs + 1 ELSE cbList[h][i].runs
    BY <1>3, RunEffect
  <2>3. ASSUME NEW h \in EventHook, h > ats, NEW i \in DOMAIN cbList'[h]
        PROVE  cbList'[h][i].runs = 0
    <3>1. h \in Hook /\ h # curHook
      BY <1>0, <2>1, <2>3
    <3>2. i \in DOMAIN cbList[h] /\ cbList'[h][i].runs = cbList[h][i].runs
      BY <2>2, <2>3, <3>1
    <3> QED
      BY <2>3, <3>2 DEF RunsInv
  <2>4. ASSUME NEW h \in EventHook, h = ats, NEW i \in DOMAIN cbList'[h]
        PROVE  cbList'[h][i].runs = IF i < pos' THEN 1 ELSE 0
    <3>1. i \in DOMAIN cbList[h] /\ i \in Nat /\ h \in Hook /\ h = curHook
      BY <1>0, <2>1, <2>2, <2>4, Elements
    <3>3. cbList'[h][i].runs = IF i = pos THEN cbList[h][i].runs + 1 ELSE cbList[h][i].runs
      BY <2>2, <3>1
    <3>2. cbList[h][i].runs = IF i < pos THEN 1 ELSE 0
      BY <2>1, <2>4, <3>1 DEF RunsInv
    <3> QED
      BY <1>0, <2>1, <3>1, <3>2, <3>3
  <2>5. pos' <= Len(cbList'[curHook]) + 1
    <3>1. Len(cbList'[curHook]) = Len(cbList[curHook]) /\ Len(cbList[curHook]) \in Nat
      BY <1>0, <2>2, Elements
    <3> QED
      BY <1>0, <2>1, <3>1
  <2> QED
    BY <2>1, <2>3, <2>4, <2>5 DEF RunsInv
<1>4. CASE Schedule
  <2> DEFINE w == Head(todo)
  <2>1. w \in When /\ OnHookDo(w) /\ UNCHANGED <<ats, ctl, pos, curHook>>
        /\ (ctl = "callbacks" => curHook = ats)
    BY <1>4 DEF Schedule, TypeOK, LifeInv
  <2> HIDE DEF w
  <2>2. \A h \in Hook :
          /\ \A i \in DOMAIN cbList[h] : cbList'[h][i] = cbList[h][i]
          /\ Len(cbList'[h]) >= Len(cbList[h])
          /\ \A i \in DOMAIN cbList'[h] \ DOMAIN cbList[h] :
               i = Len(cbList[h]) + 1 /\ cbList'[h][i].runs = 0
    BY <2>1, ScheduleEffect
  <2>3. ASSUME NEW h \in EventHook, h > ats \/ (h = ats /\ ctl = "global"),
               NEW i \in DOMAIN cbList'[h]
        PROVE  cbList'[h][i].runs = 0
    <3>1. h \in Hook
      BY <1>0
    <3>2. i \in DOMAIN cbList[h] => cbList'[h][i].runs = cbList[h][i].runs
      BY <2>2, <3>1
    <3>3. i \notin DOMAIN cbList[h] => cbList'[h][i].runs = 0
      BY <2>2, <3>1
    <3> QED
      BY <2>3, <3>2, <3>3 DEF RunsInv
  <2>4. ASSUME NEW h \in EventHook, h = ats, ctl = "callbacks", NEW i \in DOMAIN cbList'[h]
        PROVE  cbList'[h][i].runs = IF i < pos THEN 1 ELSE 0
    <3>1. CASE i \in DOMAIN cbList[h]
      <4>1. cbList'[h][i].runs = cbList[h][i].runs
        BY <1>0, <2>2, <3>1
      <4> QED
        BY <2>4, <3>1, <4>1 DEF RunsInv
    <3>2. CASE i \notin DOMAIN cbList[h]
      <4>1. i = Len(cbList[h]) + 1 /\ cbList'[h][i].runs = 0 /\ Len(cbList[h]) \in Nat
        BY <1>0, <2>2, <3>2, Elements
      <4>2. pos <= Len(cbList[h]) + 1
        BY <2>1, <2>4 DEF RunsInv
      <4> QED
        BY <1>0, <4>1, <4>2
    <3> QED
      BY <3>1, <3>2
  <2>5. ctl = "callbacks" => pos <= Len(cbList'[curHook]) + 1
    <3>1. ASSUME NEW l \in Nat, NEW m \in Int, m >= l, pos <= l + 1 PROVE pos <= m + 1
      BY <1>0, <3>1
    <3>2. Len(cbList[curHook]) \in Nat
      BY <1>0, Elements
    <3>3. cbList'[curHook] \in Seq(Callback)
      BY <1>0, <2>1, OnHookDoTypes
    <3>4. Len(cbList'[curHook]) \in Int
      BY <3>3
    <3> QED
      BY <1>0, <2>2, <3>1, <3>2, <3>4 DEF RunsInv
  <2> QED
    BY <2>1, <2>3, <2>4, <2>5 DEF RunsInv
<1>5. CASE CB_Txn_Start \/ CB_Txn_Start_NoConfig
  <2>1. UNCHANGED <<cbList, ats, ctl, pos, curHook>>
    BY <1>5 DEF CB_Txn_Start, CB_Txn_Start_NoConfig, ctxVars
  <2> QED
    BY <1>0, <1>1, <2>1
<1>6. ASSUME NEW h \in Hook, AtsPasses(h) \/ AtsDelivers(h) PROVE RunsInv'
  BY <1>0, <1>1, <1>6 DEF AtsPasses, AtsDelivers, Reaches, ctxVars
<1>7. CASE TSRemapDoRemap \/ TSRemapDoRemap_Broken
  <2>1. /\ UNCHANGED cbList /\ ats' = 7 /\ ats \in 4..7 /\ ctl = "ats"
        /\ ctl' \in {"rule", "ats"}
    BY <1>7 DEF TSRemapDoRemap, StartRule, TSRemapDoRemap_Broken, ctxVars
  <2> QED
    BY <1>0, <1>1, <2>1
<1>8. CASE RuleDone
  BY <1>0, <1>1, <1>8 DEF RuleDone, LifeInv, atsVars, ctxVars
<1>9. CASE \/ InvokeRuleDirective \/ InvokeTopLevel \/ NotReached
           \/ HookDone \/ RemapDone \/ UNCHANGED vars
  BY <1>0, <1>1, <1>9
     DEF InvokeRuleDirective, InvokeTopLevel, NotReached, HookDone, RemapDone,
         Invoke, vars, atsVars, ctxVars
<1> QED
  BY <1>2, <1>3, <1>4, <1>5, <1>6, <1>7, <1>8, <1>9 DEF Next, Ats, TxnBox, Finished

LEMMA Inductive == IInv /\ [Next]_vars => IInv'
BY TypeNext, LifeNext, HookNext, RunsNext DEF IInv

LEMMA Invariance == Spec => []IInv
BY InitInv, Inductive, PTL DEF Spec

\* The Context is there whenever a directive runs, and is gone at the end.
THEOREM ContextLives == Spec => []ContextLife
<1>1. IInv => ContextLife
  BY DEF IInv, LifeInv, ContextLife
<1> QED
  BY <1>1, Invariance, PTL

\* What HookDone and AtsPasses leave behind them.
LEMMA SettledStep ==
  ASSUME IInv, Next, NEW h \in EventHook, ats' = h, ctl' = "ats"
  PROVE  Settled(h)' \/ UNCHANGED vars
<1> USE DEF IInv
<1>0. /\ ats \in 0..12 /\ Hook = 0..12 /\ h \in Hook /\ h # REMAP /\ h # INVALID
      /\ h \in TXN_START..TXN_CLOSE
  <2>1. h \in 4..12 /\ h # 7
    BY DEF EventHook
  <2>2. ats \in 0..12 /\ Hook = 0..12
    BY DEF TypeOK, Hook
  <2> QED
    BY <2>1, <2>2
<1>1. ASSUME UNCHANGED cbList,
             \A i \in DOMAIN cbList[h] : cbList[h][i].from <= h /\ cbList[h][i].runs = 1
      PROVE  Settled(h)'
  BY <1>1 DEF Settled, InTime
<1>2. ASSUME AtsPasses(h) PROVE Settled(h)'
  <2>1. h > ats /\ h \notin atsHooks /\ UNCHANGED cbList
    BY <1>2 DEF AtsPasses, Reaches, ctxVars
  <2>2. ~hookSet[h]
    BY <1>0, <2>1 DEF HookInv, TS_Hook
  <2>3. ASSUME NEW i \in DOMAIN cbList[h] PROVE FALSE
    <3>1. cbList[h][i].from \in Nat /\ cbList[h][i].from <= ats
      BY <1>0, Elements DEF HookInv
    <3>2. cbList[h][i].from <= h
      BY <1>0, <2>1, <3>1
    <3> QED
      BY <1>0, <2>2, <3>2 DEF HookInv
  <2> QED
    BY <1>1, <2>1, <2>3
<1>3. CASE HookDone
  <2>1. /\ ats = h /\ curHook = h /\ ctl = "callbacks" /\ UNCHANGED cbList
        /\ pos > Len(cbList[h]) /\ pos \in Nat
    BY <1>3 DEF HookDone, CallbacksDone, LifeInv, TypeOK, atsVars
  <2>2. ASSUME NEW i \in DOMAIN cbList[h]
        PROVE  cbList[h][i].from <= h /\ cbList[h][i].runs = 1
    <3>1. i \in Nat /\ i <= Len(cbList[h]) /\ Len(cbList[h]) \in Nat
      BY <1>0, Elements
    <3>2. i < pos
      BY <2>1, <3>1
    <3> QED
      BY <1>0, <2>1, <3>2 DEF HookInv, RunsInv
  <2> QED
    BY <1>1, <2>1, <2>2
<1>4. ASSUME NEW g \in Hook, AtsPasses(g) PROVE g = h
  BY <1>4 DEF AtsPasses
<1>5. ~(CB_Txn_Start \/ CB_Txn_Start_NoConfig)
  BY <1>0 DEF CB_Txn_Start, CB_Txn_Start_NoConfig, LifeInv
<1>6. ~(TSRemapDoRemap \/ TSRemapDoRemap_Broken \/ RemapDone)
  BY <1>0 DEF TSRemapDoRemap, TSRemapDoRemap_Broken, RemapDone, LifeInv, atsVars
<1>7. \A g \in Hook : ~AtsDelivers(g)
  BY DEF AtsDelivers
<1>8. ~(\/ InvokeRuleDirective \/ RuleDone \/ InvokeTopLevel \/ TopLevelDone
        \/ InvokeCallback \/ Schedule \/ NotReached)
  BY DEF InvokeRuleDirective, RuleDone, InvokeTopLevel, TopLevelDone,
         InvokeCallback, Schedule, NotReached, Invoke
<1> QED
  BY <1>2, <1>3, <1>4, <1>5, <1>6, <1>7, <1>8 DEF Next, Ats, TxnBox, Finished

\* For every configuration: no directive scheduled in time for a hook is lost,
\* none is run twice, and none is run that was scheduled too late.
THEOREM NoneLost == Spec => NoCallbackLost
<1>1. IInv /\ [Next]_vars =>
        [\A h \in EventHook : ats' = h /\ ctl' = "ats" => Settled(h)']_vars
  BY SettledStep
<1> QED
  BY <1>1, Invariance, PTL DEF Spec, NoCallbackLost

-----------------------------------------------------------------------------
\* While a list is walked, what is behind pos is one invocation ahead.
WalkInv ==
  ctl = "callbacks" =>
    \A i \in DOMAIN cbList[curHook] : i < pos =>
      /\ cbList[curHook][i].runs > 0
      /\ \A j \in DOMAIN cbList[curHook] :
           pos <= j => cbList[curHook][i].runs > cbList[curHook][j].runs

OrderInv == ScheduledOrder /\ WalkInv

LEMMA OrderNext == IInv /\ OrderInv /\ [Next]_vars => OrderInv'
<1> SUFFICES ASSUME IInv, OrderInv, [Next]_vars PROVE OrderInv'
  OBVIOUS
<1> USE DEF IInv
<1>0. pos \in Nat \ {0} /\ curHook \in Hook
  BY DEF TypeOK
<1>1. ASSUME UNCHANGED cbList,
             ctl' = "callbacks" => ctl = "callbacks" /\ UNCHANGED <<pos, curHook>>
      PROVE  OrderInv'
  BY <1>1 DEF OrderInv, ScheduledOrder, WalkInv
<1>2. CASE TopLevelDone
  <2>1. UNCHANGED <<cbList, curHook>> /\ pos' = 1
    BY <1>2 DEF TopLevelDone, ctxVars
  <2>2. \A i \in DOMAIN cbList[curHook] : ~(i < 1)
    BY <1>0, Elements
  <2> QED
    BY <2>1, <2>2 DEF OrderInv, ScheduledOrder, WalkInv
<1>3. CASE InvokeCallback
  <2>1. ctl = "callbacks" /\ pos' = pos + 1 /\ UNCHANGED curHook
    BY <1>3 DEF InvokeCallback, Invoke
  <2>2. \A h \in Hook : \A i \in DOMAIN cbList'[h] :
          /\ i \in DOMAIN cbList[h] /\ i \in Nat /\ cbList[h][i].runs \in Nat
          /\ cbList'[h][i].runs = IF h = curHook /\ i = pos
                                    THEN cbList[h][i].runs + 1 ELSE cbList[h][i].runs
    BY <1>3, RunEffect, Elements
  <2>3. ASSUME NEW h \in Hook, NEW i \in DOMAIN cbList'[h], NEW j \in DOMAIN cbList'[h], i < j
        PROVE  cbList'[h][i].runs >= cbList'[h][j].runs
    <3>1. cbList[h][i].runs >= cbList[h][j].runs
      BY <2>2, <2>3 DEF OrderInv, ScheduledOrder
    <3>2. h = curHook /\ j = pos => cbList[h][i].runs > cbList[h][j].runs
      BY <1>0, <2>1, <2>2, <2>3 DEF OrderInv, WalkInv
    <3>3. /\ i \in Nat /\ j \in Nat /\ cbList[h][i].runs \in Nat /\ cbList[h][j].runs \in Nat
          /\ cbList'[h][i].runs = IF h = curHook /\ i = pos
                                    THEN cbList[h][i].runs + 1 ELSE cbList[h][i].runs
          /\ cbList'[h][j].runs = IF h = curHook /\ j = pos
                                    THEN cbList[h][j].runs + 1 ELSE cbList[h][j].runs
      BY <2>2, <2>3
    <3> QED
      BY <1>0, <2>3, <3>1, <3>2, <3>3
  <2>4. ASSUME NEW i \in DOMAIN cbList'[curHook], NEW j \in DOMAIN cbList'[curHook],
               i < pos + 1, pos + 1 <= j
        PROVE  cbList'[curHook][i].runs > cbList'[curHook][j].runs
    <3>1. /\ i \in Nat /\ j \in Nat
          /\ cbList[curHook][i].runs \in Nat /\ cbList[curHook][j].runs \in Nat
          /\ cbList'[curHook][i].runs = IF i = pos
                                    THEN cbList[curHook][i].runs + 1 ELSE cbList[curHook][i].runs
          /\ cbList'[curHook][j].runs = IF j = pos
                                    THEN cbList[curHook][j].runs + 1 ELSE cbList[curHook][j].runs
          /\ i \in DOMAIN cbList[curHook] /\ j \in DOMAIN cbList[curHook]
      BY <1>0, <2>2, <2>4
    <3>2. cbList[curHook][i].runs >= cbList[curHook][j].runs
      BY <1>0, <2>4, <3>1 DEF OrderInv, ScheduledOrder
    <3>3. i < pos => cbList[curHook][i].runs > cbList[curHook][j].runs
      BY <1>0, <2>1, <2>4, <3>1 DEF OrderInv, WalkInv
    <3> QED
      BY <1>0, <2>4, <3>1, <3>2, <3>3
  <2>5. ASSUME NEW i \in DOMAIN cbList'[curHook], i < pos + 1
        PROVE  cbList'[curHook][i].runs > 0
    <3>1. /\ i \in Nat /\ cbList[curHook][i].runs \in Nat /\ i \in DOMAIN cbList[curHook]
          /\ cbList'[curHook][i].runs = IF i = pos
                                    THEN cbList[curHook][i].runs + 1 ELSE cbList[curHook][i].runs
      BY <1>0, <2>2, <2>5
    <3>2. i < pos => cbList[curHook][i].runs > 0
      BY <2>1, <3>1 DEF OrderInv, WalkInv
    <3> QED
      BY <1>0, <2>5, <3>1, <3>2
  <2> QED
    BY <2>1, <2>3, <2>4, <2>5 DEF OrderInv, ScheduledOrder, WalkInv
<1>4. CASE Schedule
  <2> DEFINE w == Head(todo)
  <2>1. w \in When /\ OnHookDo(w) /\ UNCHANGED <<ctl, pos, curHook>>
    BY <1>4 DEF Schedule, TypeOK
  <2> HIDE DEF w
  <2>2. \A h \in Hook :
          /\ \A i \in DOMAIN cbList[h] : cbList'[h][i] = cbList[h][i]
          /\ \A i \in DOMAIN cbList'[h] \ DOMAIN cbList[h] :
               i = Len(cbList[h]) + 1 /\ cbList'[h][i].runs = 0
    BY <2>1, ScheduleEffect
  <2>3. \A h \in Hook : DOMAIN cbList[h] = 1..Len(cbList[h]) /\ Len(cbList[h]) \in Nat
    BY Elements
  \* Of two elements the first is an old one, and a new last one has not run.
  <2>4. ASSUME NEW h \in Hook, NEW i \in DOMAIN cbList'[h], NEW j \in DOMAIN cbList'[h], i < j
        PROVE  /\ i \in DOMAIN cbList[h] /\ cbList'[h][i].runs = cbList[h][i].runs
               /\ \/ j \in DOMAIN cbList[h] /\ cbList'[h][j].runs = cbList[h][j].runs
                  \/ j = Len(cbList[h]) + 1 /\ cbList'[h][j].runs = 0
    <3>1. i \notin DOMAIN cbList[h] => i = Len(cbList[h]) + 1
      BY <2>2, <2>4
    <3>2. j \in DOMAIN cbList[h] \/ (j = Len(cbList[h]) + 1 /\ cbList'[h][j].runs = 0)
      BY <2>2, <2>4
    <3>3. i \in DOMAIN cbList[h]
      BY <2>3, <2>4, <3>1, <3>2
    <3> QED
      BY <2>2, <2>4, <3>2, <3>3
  <2>5. ASSUME NEW h \in Hook, NEW i \in DOMAIN cbList'[h], NEW j \in DOMAIN cbList'[h], i < j
        PROVE  cbList'[h][i].runs >= cbList'[h][j].runs
    <3>1. cbList[h][i].runs \in Nat
      BY <2>4, <2>5, Elements
    <3>2. CASE j \in DOMAIN cbList[h] /\ cbList'[h][j].runs = cbList[h][j].runs
      BY <2>4, <2>5, <3>2 DEF OrderInv, ScheduledOrder
    <3>3. CASE cbList'[h][j].runs = 0
      BY <2>4, <2>5, <3>1, <3>3
    <3> QED
      BY <2>4, <2>5, <3>2, <3>3
  <2>6. ASSUME ctl = "callbacks", NEW i \in DOMAIN cbList'[curHook], i < pos
        PROVE  /\ cbList'[curHook][i].runs > 0
               /\ \A j \in DOMAIN cbList'[curHook] :
                    pos <= j => cbList'[curHook][i].runs > cbList'[curHook][j].runs
    <3>1. i \in DOMAIN cbList[curHook] /\ cbList'[curHook][i].runs = cbList[curHook][i].runs
      <4>1. i \notin DOMAIN cbList[curHook] => i = Len(cbList[curHook]) + 1
        BY <1>0, <2>2, <2>6
      <4>2. pos <= Len(cbList[curHook]) + 1
        BY <2>6 DEF RunsInv
      <4>3. i \in DOMAIN cbList[curHook]
        BY <1>0, <2>3, <2>6, <4>1, <4>2
      <4> QED
        BY <1>0, <2>2, <4>3
    <3>2. cbList[curHook][i].runs > 0
      BY <2>6, <3>1 DEF OrderInv, WalkInv
    <3>3. ASSUME NEW j \in DOMAIN cbList'[curHook], pos <= j
          PROVE  cbList'[curHook][i].runs > cbList'[curHook][j].runs
      <4>1. CASE j \in DOMAIN cbList[curHook]
        <5>1. cbList'[curHook][j].runs = cbList[curHook][j].runs
          BY <1>0, <2>2, <4>1
        <5> QED
          BY <2>6, <3>1, <3>3, <4>1, <5>1 DEF OrderInv, WalkInv
      <4>2. CASE j \notin DOMAIN cbList[curHook]
        <5>1. cbList'[curHook][j].runs = 0
          BY <1>0, <2>2, <4>2
        <5> QED
          BY <3>1, <3>2, <5>1
      <4> QED
        BY <4>1, <4>2
    <3> QED
      BY <3>1, <3>2, <3>3
  <2> QED
    BY <2>1, <2>5, <2>6 DEF OrderInv, ScheduledOrder, WalkInv
<1>5. ASSUME NEW h \in Hook, AtsPasses(h) \/ AtsDelivers(h) PROVE OrderInv'
  BY <1>1, <1>5 DEF AtsPasses, AtsDelivers, ctxVars
<1>6. CASE \/ CB_Txn_Start \/ CB_Txn_Start_NoConfig \/ TSRemapDoRemap
           \/ TSRemapDoRemap_Broken \/ InvokeRuleDirective \/ RuleDone
           \/ InvokeTopLevel \/ NotReached \/ HookDone \/ RemapDone \/ UNCHANGED vars
  BY <1>1, <1>6
     DEF CB_Txn_Start, CB_Txn_Start_NoConfig, TSRemapDoRemap, TSRemapDoRemap_Broken,
         StartRule, InvokeRuleDirective, RuleDone, InvokeTopLevel, NotReached,
         HookDone, RemapDone, Invoke, vars, atsVars, ctxVars
<1> QED
  BY <1>2, <1>3, <1>4, <1>5, <1>6 DEF Next, Ats, TxnBox, Finished

\* For every configuration, callbacks run in the order they were scheduled.
THEOREM InOrder == Spec => []ScheduledOrder
<1>1. Init => OrderInv
  BY DEF Init, OrderInv, ScheduledOrder, WalkInv
<1>2. OrderInv => ScheduledOrder
  BY DEF OrderInv
<1> QED
  BY <1>1, <1>2, Invariance, OrderNext, PTL DEF Spec

-----------------------------------------------------------------------------
\* While a rule is walked, the context is terminal only if a directive before pos
\* made it so.
CutInv ==
  ctl = "rule" /\ terminal =>
    \E i \in 1..pos - 1 : Rules[ruleIdx][i] \in MayEnd

LEMMA CutNext == IInv /\ CutInv /\ [Next]_vars => CutInv'
<1> SUFFICES ASSUME IInv, CutInv, [Next]_vars PROVE CutInv'
  OBVIOUS
<1> USE DEF CutInv
<1>1. ASSUME ctl' # "rule" \/ ~terminal' PROVE CutInv'
  BY <1>1
<1>2. ASSUME UNCHANGED <<ctl, terminal, pos, ruleIdx>> PROVE CutInv'
  BY <1>2
<1>3. CASE InvokeRuleDirective
  <2>1. /\ ctl = "rule" /\ pos \in Nat \ {0} /\ pos' = pos + 1 /\ ruleIdx' = ruleIdx
        /\ terminal' => terminal \/ Rules[ruleIdx][pos] \in MayEnd
    BY <1>3 DEF InvokeRuleDirective, Invoke, IInv, TypeOK, atsVars
  <2> SUFFICES ASSUME terminal' PROVE \E i \in 1..pos' - 1 : Rules[ruleIdx][i] \in MayEnd
    BY <2>1
  <2>2. CASE terminal
    <3>1. PICK i \in 1..pos - 1 : Rules[ruleIdx][i] \in MayEnd
      BY <2>1, <2>2
    <3>2. i \in 1..pos' - 1
      BY <2>1
    <3> QED BY <3>1, <3>2
  <2>3. CASE Rules[ruleIdx][pos] \in MayEnd
    <3>1. pos \in 1..pos' - 1
      BY <2>1
    <3> QED BY <2>3, <3>1
  <2> QED BY <2>1, <2>2, <2>3
<1>4. CASE TSRemapDoRemap
  BY <1>1, <1>4 DEF TSRemapDoRemap, StartRule
<1>5. CASE Schedule \/ NotReached \/ UNCHANGED vars
  BY <1>2, <1>5 DEF Schedule, NotReached, vars, atsVars, ctxVars
<1>6. CASE Ats /\ ~ TSRemapDoRemap
  BY <1>1, <1>6
  DEF Ats, CB_Txn_Start, CB_Txn_Start_NoConfig, AtsPasses, AtsDelivers, Reaches,
      TSRemapDoRemap_Broken
<1>7. CASE \/ RuleDone \/ InvokeTopLevel \/ TopLevelDone \/ InvokeCallback
           \/ HookDone \/ RemapDone
  <2>1. ctl' # "rule"
    BY <1>7, SMT
    DEF RuleDone, InvokeTopLevel, TopLevelDone, InvokeCallback, HookDone, RemapDone, Invoke
  <2> QED BY <1>1, <2>1
<1> QED BY <1>3, <1>4, <1>5, <1>6, <1>7 DEF Next, TxnBox, Finished

\* For every rule: it is cut short by its own directives only, whatever ran before
\* it in the Context and however many instances there are.
THEOREM CutByItself == Spec => RuleCutShort
<1>1. Init => CutInv
  BY DEF Init, CutInv
<1>2. IInv /\ CutInv /\ [Next]_vars =>
        [ctl = "rule" /\ ctl' # "rule" =>
           \/ pos > Len(Rules[ruleIdx])
           \/ \E i \in 1..pos - 1 : Rules[ruleIdx][i] \in MayEnd]_vars
  <2> SUFFICES ASSUME IInv, CutInv, Next, ctl = "rule", ctl' # "rule"
               PROVE  \/ pos > Len(Rules[ruleIdx])
                      \/ \E i \in 1..pos - 1 : Rules[ruleIdx][i] \in MayEnd
    BY DEF vars
  <2>1. RuleDone
    BY DEF Next, Ats, TxnBox, Finished, CB_Txn_Start, CB_Txn_Start_NoConfig, AtsPasses,
           AtsDelivers, Reaches, TSRemapDoRemap, TSRemapDoRemap_Broken, InvokeRuleDirective,
           Invoke, InvokeTopLevel, TopLevelDone, InvokeCallback, Schedule, NotReached,
           HookDone, RemapDone, vars
  <2>2. pos > Len(Rules[ruleIdx]) \/ terminal
    BY <2>1, Zenon DEF RuleDone
  <2> QED BY <2>2 DEF CutInv
<1> QED
  BY <1>1, <1>2, Invariance, CutNext, PTL DEF Spec, RuleCutShort

-----------------------------------------------------------------------------
\* Outside the plugin, the hook ATS is at is settled.
SettledInv == ctl = "ats" /\ ats \in EventHook => Settled(ats)

LEMMA SettledNext == IInv /\ SettledInv /\ [Next]_vars => SettledInv'
<1> SUFFICES ASSUME IInv, SettledInv, [Next]_vars, ctl' = "ats", ats' \in EventHook
             PROVE  Settled(ats)'
  BY DEF SettledInv
<1>1. CASE UNCHANGED vars
  BY <1>1 DEF SettledInv, Settled, InTime, vars, atsVars, ctxVars
<1>2. CASE Next
  <2>1. PICK h \in EventHook : ats' = h
    OBVIOUS
  <2>2. Settled(h)' \/ UNCHANGED vars
    BY <1>2, <2>1, SettledStep
  <2> QED
    BY <1>1, <2>1, <2>2 DEF Settled, InTime
<1> QED
  BY <1>1, <1>2

LEMMA SlotsDef ==
  ASSUME TypeOK
  PROVE  /\ EventHook \subseteq Hook
         /\ DOMAIN slots = EventHook
         /\ \A h \in EventHook :
              /\ DOMAIN slots[h] = DOMAIN cbList[h]
              /\ slots[h] \in Seq({"late", "due", "done", "again"})
              /\ \A i \in DOMAIN cbList[h] : slots[h][i] = Slot(h, cbList[h][i])
<1>1. EventHook \subseteq Hook
  BY DEF EventHook, Hook
<1>2. \A h \in Hook : \A i \in DOMAIN cbList[h] :
        Slot(h, cbList[h][i]) \in {"late", "due", "done", "again"}
  BY DEF Slot
<1>3. \A h \in EventHook : DOMAIN cbList[h] = 1..Len(cbList[h]) /\ Len(cbList[h]) \in Nat
  BY <1>1, Elements
<1> QED
  BY <1>1, <1>2, <1>3 DEF slots

LEMMA RefineInit == Init => D!DeferredInit
BY DEF Init, D!DeferredInit, slots, EventHook, Hook

\* Steps that leave the lists alone only move on, or do nothing.
LEMMA RefineMove ==
  ASSUME IInv, SettledInv, UNCHANGED cbList,
         ats' = ats \/ (ctl = "ats" /\ ats' \in Nat /\ ats' > ats)
  PROVE  [D!DeferredNext]_(D!dvars)
<1>1. UNCHANGED slots
  BY DEF slots
<1>2. CASE ats' = ats
  BY <1>1, <1>2 DEF D!dvars
<1>3. CASE ctl = "ats" /\ ats' \in Nat /\ ats' > ats
  <2>1. ASSUME ats \in EventHook, NEW i \in DOMAIN slots[ats], slots[ats][i] = "due"
        PROVE  FALSE
    <3>1. i \in DOMAIN cbList[ats] /\ Slot(ats, cbList[ats][i]) = "due"
      BY <2>1, SlotsDef DEF IInv
    <3>2. cbList[ats][i].runs = 0 /\ cbList[ats][i].from <= ats
      BY <3>1 DEF Slot
    <3>3. cbList[ats][i].runs = 1
      BY <1>3, <2>1, <3>1, <3>2 DEF SettledInv, Settled, InTime
    <3> QED
      BY <3>2, <3>3
  <2> QED
    BY <1>1, <1>3, <2>1 DEF D!DeferredNext, D!Move, D!Pending
<1> QED
  BY <1>2, <1>3

LEMMA RefineKeep ==
  ASSUME IInv, IInv', InvokeCallback
  PROVE  [D!DeferredNext]_(D!dvars)
<1> USE DEF IInv
<1>1. /\ UNCHANGED <<ats, curHook>> /\ curHook = ats /\ ctl = "callbacks"
      /\ pos \in DOMAIN cbList[ats] /\ pos \in Nat
  BY RunEffect DEF InvokeCallback, Invoke, atsVars, LifeInv, TypeOK
<1>2. /\ \A h \in Hook : DOMAIN cbList'[h] = DOMAIN cbList[h]
      /\ \A h \in Hook : \A i \in DOMAIN cbList[h] :
           /\ cbList'[h][i].from = cbList[h][i].from
           /\ cbList'[h][i].runs = IF h = curHook /\ i = pos
                                     THEN cbList[h][i].runs + 1 ELSE cbList[h][i].runs
  BY RunEffect
<1>3. EventHook \subseteq Hook
  BY DEF EventHook, Hook
<1>4. ASSUME NEW h \in EventHook, NEW i \in DOMAIN cbList[h], ~(h = ats /\ i = pos)
      PROVE  Slot(h, cbList'[h][i]) = Slot(h, cbList[h][i])
  <2>1. /\ cbList'[h][i].from = cbList[h][i].from
        /\ cbList'[h][i].runs = cbList[h][i].runs
    BY <1>1, <1>2, <1>3, <1>4
  <2> QED
    BY <2>1 DEF Slot
<1>5. CASE ats \notin EventHook
  <2>1. \A h \in EventHook : slots'[h] = slots[h]
    <3> SUFFICES ASSUME NEW h \in EventHook PROVE slots'[h] = slots[h]
      OBVIOUS
    <3>1. /\ slots[h] = [i \in DOMAIN cbList[h] |-> Slot(h, cbList[h][i])]
          /\ slots'[h] = [i \in DOMAIN cbList'[h] |-> Slot(h, cbList'[h][i])]
      BY DEF slots
    <3> QED
      BY <1>2, <1>3, <1>4, <1>5, <3>1
  <2>2. slots' = slots
    BY <2>1 DEF slots
  <2> QED
    BY <1>1, <2>2 DEF D!dvars
<1>6. CASE ats \in EventHook
  <2>1. \A i \in DOMAIN cbList[ats] :
          /\ cbList[ats][i].runs = IF i < pos THEN 1 ELSE 0
          /\ cbList[ats][i].from <= ats /\ i \in Nat
    BY <1>1, <1>3, <1>6, Elements DEF RunsInv, HookInv
  <2>2. Slot(ats, cbList[ats][pos]) = "due" /\ Slot(ats, cbList'[ats][pos]) = "done"
    <3>1. cbList[ats][pos].runs = 0 /\ cbList[ats][pos].from <= ats
      BY <1>1, <2>1
    <3>2. cbList'[ats][pos].runs = 1 /\ cbList'[ats][pos].from <= ats
      BY <1>1, <1>2, <1>3, <1>6, <3>1
    <3>3. cbList[ats][pos].from \in Nat /\ ats \in Nat
      <4>1. ats \in Hook
        BY <1>3, <1>6
      <4>2. cbList[ats][pos].from \in Nat
        BY <1>1, <4>1, Elements
      <4> QED
        BY <4>1, <4>2 DEF Hook
    <3>4. ~(cbList[ats][pos].from > ats) /\ ~(cbList'[ats][pos].from > ats)
      BY <1>1, <1>2, <1>3, <1>6, <3>1, <3>3
    <3> QED
      BY <3>1, <3>2, <3>4 DEF Slot
  <2>3. pos \in D!Pending(ats)
    BY <1>1, <1>6, <2>2, SlotsDef DEF D!Pending
  <2>4. \A j \in D!Pending(ats) : pos <= j
    <3> SUFFICES ASSUME NEW j \in DOMAIN slots[ats], slots[ats][j] = "due" PROVE pos <= j
      BY DEF D!Pending
    <3>1. j \in DOMAIN cbList[ats] /\ Slot(ats, cbList[ats][j]) = "due"
      BY <1>6, SlotsDef
    <3>2. cbList[ats][j].runs = 0
      BY <3>1 DEF Slot
    <3> QED
      BY <1>1, <2>1, <3>1, <3>2
  <2>5. slots' = [slots EXCEPT ![ats] = [j \in DOMAIN slots[ats] |->
                     IF j = pos THEN "done" ELSE slots[ats][j]]]
    <3> DEFINE rhs == [slots EXCEPT ![ats] = [j \in DOMAIN slots[ats] |->
                     IF j = pos THEN "done" ELSE slots[ats][j]]]
    <3>1. ASSUME NEW h \in EventHook PROVE slots'[h] = rhs[h]
      <4>1. /\ slots[h] = [i \in DOMAIN cbList[h] |-> Slot(h, cbList[h][i])]
            /\ slots'[h] = [i \in DOMAIN cbList'[h] |-> Slot(h, cbList'[h][i])]
        BY DEF slots
      <4>2. CASE h # ats
        <5>1. rhs[h] = slots[h]
          BY <4>2 DEF slots
        <5> QED
          BY <1>2, <1>3, <1>4, <4>1, <4>2, <5>1
      <4>3. CASE h = ats
        <5>1. rhs[h] = [j \in DOMAIN slots[h] |-> IF j = pos THEN "done" ELSE slots[h][j]]
          BY <4>3 DEF slots
        <5>2. DOMAIN slots[h] = DOMAIN cbList[h] /\ DOMAIN cbList'[h] = DOMAIN cbList[h]
          BY <1>2, <1>3, <4>1
        <5>3. \A j \in DOMAIN cbList[h] :
                Slot(h, cbList'[h][j]) = IF j = pos THEN "done" ELSE slots[h][j]
          BY <1>4, <2>2, <4>1, <4>3
        <5> QED
          BY <4>1, <5>1, <5>2, <5>3
      <4> QED
        BY <4>2, <4>3
    <3>2. /\ slots' = [h \in EventHook |-> slots'[h]]
          /\ rhs = [h \in EventHook |-> rhs[h]]
      BY DEF slots
    <3> HIDE DEF rhs
    <3>3. slots' = rhs
      BY <3>1, <3>2
    <3> QED
      BY <3>3 DEF rhs
  <2> QED
    BY <1>1, <1>6, <2>3, <2>4, <2>5 DEF D!DeferredNext, D!Keep
<1> QED
  BY <1>5, <1>6

LEMMA RefinePromise ==
  ASSUME IInv, IInv', Schedule
  PROVE  [D!DeferredNext]_(D!dvars)
<1> USE DEF IInv
<1> DEFINE w  == Head(todo)
           cb == [drtv |-> w.drtv, from |-> curHook, runs |-> 0]
<1>1. w \in When /\ OnHookDo(w) /\ UNCHANGED ats /\ curHook = ats /\ cb \in Callback
  <2>1. w \in When /\ OnHookDo(w) /\ UNCHANGED ats /\ curHook = ats
    BY DEF Schedule, TypeOK, LifeInv
  <2> HIDE DEF w
  <2>2. w.drtv \in Directive /\ curHook \in Hook
    BY <2>1 DEF When, TypeOK
  <2> QED
    BY <2>1, <2>2 DEF Callback
<1> HIDE DEF w
<1>2. \A h \in Hook : cbList'[h] = IF h = w.hook THEN Append(cbList[h], cb) ELSE cbList[h]
  BY <1>1 DEF OnHookDo, TypeOK, When
<1>3. cb.from = ats /\ cb.runs = 0
  BY <1>1
<1> HIDE DEF cb
<1>4. EventHook \subseteq Hook /\ \A h \in EventHook : h \in Nat
  BY DEF EventHook, Hook
<1>5. ats \in Nat /\ w.hook \in Nat /\ w.hook \in Hook
  <2>1. w.hook \in Hook /\ ats \in Hook
    BY <1>1 DEF TypeOK, When
  <2> QED
    BY <2>1 DEF Hook
<1>6. ASSUME NEW h \in EventHook, h # w.hook PROVE slots'[h] = slots[h]
  BY <1>2, <1>4, <1>6 DEF slots
<1>7. CASE w.hook \notin EventHook
  <2>1. slots' = slots
    BY <1>6, <1>7 DEF slots
  <2> QED
    BY <1>1, <2>1 DEF D!dvars
<1>8. CASE w.hook \in EventHook
  <2> DEFINE h == w.hook
             mark == IF h >= ats THEN "due" ELSE "late"
  <2>1. Slot(h, cb) = mark
    BY <1>3, <1>5 DEF Slot
  <2>2. /\ cbList[h] \in Seq(Callback)
        /\ cbList'[h] = Append(cbList[h], cb)
    BY <1>2, <1>5 DEF TypeOK
  <2>3. /\ DOMAIN cbList'[h] = 1..Len(cbList[h]) + 1
        /\ \A i \in 1..Len(cbList[h]) : cbList'[h][i] = cbList[h][i]
        /\ cbList'[h][Len(cbList[h]) + 1] = cb
        /\ DOMAIN cbList[h] = 1..Len(cbList[h])
        /\ Len(cbList[h]) \in Nat
    BY <1>1, <2>2, AppendProperties
  <2>4. /\ slots[h] \in Seq({"late", "due", "done", "again"})
        /\ DOMAIN slots[h] = 1..Len(cbList[h])
        /\ \A i \in 1..Len(cbList[h]) : slots[h][i] = Slot(h, cbList[h][i])
    BY <1>8, <2>3, SlotsDef
  <2>5. Len(slots[h]) = Len(cbList[h])
    BY <2>3, <2>4
  <2>6. mark \in {"late", "due", "done", "again"}
    OBVIOUS
  <2>7. /\ slots'[h] \in Seq({"late", "due", "done", "again"})
        /\ DOMAIN slots'[h] = 1..Len(cbList[h]) + 1
        /\ \A i \in 1..Len(cbList[h]) + 1 : slots'[h][i] = Slot(h, cbList'[h][i])
    <3>1. slots'[h] = [i \in 1..Len(cbList[h]) + 1 |-> Slot(h, cbList'[h][i])]
      BY <1>8, <2>3 DEF slots
    <3>2. \A i \in 1..Len(cbList[h]) + 1 :
            Slot(h, cbList'[h][i]) \in {"late", "due", "done", "again"}
      BY DEF Slot
    <3> HIDE DEF h
    <3> QED
      BY <2>3, <3>1, <3>2
  <2>8. Len(slots'[h]) = Len(cbList[h]) + 1
    BY <2>3, <2>7
  <2>9. slots'[h] = Append(slots[h], mark)
    <3> HIDE DEF h, mark
    <3>1. /\ Append(slots[h], mark) \in Seq({"late", "due", "done", "again"})
          /\ Len(Append(slots[h], mark)) = Len(cbList[h]) + 1
          /\ \A i \in 1..Len(cbList[h]) : Append(slots[h], mark)[i] = slots[h][i]
          /\ Append(slots[h], mark)[Len(cbList[h]) + 1] = mark
      BY <2>4, <2>5, <2>6, AppendProperties
    <3>2. \A i \in 1..Len(cbList[h]) + 1 : slots'[h][i] = Append(slots[h], mark)[i]
      <4> SUFFICES ASSUME NEW i \in 1..Len(cbList[h]) + 1
                   PROVE  slots'[h][i] = Append(slots[h], mark)[i]
        OBVIOUS
      <4>1. CASE i \in 1..Len(cbList[h])
        BY <2>3, <2>4, <2>7, <3>1, <4>1
      <4>2. CASE i = Len(cbList[h]) + 1
        BY <2>1, <2>3, <2>7, <3>1, <4>2
      <4>3. ASSUME NEW n \in Nat, NEW k \in 1..n + 1 PROVE k \in 1..n \/ k = n + 1
        BY <4>3
      <4>4. i \in 1..Len(cbList[h]) \/ i = Len(cbList[h]) + 1
        BY <2>3, <4>3
      <4> QED
        BY <4>1, <4>2, <4>4
    <3> QED
      BY <2>7, <2>8, <3>1, <3>2, SeqEqual
  <2>10. slots' = [slots EXCEPT ![h] = Append(@, mark)]
    <3> DEFINE rhs == [slots EXCEPT ![h] = Append(slots[h], mark)]
    <3>1. \A g \in EventHook : slots'[g] = rhs[g]
      BY <1>6, <1>8, <2>9 DEF slots
    <3>2. /\ slots' = [g \in EventHook |-> slots'[g]]
          /\ rhs = [g \in EventHook |-> rhs[g]]
      BY DEF slots
    <3> HIDE DEF rhs
    <3>3. slots' = rhs
      BY <3>1, <3>2
    <3> QED
      BY <3>3 DEF rhs
  <2> QED
    BY <1>1, <1>8, <2>10 DEF D!DeferredNext, D!Promise
<1> QED
  BY <1>7, <1>8

LEMMA RefineStep ==
  ASSUME IInv, IInv', SettledInv, [Next]_vars
  PROVE  [D!DeferredNext]_(D!dvars)
<1>1. CASE InvokeCallback
  BY <1>1, RefineKeep
<1>2. CASE Schedule
  BY <1>2, RefinePromise
<1>0. ats \in Nat /\ \A h \in Hook : h \in Nat
  BY DEF IInv, TypeOK, Hook
<1>3. ASSUME NEW h \in Hook, AtsPasses(h) \/ AtsDelivers(h)
      PROVE  [D!DeferredNext]_(D!dvars)
  <2>1. /\ UNCHANGED cbList /\ ctl = "ats" /\ ats' \in Nat /\ ats' > ats
    BY <1>0, <1>3 DEF AtsPasses, AtsDelivers, Reaches, ctxVars
  <2> QED
    BY <2>1, RefineMove
<1>4. CASE TSRemapDoRemap \/ TSRemapDoRemap_Broken
  <2>1. /\ UNCHANGED cbList /\ ctl = "ats" /\ ats' = 7 /\ ats \in 4..7
    BY <1>4 DEF TSRemapDoRemap, StartRule, TSRemapDoRemap_Broken, ctxVars
  <2>2. ats' = ats \/ (ctl = "ats" /\ ats' \in Nat /\ ats' > ats)
    BY <2>1
  <2> QED
    BY <2>1, <2>2, RefineMove
<1>5. CASE UNCHANGED <<ats, cbList>>
  BY <1>5, RefineMove
<1> QED
  BY <1>1, <1>2, <1>3, <1>4, <1>5
     DEF Next, Ats, TxnBox, Finished, CB_Txn_Start, CB_Txn_Start_NoConfig,
         InvokeRuleDirective, RuleDone, InvokeTopLevel, TopLevelDone, NotReached,
         HookDone, RemapDone, Invoke, vars, atsVars, ctxVars

\* For every configuration, the Context implements the promise of "when".
THEOREM Refinement == Spec => KeepsPromise
<1>1. Init => SettledInv
  BY DEF Init, SettledInv, EventHook
<1>2. Spec => [](IInv /\ SettledInv)
  BY <1>1, InitInv, Inductive, SettledNext, PTL DEF Spec
<1>3. IInv /\ IInv' /\ SettledInv /\ [Next]_vars => [D!DeferredNext]_(D!dvars)
  BY RefineStep
<1> QED
  BY <1>2, <1>3, RefineInit, PTL DEF Spec, KeepsPromise, D!DeferredSpec
=============================================================================
