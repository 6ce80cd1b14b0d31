------------------------- MODULE PluginConfigProofs -------------------------
(***************************************************************************)
(* Proofs about PluginConfig, for any number of reload tasks and           *)
(* transactions and any number of configurations.                          *)
(***************************************************************************)
EXTENDS PluginConfig, TLAPS

\* The steps of Task_ConfigReload between the exchange on Plugin_Reloading and
\* the assignment that undoes it.
Active == {"loading", "store", "finish"}

\* Plugin_Reloading works as a lock: one task at most is between the two.
Exclusive ==
  /\ \A k \in Task : pc[k] \in Active => reloading
  /\ \A k, l \in Task : pc[k] \in Active /\ pc[l] \in Active => k = l

\* Configurations are numbered as they are made, and the one being loaded is
\* younger than the one it is to replace.
Numbered ==
  /\ slot <= loads
  /\ \A k \in Task : cfg[k] <= loads
  /\ \A t \in Txn : handle[t] <= loads
  /\ \A v \in freed : v <= loads
  /\ \A k \in Task : pc[k] \in {"loading", "store"} => slot < cfg[k]

\* What a transaction that holds the mutex has read is still what Plugin_Config
\* holds.
Locked == \A t \in readers : handle[t] = slot

\* What is held is not destroyed.
Counted == \A v \in Version : Held(v) => v \notin freed

\* What transactions can find in Plugin_Config is loaded.
Complete ==
  /\ running # {} => hooked
  /\ hooked /\ slot # NoVersion => slot \in loaded
  /\ \A k \in Task : pc[k] = "store" => cfg[k] \in loaded
  /\ OnlyLoaded

IInv == TypeOK /\ Exclusive /\ Numbered /\ Locked /\ Counted /\ Complete

-----------------------------------------------------------------------------
\* The initial states, after TSPluginInit, satisfy the invariant.
LEMMA InitInv == Init => IInv
<1> SUFFICES ASSUME Init PROVE IInv
  OBVIOUS
<1> USE BoundAssumption DEF Init, Version, NoVersion
<1>1. TypeOK
  <2>1. slot \in Version /\ loads \in Version /\ loaded \subseteq Version
    OBVIOUS
  <2>2. reloading \in BOOLEAN /\ hooked \in BOOLEAN /\ down \in BOOLEAN
    OBVIOUS
  <2> QED BY <2>1, <2>2 DEF TypeOK
<1>2. Exclusive /\ Numbered /\ Locked /\ Counted
  BY DEF Exclusive, Active, Numbered, Locked, Counted
<1>3. Complete
  BY DEF Complete, OnlyLoaded
<1> QED BY <1>1, <1>2, <1>3 DEF IInv

\* Every step of a thread keeps the invariant.
LEMMA StepInv == IInv /\ [Next]_vars => IInv'
<1> SUFFICES ASSUME IInv, [Next]_vars PROVE IInv'
  OBVIOUS
<1> USE BoundAssumption DEF Version, NoVersion
<1> USE DEF IInv
<1>1. ASSUME NEW t \in Txn, ReadSlot(t) PROVE IInv'
  <2> USE <1>1 DEF ReadSlot, taskVars
  <2>1. TypeOK'
    BY DEF TypeOK
  <2>2. Exclusive' /\ Numbered'
    BY DEF TypeOK, Exclusive, Numbered
  <2>3. Locked'
    BY DEF TypeOK, Locked
  <2>4. Counted'
    BY DEF TypeOK, Counted, Held
  <2>5. Complete'
    BY DEF TypeOK, Complete, OnlyLoaded
  <2> QED BY <2>1, <2>2, <2>3, <2>4, <2>5
<1>2. ASSUME NEW t \in Txn, CopySlot(t) PROVE IInv'
  <2> USE <1>2 DEF CopySlot, taskVars
  <2>1. TypeOK'
    BY DEF TypeOK
  <2>2. Exclusive' /\ Numbered'
    BY DEF TypeOK, Exclusive, Numbered
  <2>3. Locked'
    BY DEF TypeOK, Locked
  <2>4. Counted'
    BY DEF TypeOK, Counted, Held, Locked
  <2>5. Complete'
    BY DEF TypeOK, Complete, OnlyLoaded
  <2> QED BY <2>1, <2>2, <2>3, <2>4, <2>5
<1>3. ASSUME NEW t \in Txn, Close(t) PROVE IInv'
  <2> USE <1>3 DEF Close, taskVars
  <2>1. TypeOK'
    BY DEF TypeOK, Release
  <2>2. Exclusive' /\ Numbered'
    BY DEF TypeOK, Exclusive, Numbered, Release, Held
  <2>3. Locked'
    BY DEF TypeOK, Locked
  <2>4. Counted'
    BY DEF TypeOK, Counted, Held, Release
  <2>5. Complete'
    BY DEF TypeOK, Complete, OnlyLoaded
  <2> QED BY <2>1, <2>2, <2>3, <2>4, <2>5
<1>4. ASSUME NEW k \in Task, Message(k) PROVE IInv'
  <2> USE <1>4 DEF Message, txnVars
  <2>1. TypeOK'
    BY DEF TypeOK
  <2>2. Exclusive' /\ Numbered'
    BY DEF TypeOK, Exclusive, Active, Numbered
  <2>3. Locked' /\ Counted'
    BY DEF Locked, Counted, Held
  <2>4. Complete'
    BY DEF TypeOK, Complete, OnlyLoaded
  <2> QED BY <2>1, <2>2, <2>3, <2>4
<1>5. ASSUME NEW k \in Task, StartReload(k) PROVE IInv'
  <2> USE <1>5 DEF StartReload, txnVars
  <2>1. TypeOK'
    BY DEF TypeOK
  <2>2. Exclusive'
    BY DEF TypeOK, Exclusive, Active
  <2>3. Numbered'
    BY DEF TypeOK, Exclusive, Active, Numbered
  <2>4. Locked'
    BY DEF Locked
  <2>5. Counted'
    BY DEF TypeOK, Counted, Held, Numbered
  <2>6. Complete'
    BY DEF TypeOK, Complete, OnlyLoaded
  <2> QED BY <2>1, <2>2, <2>3, <2>4, <2>5, <2>6
<1>6. ASSUME NEW k \in Task, RefuseReload(k) PROVE IInv'
  <2> USE <1>6 DEF RefuseReload, txnVars
  <2>1. TypeOK'
    BY DEF TypeOK
  <2>2. Exclusive' /\ Numbered'
    BY DEF TypeOK, Exclusive, Active, Numbered
  <2>3. Locked' /\ Counted'
    BY DEF Locked, Counted, Held
  <2>4. Complete'
    BY DEF TypeOK, Complete, OnlyLoaded
  <2> QED BY <2>1, <2>2, <2>3, <2>4
<1>7. ASSUME NEW k \in Task, LoadSucceeds(k) PROVE IInv'
  <2> USE <1>7 DEF LoadSucceeds, txnVars
  <2>1. TypeOK'
    BY DEF TypeOK
  <2>2. Exclusive' /\ Numbered'
    BY DEF TypeOK, Exclusive, Active, Numbered
  <2>3. Locked' /\ Counted'
    BY DEF Locked, Counted, Held
  <2>4. Complete'
    BY DEF TypeOK, Complete, OnlyLoaded
  <2> QED BY <2>1, <2>2, <2>3, <2>4
<1>8. ASSUME NEW k \in Task, LoadFails(k) PROVE IInv'
  <2> USE <1>8 DEF LoadFails, txnVars
  <2>1. TypeOK'
    BY DEF TypeOK
  <2>2. Exclusive' /\ Numbered'
    BY DEF TypeOK, Exclusive, Active, Numbered
  <2>3. Locked' /\ Counted'
    BY DEF Locked, Counted, Held
  <2>4. Complete'
    BY DEF TypeOK, Complete, OnlyLoaded
  <2> QED BY <2>1, <2>2, <2>3, <2>4
<1>9. ASSUME NEW k \in Task, Store(k) PROVE IInv'
  <2> USE <1>9 DEF Store, txnVars
  <2>1. TypeOK'
    BY DEF TypeOK, Release
  <2>2. Exclusive'
    BY DEF TypeOK, Exclusive, Active
  <2>3. Numbered'
    BY DEF TypeOK, Numbered, Exclusive, Active, Release, Held
  <2>4. Locked'
    BY DEF Locked
  <2>5. Counted'
    BY DEF TypeOK, Counted, Held, Release
  <2>6. Complete'
    BY DEF TypeOK, Complete, OnlyLoaded
  <2> QED BY <2>1, <2>2, <2>3, <2>4, <2>5, <2>6
<1>10. ASSUME NEW k \in Task, Finish(k) PROVE IInv'
  <2> USE <1>10 DEF Finish, txnVars
  <2>1. TypeOK'
    BY DEF TypeOK
  <2>2. Exclusive' /\ Numbered'
    BY DEF TypeOK, Exclusive, Active, Numbered
  <2>3. Locked' /\ Counted'
    BY DEF Locked, Counted, Held
  <2>4. Complete'
    BY DEF TypeOK, Complete, OnlyLoaded
  <2> QED BY <2>1, <2>2, <2>3, <2>4
<1>11. ASSUME NEW k \in Task, Report(k) PROVE IInv'
  <2> USE <1>11 DEF Report, txnVars
  <2>1. TypeOK'
    BY DEF TypeOK
  <2>2. Exclusive' /\ Numbered'
    BY DEF TypeOK, Exclusive, Active, Numbered
  <2>3. Locked' /\ Counted'
    BY DEF Locked, Counted, Held
  <2>4. Complete'
    BY DEF TypeOK, Complete, OnlyLoaded
  <2> QED BY <2>1, <2>2, <2>3, <2>4
<1>12. ASSUME NEW k \in Task, EndReload(k) PROVE IInv'
  <2> USE <1>12 DEF EndReload, txnVars
  <2>1. TypeOK'
    BY DEF TypeOK, Release
  <2>2. Exclusive'
    BY DEF TypeOK, Exclusive, Active
  <2>3. Numbered'
    BY DEF TypeOK, Numbered, Release, Held
  <2>4. Locked'
    BY DEF Locked
  <2>5. Counted'
    BY DEF TypeOK, Counted, Held, Release
  <2>6. Complete'
    BY DEF TypeOK, Complete, OnlyLoaded
  <2> QED BY <2>1, <2>2, <2>3, <2>4, <2>5, <2>6
<1>13. ASSUME Shutdown PROVE IInv'
  <2> USE <1>13 DEF Shutdown, txnVars, taskVars
  <2>1. TypeOK'
    BY DEF TypeOK, Release
  <2>2. Exclusive'
    BY DEF TypeOK, Exclusive, Active
  <2>3. Numbered'
    BY DEF TypeOK, Numbered, Release, Held
  <2>4. Locked'
    BY DEF Locked
  <2>5. Counted'
    BY DEF TypeOK, Counted, Held, Release
  <2>6. Complete'
    BY DEF TypeOK, Complete, OnlyLoaded
  <2> QED BY <2>1, <2>2, <2>3, <2>4, <2>5, <2>6
<1>14. CASE UNCHANGED vars
  BY <1>14 DEF vars, txnVars, taskVars, TypeOK, Exclusive, Numbered, Locked,
               Counted, Held, Complete, OnlyLoaded
<1> QED
  BY <1>1, <1>2, <1>3, <1>4, <1>5, <1>6, <1>7, <1>8, <1>9, <1>10, <1>11, <1>12,
     <1>13, <1>14 DEF Next, TxnStep, Reload

LEMMA Invariance == Spec => []IInv
  BY InitInv, StepInv, PTL DEF Spec

-----------------------------------------------------------------------------
\* Every variable of the reload protocol keeps its type.
THEOREM TypeCorrect == Spec => []TypeOK
  BY Invariance, PTL DEF IInv

\* What Plugin_Config, a reload or a transaction holds is never destroyed, and
\* neither is what is being copied under the mutex.
THEOREM HandlesStayAlive == Spec => []HandlesAlive
<1>1. IInv => HandlesAlive
  <2> SUFFICES ASSUME IInv PROVE HandlesAlive
    OBVIOUS
  <2> USE DEF IInv, TypeOK, Counted, Held, Locked, NoVersion, Version
  <2>1. slot \notin freed
    OBVIOUS
  <2>2. ASSUME NEW k \in Task PROVE cfg[k] \notin freed
    OBVIOUS
  <2>3. ASSUME NEW t \in running PROVE handle[t] \notin freed
    <3>1. CASE t \in readers
      BY <3>1, <2>1
    <3>2. CASE t \notin readers
      BY <3>2
    <3> QED BY <3>1, <3>2
  <2> QED BY <2>1, <2>2, <2>3 DEF HandlesAlive
<1> QED BY <1>1, Invariance, PTL

\* No transaction runs on a configuration that did not load.
THEOREM NeverHalfLoaded == Spec => []OnlyLoaded
  BY Invariance, PTL DEF IInv, Complete

-----------------------------------------------------------------------------
\* The initial states are initial states of the abstract specification.
LEMMA RefineInit == Init => P!PublishedInit
  BY BoundAssumption DEF Init, P!PublishedInit, P!NoVersion, NoVersion, Version

\* A step of a thread is a step of the abstract specification or a stutter: the
\* read of the pointer begins a transaction, the assignment publishes.
LEMMA RefineStep ==
  IInv /\ [Next]_vars => [P!PublishedNext]_<<slot, running, handle>>
<1> SUFFICES ASSUME IInv, [Next]_vars
             PROVE  [P!PublishedNext]_<<slot, running, handle>>
  OBVIOUS
<1> USE DEF P!PublishedNext, P!NoVersion, NoVersion
<1>1. ASSUME NEW t \in Txn, ReadSlot(t) PROVE P!Begin(t)
  BY <1>1 DEF ReadSlot, P!Begin
<1>2. ASSUME NEW t \in Txn, CopySlot(t)
      PROVE  P!End(t) \/ UNCHANGED <<slot, running, handle>>
  <2> USE <1>2 DEF CopySlot, IInv, TypeOK
  <2>1. CASE handle[t] = 0
    BY <2>1 DEF P!End
  <2>2. CASE handle[t] # 0
    BY <2>2
  <2> QED BY <2>1, <2>2
<1>3. ASSUME NEW t \in Txn, Close(t) PROVE P!End(t)
  BY <1>3 DEF Close, P!End
<1>4. ASSUME NEW k \in Task, Store(k)
      PROVE  cfg[k] \in Version /\ P!Publish(cfg[k])
  BY <1>4 DEF Store, txnVars, P!Publish, IInv, TypeOK, Numbered
<1>5. ASSUME Shutdown PROVE P!Withdraw
  BY <1>5 DEF Shutdown, txnVars, P!Withdraw
<1>6. ASSUME NEW k \in Task,
             \/ Message(k) \/ StartReload(k) \/ RefuseReload(k)
             \/ LoadSucceeds(k) \/ LoadFails(k)
             \/ Finish(k) \/ Report(k) \/ EndReload(k)
      PROVE  UNCHANGED <<slot, running, handle>>
  BY <1>6 DEF Message, StartReload, RefuseReload, LoadSucceeds, LoadFails,
              Finish, Report, EndReload, txnVars
<1>7. CASE UNCHANGED vars
  BY <1>7 DEF vars, txnVars
<1> QED
  BY <1>1, <1>2, <1>3, <1>4, <1>5, <1>6, <1>7 DEF Next, TxnStep, Reload

\* The threads implement the abstract specification: configurations are in
\* force one after the other, younger after older, and each transaction keeps
\* the one it began with.
THEOREM Refinement == Spec => KeepsPublished
  BY Invariance, RefineInit, RefineStep, PTL
  DEF Spec, KeepsPublished, P!PublishedSpec
=============================================================================
