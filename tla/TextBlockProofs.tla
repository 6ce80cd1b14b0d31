--------------------------- MODULE TextBlockProofs ---------------------------
(***************************************************************************)
(* Proofs about TextBlock, for any set of transactions and any number of   *)
(* changes of the file.  First those about its task, for any behaviour of  *)
(* TaskHandle; then what the block does: a step of it is a step of the     *)
(* task or leaves the task alone.                                          *)
(***************************************************************************)
EXTENDS TextBlock, TLAPS

(* The task.                                                               *)

\* The functor counts as a holder while it works, and the configuration is
\* destroyed when, and only when, nobody holds it.
HoldersInv ==
  /\ taskRef <=> pc \in {"work", "release"}
  /\ cpc = "no" <=> refs # {} \/ taskRef
  /\ cpc = "no" <=> canceller = "none"

\* Before PerformAsTaskEvery there is no task, and while ATS is stopped none
\* runs.
NotRunningInv ==
  /\ ~started => /\ event = "none" /\ data = "none" /\ frees = 0 /\ ~active
                 /\ pc = "idle" /\ cpc \in {"no", "done"} /\ tried = "no"
  /\ started => data # "none"
  /\ stopped => pc = "idle" /\ cpc \in {"no", "cancel", "done"}
  /\ cpc # "done" => (canceller = "task" <=> pc = "destroy")
  /\ canceller = "pool" /\ cpc # "done" => pc = "idle"

\* Where cancel is tells what it was given for the mutex.
TriedInv ==
  /\ tried = "no" => cpc \in {"no", "cancel"} \/ (cpc = "done" /\ (~started \/ stopped))
  /\ tried = "got" => cpc \in {"signal", "done"}
  /\ tried = "refused" => cpc \in {"refused", "unlock", "delete", "done"} /\ canceller = "other"

\* As long as cancel is not refused the mutex: the lambda has it while it runs,
\* another thread only keeps it from a task that does not run, what is deleted
\* is not reached again, and _active tells the lambda to delete.
ApartInv ==
  tried # "refused" =>
    /\ tried = "no" => (lock = IF pc = "idle" THEN "none" ELSE "event")
    /\ tried = "got" /\ pc # "idle" => canceller # "other" /\ lock = "event"
    /\ tried = "got" /\ canceller = "other" => lock = "other"
    /\ frees = IF data = "freed" THEN 1 ELSE 0
    /\ data = "freed" => pc = "idle" /\ cpc = "done" /\ (event # "scheduled" \/ stopped)
    /\ started => (active <=> cpc # "done" \/ tried = "no")
    /\ pc = "cleanup" => ~active

\* When it is refused the mutex: the lambda goes on, over the deleted data in
\* the end, but it is not dispatched after that.
RefusedInv ==
  tried = "refused" =>
    /\ cpc # "done" => data = "live" /\ active /\ frees = 0 /\ pc # "cleanup"
    /\ cpc # "refused" => event # "scheduled"
    /\ cpc = "done" => data = "freed" /\ frees <= (IF pc = "idle" THEN 2 ELSE 1)

TaskInv ==
  /\ T!TypeOK
  /\ HoldersInv /\ NotRunningInv /\ TriedInv /\ ApartInv /\ RefusedInv

-----------------------------------------------------------------------------
\* A configuration that is being loaded satisfies the invariant.
LEMMA TaskInitInv == T!Init => TaskInv
<1> SUFFICES ASSUME T!Init PROVE TaskInv
  OBVIOUS
<1> USE DEF T!Init
<1>1. refs \subseteq Ref /\ refs # {}
  OBVIOUS
<1>2. taskRef \in BOOLEAN /\ started \in BOOLEAN /\ active \in BOOLEAN /\ stopped \in BOOLEAN
  OBVIOUS
<1>3. T!TypeOK
  BY <1>1, <1>2 DEF T!TypeOK
<1>4. HoldersInv /\ NotRunningInv /\ TriedInv /\ ApartInv /\ RefusedInv
  BY <1>1 DEF HoldersInv, NotRunningInv, TriedInv, ApartInv, RefusedInv
<1> QED BY <1>3, <1>4 DEF TaskInv

\* Every step of an owner, of ATS, of the lambda and of cancel keeps it.
LEMMA TaskStepInv == TaskInv /\ [T!Next]_T!vars => TaskInv'
<1> SUFFICES ASSUME TaskInv, [T!Next]_T!vars PROVE TaskInv'
  OBVIOUS
<1> USE DEF TaskInv, T!TypeOK
<1>1. ASSUME T!Invoke PROVE TaskInv'
  <2> USE <1>1 DEF T!Invoke, T!ownerVars, T!taskVars, T!cancelVars
  <2>1. T!TypeOK'
    BY DEF HoldersInv, NotRunningInv, TriedInv, ApartInv, RefusedInv
  <2>2. HoldersInv'
    BY DEF HoldersInv, NotRunningInv
  <2>3. NotRunningInv'
    BY DEF HoldersInv, NotRunningInv
  <2>4. TriedInv'
    BY DEF HoldersInv, NotRunningInv, TriedInv, ApartInv
  <2>5. ApartInv'
    BY DEF HoldersInv, NotRunningInv, TriedInv, ApartInv
  <2>6. RefusedInv'
    BY DEF HoldersInv, NotRunningInv, TriedInv, ApartInv, RefusedInv
  <2> QED BY <2>1, <2>2, <2>3, <2>4, <2>5, <2>6
<1>2. ASSUME NEW r \in Ref, T!Copy(r) PROVE TaskInv'
  <2> USE <1>2 DEF T!Copy, T!ownerVars, T!taskVars, T!cancelVars
  <2>1. T!TypeOK'
    BY DEF HoldersInv, NotRunningInv, TriedInv, ApartInv, RefusedInv
  <2>2. HoldersInv'
    BY DEF HoldersInv, NotRunningInv
  <2>3. NotRunningInv'
    BY DEF HoldersInv, NotRunningInv
  <2>4. TriedInv'
    BY DEF HoldersInv, NotRunningInv, TriedInv, ApartInv
  <2>5. ApartInv'
    BY DEF HoldersInv, NotRunningInv, TriedInv, ApartInv
  <2>6. RefusedInv'
    BY DEF HoldersInv, NotRunningInv, TriedInv, ApartInv, RefusedInv
  <2> QED BY <2>1, <2>2, <2>3, <2>4, <2>5, <2>6
<1>3. ASSUME NEW r \in Ref, NEW thread \in {"pool", "other"}, T!Drop(r, thread) PROVE TaskInv'
  <2> USE <1>3 DEF T!Drop, T!Destroy, T!ownerVars, T!taskVars, T!cancelVars
  <2>1. T!TypeOK'
    BY DEF HoldersInv, NotRunningInv, TriedInv, ApartInv, RefusedInv
  <2>2. HoldersInv'
    BY DEF HoldersInv, NotRunningInv
  <2>3. NotRunningInv'
    BY DEF HoldersInv, NotRunningInv
  <2>4. TriedInv'
    BY DEF HoldersInv, NotRunningInv, TriedInv, ApartInv
  <2>5. ApartInv'
    BY DEF HoldersInv, NotRunningInv, TriedInv, ApartInv
  <2>6. RefusedInv'
    BY DEF HoldersInv, NotRunningInv, TriedInv, ApartInv, RefusedInv
  <2> QED BY <2>1, <2>2, <2>3, <2>4, <2>5, <2>6
<1>4. ASSUME T!StopThreads PROVE TaskInv'
  <2> USE <1>4 DEF T!StopThreads, T!ownerVars, T!taskVars, T!cancelVars
  <2>1. T!TypeOK'
    BY DEF HoldersInv, NotRunningInv, TriedInv, ApartInv, RefusedInv
  <2>2. HoldersInv'
    BY DEF HoldersInv, NotRunningInv
  <2>3. NotRunningInv'
    BY DEF HoldersInv, NotRunningInv
  <2>4. TriedInv'
    BY DEF HoldersInv, NotRunningInv, TriedInv, ApartInv
  <2>5. ApartInv'
    BY DEF HoldersInv, NotRunningInv, TriedInv, ApartInv
  <2>6. RefusedInv'
    BY DEF HoldersInv, NotRunningInv, TriedInv, ApartInv, RefusedInv
  <2> QED BY <2>1, <2>2, <2>3, <2>4, <2>5, <2>6
<1>5. ASSUME T!Dispatch PROVE TaskInv'
  <2> USE <1>5 DEF T!Dispatch, T!Due, T!CanLock, T!ownerVars, T!taskVars, T!cancelVars
  <2>1. T!TypeOK'
    BY DEF HoldersInv, NotRunningInv, TriedInv, ApartInv, RefusedInv
  <2>2. HoldersInv'
    BY DEF HoldersInv, NotRunningInv
  <2>3. NotRunningInv'
    BY DEF HoldersInv, NotRunningInv
  <2>4. TriedInv'
    BY DEF HoldersInv, NotRunningInv, TriedInv, ApartInv
  <2>5. ApartInv'
    BY DEF HoldersInv, NotRunningInv, TriedInv, ApartInv
  <2>6. RefusedInv'
    BY DEF HoldersInv, NotRunningInv, TriedInv, ApartInv, RefusedInv
  <2> QED BY <2>1, <2>2, <2>3, <2>4, <2>5, <2>6
<1>6. ASSUME T!DropEvent PROVE TaskInv'
  <2> USE <1>6 DEF T!DropEvent, T!Due, T!CanLock, T!ownerVars, T!taskVars, T!cancelVars
  <2>1. T!TypeOK'
    BY DEF HoldersInv, NotRunningInv, TriedInv, ApartInv, RefusedInv
  <2>2. HoldersInv'
    BY DEF HoldersInv, NotRunningInv
  <2>3. NotRunningInv'
    BY DEF HoldersInv, NotRunningInv
  <2>4. TriedInv'
    BY DEF HoldersInv, NotRunningInv, TriedInv, ApartInv
  <2>5. ApartInv'
    BY DEF HoldersInv, NotRunningInv, TriedInv, ApartInv
  <2>6. RefusedInv'
    BY DEF HoldersInv, NotRunningInv, TriedInv, ApartInv, RefusedInv
  <2> QED BY <2>1, <2>2, <2>3, <2>4, <2>5, <2>6
<1>7. ASSUME T!TestActive PROVE TaskInv'
  <2> USE <1>7 DEF T!TestActive, T!ReadActive, T!ownerVars, T!taskVars, T!cancelVars
  <2>1. T!TypeOK'
    BY DEF HoldersInv, NotRunningInv, TriedInv, ApartInv, RefusedInv
  <2>2. HoldersInv'
    BY DEF HoldersInv, NotRunningInv
  <2>3. NotRunningInv'
    BY DEF HoldersInv, NotRunningInv
  <2>4. TriedInv'
    BY DEF HoldersInv, NotRunningInv, TriedInv, ApartInv
  <2>5. ApartInv'
    BY DEF HoldersInv, NotRunningInv, TriedInv, ApartInv
  <2>6. RefusedInv'
    BY DEF HoldersInv, NotRunningInv, TriedInv, ApartInv, RefusedInv
  <2> QED BY <2>1, <2>2, <2>3, <2>4, <2>5, <2>6
<1>8. ASSUME T!LockConfig PROVE TaskInv'
  <2> USE <1>8 DEF T!LockConfig, T!ownerVars, T!taskVars, T!cancelVars
  <2>1. T!TypeOK'
    BY DEF HoldersInv, NotRunningInv, TriedInv, ApartInv, RefusedInv
  <2>2. HoldersInv'
    BY DEF HoldersInv, NotRunningInv
  <2>3. NotRunningInv'
    BY DEF HoldersInv, NotRunningInv
  <2>4. TriedInv'
    BY DEF HoldersInv, NotRunningInv, TriedInv, ApartInv
  <2>5. ApartInv'
    BY DEF HoldersInv, NotRunningInv, TriedInv, ApartInv
  <2>6. RefusedInv'
    BY DEF HoldersInv, NotRunningInv, TriedInv, ApartInv, RefusedInv
  <2> QED BY <2>1, <2>2, <2>3, <2>4, <2>5, <2>6
<1>9. ASSUME T!WorkDone PROVE TaskInv'
  <2> USE <1>9 DEF T!WorkDone, T!ownerVars, T!taskVars, T!cancelVars
  <2>1. T!TypeOK'
    BY DEF HoldersInv, NotRunningInv, TriedInv, ApartInv, RefusedInv
  <2>2. HoldersInv'
    BY DEF HoldersInv, NotRunningInv
  <2>3. NotRunningInv'
    BY DEF HoldersInv, NotRunningInv
  <2>4. TriedInv'
    BY DEF HoldersInv, NotRunningInv, TriedInv, ApartInv
  <2>5. ApartInv'
    BY DEF HoldersInv, NotRunningInv, TriedInv, ApartInv
  <2>6. RefusedInv'
    BY DEF HoldersInv, NotRunningInv, TriedInv, ApartInv, RefusedInv
  <2> QED BY <2>1, <2>2, <2>3, <2>4, <2>5, <2>6
<1>10. ASSUME T!ReleaseConfig PROVE TaskInv'
  <2> USE <1>10 DEF T!ReleaseConfig, T!Destroy, T!ownerVars, T!taskVars, T!cancelVars
  <2>1. T!TypeOK'
    BY DEF HoldersInv, NotRunningInv, TriedInv, ApartInv, RefusedInv
  <2>2. HoldersInv'
    BY DEF HoldersInv, NotRunningInv
  <2>3. NotRunningInv'
    BY DEF HoldersInv, NotRunningInv
  <2>4. TriedInv'
    BY DEF HoldersInv, NotRunningInv, TriedInv, ApartInv
  <2>5. ApartInv'
    BY DEF HoldersInv, NotRunningInv, TriedInv, ApartInv
  <2>6. RefusedInv'
    BY DEF HoldersInv, NotRunningInv, TriedInv, ApartInv, RefusedInv
  <2> QED BY <2>1, <2>2, <2>3, <2>4, <2>5, <2>6
<1>11. ASSUME T!FunctorReturns PROVE TaskInv'
  <2> USE <1>11 DEF T!FunctorReturns, T!ownerVars, T!taskVars, T!cancelVars
  <2>1. T!TypeOK'
    BY DEF HoldersInv, NotRunningInv, TriedInv, ApartInv, RefusedInv
  <2>2. HoldersInv'
    BY DEF HoldersInv, NotRunningInv
  <2>3. NotRunningInv'
    BY DEF HoldersInv, NotRunningInv
  <2>4. TriedInv'
    BY DEF HoldersInv, NotRunningInv, TriedInv, ApartInv
  <2>5. ApartInv'
    BY DEF HoldersInv, NotRunningInv, TriedInv, ApartInv
  <2>6. RefusedInv'
    BY DEF HoldersInv, NotRunningInv, TriedInv, ApartInv, RefusedInv
  <2> QED BY <2>1, <2>2, <2>3, <2>4, <2>5, <2>6
<1>12. ASSUME T!Check PROVE TaskInv'
  <2> USE <1>12 DEF T!Check, T!ReadActive, T!Unlocked, T!ownerVars, T!taskVars, T!cancelVars
  <2>1. T!TypeOK'
    BY DEF HoldersInv, NotRunningInv, TriedInv, ApartInv, RefusedInv
  <2>2. HoldersInv'
    BY DEF HoldersInv, NotRunningInv
  <2>3. NotRunningInv'
    BY DEF HoldersInv, NotRunningInv
  <2>4. TriedInv'
    BY DEF HoldersInv, NotRunningInv, TriedInv, ApartInv
  <2>5. ApartInv'
    BY DEF HoldersInv, NotRunningInv, TriedInv, ApartInv
  <2>6. RefusedInv'
    BY DEF HoldersInv, NotRunningInv, TriedInv, ApartInv, RefusedInv
  <2> QED BY <2>1, <2>2, <2>3, <2>4, <2>5, <2>6
<1>13. ASSUME T!Cleanup PROVE TaskInv'
  <2> USE <1>13 DEF T!Cleanup, T!ownerVars, T!taskVars, T!cancelVars
  <2>1. T!TypeOK'
    BY DEF HoldersInv, NotRunningInv, TriedInv, ApartInv, RefusedInv
  <2>2. HoldersInv'
    BY DEF HoldersInv, NotRunningInv
  <2>3. NotRunningInv'
    BY DEF HoldersInv, NotRunningInv
  <2>4. TriedInv'
    BY DEF HoldersInv, NotRunningInv, TriedInv, ApartInv
  <2>5. ApartInv'
    BY DEF HoldersInv, NotRunningInv, TriedInv, ApartInv
  <2>6. RefusedInv'
    BY DEF HoldersInv, NotRunningInv, TriedInv, ApartInv, RefusedInv
  <2> QED BY <2>1, <2>2, <2>3, <2>4, <2>5, <2>6
<1>14. ASSUME T!TryLock PROVE TaskInv'
  <2> USE <1>14 DEF T!TryLock, T!ownerVars, T!taskVars, T!cancelVars
  <2>1. T!TypeOK'
    BY DEF HoldersInv, NotRunningInv, TriedInv, ApartInv, RefusedInv
  <2>2. HoldersInv'
    BY DEF HoldersInv, NotRunningInv
  <2>3. NotRunningInv'
    BY DEF HoldersInv, NotRunningInv
  <2>4. TriedInv'
    BY DEF HoldersInv, NotRunningInv, TriedInv, ApartInv
  <2>5. ApartInv'
    BY DEF HoldersInv, NotRunningInv, TriedInv, ApartInv
  <2>6. RefusedInv'
    BY DEF HoldersInv, NotRunningInv, TriedInv, ApartInv, RefusedInv
  <2> QED BY <2>1, <2>2, <2>3, <2>4, <2>5, <2>6
<1>15. ASSUME T!CancelEvent PROVE TaskInv'
  <2> USE <1>15 DEF T!CancelEvent, T!ownerVars, T!taskVars, T!cancelVars
  <2>1. T!TypeOK'
    BY DEF HoldersInv, NotRunningInv, TriedInv, ApartInv, RefusedInv
  <2>2. HoldersInv'
    BY DEF HoldersInv, NotRunningInv
  <2>3. NotRunningInv'
    BY DEF HoldersInv, NotRunningInv
  <2>4. TriedInv'
    BY DEF HoldersInv, NotRunningInv, TriedInv, ApartInv
  <2>5. ApartInv'
    BY DEF HoldersInv, NotRunningInv, TriedInv, ApartInv
  <2>6. RefusedInv'
    BY DEF HoldersInv, NotRunningInv, TriedInv, ApartInv, RefusedInv
  <2> QED BY <2>1, <2>2, <2>3, <2>4, <2>5, <2>6
<1>16. ASSUME T!Unlock PROVE TaskInv'
  <2> USE <1>16 DEF T!Unlock, T!ownerVars, T!taskVars, T!cancelVars
  <2>1. T!TypeOK'
    BY DEF HoldersInv, NotRunningInv, TriedInv, ApartInv, RefusedInv
  <2>2. HoldersInv'
    BY DEF HoldersInv, NotRunningInv
  <2>3. NotRunningInv'
    BY DEF HoldersInv, NotRunningInv
  <2>4. TriedInv'
    BY DEF HoldersInv, NotRunningInv, TriedInv, ApartInv
  <2>5. ApartInv'
    BY DEF HoldersInv, NotRunningInv, TriedInv, ApartInv
  <2>6. RefusedInv'
    BY DEF HoldersInv, NotRunningInv, TriedInv, ApartInv, RefusedInv
  <2> QED BY <2>1, <2>2, <2>3, <2>4, <2>5, <2>6
<1>17. ASSUME T!DeleteData PROVE TaskInv'
  <2> USE <1>17 DEF T!DeleteData, T!ownerVars, T!taskVars, T!cancelVars
  <2>1. T!TypeOK'
    BY DEF HoldersInv, NotRunningInv, TriedInv, ApartInv, RefusedInv
  <2>2. HoldersInv'
    BY DEF HoldersInv, NotRunningInv
  <2>3. NotRunningInv'
    BY DEF HoldersInv, NotRunningInv
  <2>4. TriedInv'
    BY DEF HoldersInv, NotRunningInv, TriedInv, ApartInv
  <2>5. ApartInv'
    BY DEF HoldersInv, NotRunningInv, TriedInv, ApartInv
  <2>6. RefusedInv'
    BY DEF HoldersInv, NotRunningInv, TriedInv, ApartInv, RefusedInv
  <2> QED BY <2>1, <2>2, <2>3, <2>4, <2>5, <2>6
<1>18. ASSUME T!Signal PROVE TaskInv'
  <2> USE <1>18 DEF T!Signal, T!ownerVars, T!taskVars, T!cancelVars
  <2>1. T!TypeOK'
    BY DEF HoldersInv, NotRunningInv, TriedInv, ApartInv, RefusedInv
  <2>2. HoldersInv'
    BY DEF HoldersInv, NotRunningInv
  <2>3. NotRunningInv'
    BY DEF HoldersInv, NotRunningInv
  <2>4. TriedInv'
    BY DEF HoldersInv, NotRunningInv, TriedInv, ApartInv
  <2>5. ApartInv'
    BY DEF HoldersInv, NotRunningInv, TriedInv, ApartInv
  <2>6. RefusedInv'
    BY DEF HoldersInv, NotRunningInv, TriedInv, ApartInv, RefusedInv
  <2> QED BY <2>1, <2>2, <2>3, <2>4, <2>5, <2>6
<1>19. ASSUME T!CancelStopped PROVE TaskInv'
  <2> USE <1>19 DEF T!CancelStopped, T!ownerVars, T!taskVars, T!cancelVars
  <2>1. T!TypeOK'
    BY DEF HoldersInv, NotRunningInv, TriedInv, ApartInv, RefusedInv
  <2>2. HoldersInv'
    BY DEF HoldersInv, NotRunningInv
  <2>3. NotRunningInv'
    BY DEF HoldersInv, NotRunningInv
  <2>4. TriedInv'
    BY DEF HoldersInv, NotRunningInv, TriedInv, ApartInv
  <2>5. ApartInv'
    BY DEF HoldersInv, NotRunningInv, TriedInv, ApartInv
  <2>6. RefusedInv'
    BY DEF HoldersInv, NotRunningInv, TriedInv, ApartInv, RefusedInv
  <2> QED BY <2>1, <2>2, <2>3, <2>4, <2>5, <2>6
<1>20. CASE UNCHANGED T!vars
  BY <1>20 DEF T!vars, T!ownerVars, T!taskVars, T!cancelVars, HoldersInv, NotRunningInv,
     TriedInv, ApartInv, RefusedInv
<1> QED
  BY <1>1, <1>2, <1>3, <1>4, <1>5, <1>6, <1>7, <1>8, <1>9, <1>10,
     <1>11, <1>12, <1>13, <1>14, <1>15, <1>16, <1>17, <1>18, <1>19, <1>20
  DEF T!Next, T!Owners, T!Lambda, T!Cancel

LEMMA TaskInvariance == T!Spec => []TaskInv
  BY TaskInitInv, TaskStepInv, PTL DEF T!Spec

-----------------------------------------------------------------------------
\* Every variable of the task protocol keeps its type; among them, the data is
\* not deleted a third time when cancel was refused the mutex.
THEOREM TaskTypes == T!Spec => []T!TypeOK
  BY TaskInvariance, PTL DEF TaskInv

\* The lambda and cancel find the data they use, and it is deleted once, unless
\* cancel is refused the mutex.
THEOREM TaskDataAlive == T!Spec => []T!DataAlive
<1>1. TaskInv => T!DataAlive
  BY DEF TaskInv, T!TypeOK, HoldersInv, NotRunningInv, TriedInv, ApartInv, T!DataAlive
<1> QED BY <1>1, TaskInvariance, PTL

\* When it is refused the mutex, the task is not dispatched once its event is
\* cancelled: only the call that is under way sees the deleted data.
THEOREM TaskNotCalledAgain ==
  T!Spec => [][tried = "refused" /\ data = "freed" /\ pc = "idle" => pc' = "idle"]_(T!vars)
<1>1. TaskInv /\ [T!Next]_T!vars
        => [tried = "refused" /\ data = "freed" /\ pc = "idle" => pc' = "idle"]_(T!vars)
  <2> SUFFICES ASSUME TaskInv, T!Next, tried = "refused", data = "freed", pc = "idle"
               PROVE  pc' = "idle"
    OBVIOUS
  <2>1. event # "scheduled"
    BY DEF TaskInv, RefusedInv, TriedInv
  <2> QED
    BY <2>1 DEF T!Next, T!Owners, T!Lambda, T!Cancel, T!Invoke, T!Copy, T!Drop, T!StopThreads,
       T!Dispatch, T!DropEvent, T!TestActive, T!LockConfig, T!WorkDone, T!ReleaseConfig,
       T!FunctorReturns, T!Check, T!Cleanup, T!TryLock, T!CancelEvent, T!Unlock, T!DeleteData,
       T!Signal, T!CancelStopped, T!taskVars
<1> QED BY <1>1, TaskInvariance, PTL DEF T!Spec

\* The functor never works on a directive that was destroyed, without condition.
THEOREM TaskBlockAlive == T!Spec => []T!BlockAlive
<1>1. TaskInv => T!BlockAlive
  BY DEF TaskInv, HoldersInv, T!BlockAlive
<1> QED BY <1>1, TaskInvariance, PTL

-----------------------------------------------------------------------------
(* The block.                                                              *)

\* The task starts when the directive is loaded, not before.
LoadInv ==
  /\ started => lpc = "loaded"
  /\ lpc # "loaded" => ~checked

\* What the Updater has in hand, while it works.
WorkInv ==
  /\ pc # "work" => upc = "status"
  /\ upc \in {"load", "swap"} => mtime <= disk
  /\ upc = "swap" => mtime <= fresh.ver

\* What is held is not destroyed, and what is viewed is held.
StringsInv ==
  /\ content.id <= nStrings /\ fresh.id <= nStrings
  /\ \A id \in 1..nStrings : Held(id) => id \notin dead
  /\ \A t \in Txn : views[t] \subseteq kept[t]

BlockTypeOK ==
  /\ disk \in 1..MaxWrites
  /\ access \in {"full", "status", "none"}
  /\ lpc \in {"content", "status", "loaded", "failed"}
  /\ content \in String /\ fresh \in String
  /\ \A s \in {content, fresh} : (s.id = 0) <=> (s.ver = 0)
  /\ lastMod \in 0..MaxWrites /\ mtime \in 0..MaxWrites
  /\ checked \in BOOLEAN
  /\ upc \in {"status", "load", "swap", "clear", "return"}
  /\ nStrings \in Nat
  /\ dead \subseteq 1..nStrings
  /\ views \in [Txn -> SUBSET (1..nStrings)]
  /\ kept \in [Txn -> SUBSET (1..nStrings)]

IInv ==
  /\ TaskInv
  /\ BlockTypeOK /\ LoadInv /\ WorkInv /\ StringsInv /\ NoLostUpdate

-----------------------------------------------------------------------------
\* The variables of the task take its steps, and nothing else.
LEMMA TaskInit == Init => T!Init
  BY DEF Init, T!Init, Ref

LEMMA TaskSimulated == [Next]_vars => [T!Next]_T!vars
<1> SUFFICES ASSUME [Next]_vars PROVE [T!Next]_T!vars
  OBVIOUS
<1> USE DEF T!Next, T!Owners, T!Lambda, Ref
<1>1. ASSUME taskVars' = taskVars PROVE UNCHANGED T!vars
  BY <1>1 DEF taskVars, T!vars, T!ownerVars, T!taskVars, T!cancelVars
<1>2. CASE Files
  BY <1>1, <1>2 DEF Files, Vanish, Return, Write
<1>3. CASE LoadContent \/ LoadStatus \/ (\E t \in Txn : Extract(t))
  BY <1>1, <1>3 DEF LoadContent, LoadStatus, Extract
<1>4. CASE Invoke \/ StopThreads \/ \E thread \in {"pool", "other"} : Replace(thread)
  BY <1>4 DEF Invoke, StopThreads, Replace
<1>5. CASE \E t \in Txn : Begin(t) \/ End(t)
  BY <1>5 DEF Begin, End
<1>6. CASE TaskStep
  BY <1>6 DEF TaskStep
<1>7. CASE CancelStep
  BY <1>7 DEF CancelStep
<1>8. CASE Work
  BY <1>1, <1>8 DEF Work, Status, Load, Swap, Clear, UpdateDone
<1>9. CASE UNCHANGED vars
  BY <1>1, <1>9 DEF vars
<1> QED BY <1>2, <1>3, <1>4, <1>5, <1>6, <1>7, <1>8, <1>9 DEF Next, Owners

LEMMA TaskKept == IInv /\ [Next]_vars => TaskInv'
  BY TaskSimulated, TaskStepInv DEF IInv

-----------------------------------------------------------------------------
\* A directive that is about to be loaded satisfies the invariant.
LEMMA InitInv == Init => IInv
<1> SUFFICES ASSUME Init PROVE IInv
  OBVIOUS
<1>1. TaskInv
  BY TaskInit, TaskInitInv
<1> USE BlockAssumption DEF Init, NoString, String
<1>2. BlockTypeOK
  <2>1. 1 \in 1..MaxWrites /\ 0 \in 0..MaxWrites /\ nStrings \in Nat /\ dead \subseteq 1..nStrings
    OBVIOUS
  <2>2. checked \in BOOLEAN
    OBVIOUS
  <2>3. content \in String /\ fresh \in String /\ content.id = 0 /\ content.ver = 0
    BY <2>1
  <2> QED BY <2>1, <2>2, <2>3 DEF BlockTypeOK
<1>3. LoadInv /\ WorkInv /\ NoLostUpdate
  BY DEF T!Init, LoadInv, WorkInv, NoLostUpdate
<1>4. StringsInv
  BY DEF StringsInv
<1> QED BY <1>1, <1>2, <1>3, <1>4 DEF IInv

\* The step of a string that is let go: what is still held is not destroyed.
LEMMA Released ==
  ASSUME StringsInv, ReleaseStrings, nStrings' = nStrings, nStrings \in Nat,
         \A id \in 1..nStrings : Held(id)' => Held(id)
  PROVE  /\ \A id \in 1..nStrings' : Held(id)' => id \notin dead'
         /\ dead \subseteq 1..nStrings => dead' \subseteq 1..nStrings
  BY DEF StringsInv, ReleaseStrings

\* Every step keeps the invariant of the block.
LEMMA StepInv == IInv /\ [Next]_vars => IInv'
<1> SUFFICES ASSUME IInv, [Next]_vars PROVE IInv'
  OBVIOUS
<1>1. TaskInv'
  BY TaskKept
<1> SUFFICES (BlockTypeOK /\ LoadInv /\ WorkInv /\ StringsInv /\ NoLostUpdate)'
  BY <1>1 DEF IInv
<1>2. BlockTypeOK /\ LoadInv /\ WorkInv /\ StringsInv /\ NoLostUpdate
  BY DEF IInv
<1>3. /\ ~started => pc = "idle"
      /\ pc \in {"idle", "start", "functor", "work", "release", "destroy", "check", "cleanup"}
  BY DEF IInv, TaskInv, NotRunningInv, T!TypeOK
<1> USE BlockAssumption DEF NoString, String
<1>4. ASSUME NEW mode \in {"full", "status"}, Write(mode)
      PROVE  (BlockTypeOK /\ LoadInv /\ WorkInv /\ StringsInv /\ NoLostUpdate)'
  BY <1>2, <1>4 DEF Write, taskVars, blockVars, updVars, stringVars, readVars,
     BlockTypeOK, LoadInv, WorkInv, StringsInv, Held, NoLostUpdate
<1>5. ASSUME Vanish \/ Return
      PROVE  (BlockTypeOK /\ LoadInv /\ WorkInv /\ StringsInv /\ NoLostUpdate)'
  <2>1. UNCHANGED <<taskVars, disk, blockVars>> /\ access' \in {"none", "full"}
    BY <1>5 DEF Vanish, Return
  <2> QED
    BY <1>2, <2>1 DEF taskVars, blockVars, updVars, stringVars, readVars,
       BlockTypeOK, LoadInv, WorkInv, StringsInv, Held, NoLostUpdate
<1>6. ASSUME LoadContent
      PROVE  (BlockTypeOK /\ LoadInv /\ WorkInv /\ StringsInv /\ NoLostUpdate)'
  <2> USE <1>2, <1>6 DEF LoadContent, taskVars, fileVars, updVars, readVars
  <2>1. BlockTypeOK'
    BY DEF BlockTypeOK, NewString
  <2>2. (LoadInv /\ WorkInv /\ NoLostUpdate)'
    BY DEF BlockTypeOK, LoadInv, WorkInv, NoLostUpdate
  <2>3. StringsInv'
    BY DEF BlockTypeOK, StringsInv, Held, NewString
  <2> QED BY <2>1, <2>2, <2>3
<1>7. ASSUME LoadStatus
      PROVE  (BlockTypeOK /\ LoadInv /\ WorkInv /\ StringsInv /\ NoLostUpdate)'
  BY <1>2, <1>7 DEF LoadStatus, taskVars, fileVars, updVars, stringVars, readVars,
     BlockTypeOK, LoadInv, WorkInv, StringsInv, Held, NoLostUpdate
<1>8. ASSUME Invoke \/ StopThreads \/ TaskStep \/ \E t \in Txn : Begin(t)
      PROVE  (BlockTypeOK /\ LoadInv /\ WorkInv /\ StringsInv /\ NoLostUpdate)'
  <2>1. UNCHANGED <<fileVars, blockVars>>
    BY <1>8 DEF Invoke, StopThreads, TaskStep, Begin
  <2>2. started' => lpc = "loaded"
    BY <1>2, <1>8 DEF Invoke, StopThreads, TaskStep, Begin, LoadInv, T!StopThreads,
       T!Copy, T!ownerVars, T!Dispatch, T!DropEvent, T!TestActive, T!LockConfig,
       T!ReleaseConfig, T!FunctorReturns, T!Check, T!Cleanup
  <2>3. pc' # "work" => upc = "status"
    <3>1. CASE Invoke \/ StopThreads \/ \E t \in Txn : Begin(t)
      BY <1>2, <3>1 DEF Invoke, StopThreads, Begin, WorkInv, T!StopThreads, T!Invoke, T!Copy,
         T!taskVars
    <3>2. CASE T!Dispatch \/ T!DropEvent \/ T!TestActive \/ T!LockConfig
      BY <1>2, <3>2 DEF WorkInv, T!Dispatch, T!Due, T!DropEvent, T!TestActive, T!LockConfig
    <3>3. CASE T!ReleaseConfig \/ T!FunctorReturns \/ T!Check \/ T!Cleanup
      BY <1>2, <3>3 DEF WorkInv, T!ReleaseConfig, T!FunctorReturns, T!Check, T!Cleanup
    <3> QED BY <1>8, <3>1, <3>2, <3>3 DEF TaskStep
  <2> QED
    BY <1>2, <2>1, <2>2, <2>3 DEF fileVars, blockVars, updVars, stringVars, readVars,
       BlockTypeOK, LoadInv, WorkInv, StringsInv, Held, NoLostUpdate
<1>9. ASSUME NEW t \in Txn, Extract(t)
      PROVE  (BlockTypeOK /\ LoadInv /\ WorkInv /\ StringsInv /\ NoLostUpdate)'
  <2> USE <1>2, <1>9 DEF Extract, taskVars, fileVars, updVars, stringVars
  <2>1. content.id \in 1..nStrings
    BY DEF BlockTypeOK, StringsInv
  <2>2. BlockTypeOK'
    BY <2>1 DEF BlockTypeOK
  <2>3. (LoadInv /\ WorkInv /\ NoLostUpdate)'
    BY DEF LoadInv, WorkInv, NoLostUpdate
  <2>4. StringsInv'
    BY <2>1 DEF BlockTypeOK, StringsInv, Held
  <2> QED BY <2>2, <2>3, <2>4
<1>10. ASSUME NEW t \in Txn, End(t)
       PROVE  (BlockTypeOK /\ LoadInv /\ WorkInv /\ StringsInv /\ NoLostUpdate)'
  <2> USE <1>2, <1>10 DEF End, fileVars, updVars, Members
  <2>1. started' = started /\ pc' = pc
    BY DEF T!Drop, T!taskVars
  <2>2. \A id \in 1..nStrings : Held(id)' => Held(id)
    BY DEF Held, BlockTypeOK
  <2>3. BlockTypeOK'
    BY <2>2, Released DEF BlockTypeOK
  <2>4. (LoadInv /\ WorkInv /\ NoLostUpdate)'
    BY <2>1 DEF LoadInv, WorkInv, NoLostUpdate
  <2>5. StringsInv'
    BY <2>2, Released DEF BlockTypeOK, StringsInv
  <2> QED BY <2>3, <2>4, <2>5
<1>11. ASSUME CancelStep \/ \E thread \in {"pool", "other"} : Replace(thread)
       PROVE  (BlockTypeOK /\ LoadInv /\ WorkInv /\ StringsInv /\ NoLostUpdate)'
  <2> USE <1>2 DEF fileVars, updVars, readVars, Members
  <2>1. started' = started /\ pc' = pc
    BY <1>11 DEF Replace, CancelStep, T!Drop, T!Cancel, T!TryLock, T!CancelEvent,
       T!Unlock, T!DeleteData, T!Signal, T!CancelStopped, T!ownerVars, T!taskVars
  <2>2. /\ UNCHANGED <<fileVars, lpc, lastMod, checked, updVars, nStrings, readVars>>
        /\ Members /\ ReleaseStrings
    BY <1>11 DEF Replace, CancelStep
  <2>3. \A id \in 1..nStrings : Held(id)' => Held(id)
    BY <2>2 DEF Held
  <2>4. BlockTypeOK'
    BY <2>2, <2>3, Released DEF BlockTypeOK
  <2>5. (LoadInv /\ WorkInv /\ NoLostUpdate)'
    BY <2>1, <2>2 DEF LoadInv, WorkInv, NoLostUpdate
  <2>6. StringsInv'
    BY <2>2, <2>3, Released DEF BlockTypeOK, StringsInv
  <2> QED BY <2>4, <2>5, <2>6
<1>12. ASSUME Status
       PROVE  (BlockTypeOK /\ LoadInv /\ WorkInv /\ StringsInv /\ NoLostUpdate)'
  BY <1>2, <1>12 DEF Status, taskVars, fileVars, stringVars, readVars,
     BlockTypeOK, LoadInv, WorkInv, StringsInv, Held, NoLostUpdate
<1>13. ASSUME Load
       PROVE  (BlockTypeOK /\ LoadInv /\ WorkInv /\ StringsInv /\ NoLostUpdate)'
  <2> USE <1>2, <1>13 DEF Load, taskVars, fileVars, readVars
  <2>1. BlockTypeOK'
    BY DEF BlockTypeOK, NewString
  <2>2. (LoadInv /\ WorkInv /\ NoLostUpdate)'
    BY DEF BlockTypeOK, LoadInv, WorkInv, NoLostUpdate, NewString
  <2>3. StringsInv'
    BY DEF BlockTypeOK, StringsInv, Held, NewString
  <2> QED BY <2>1, <2>2, <2>3
<1>14. ASSUME Swap
       PROVE  (BlockTypeOK /\ LoadInv /\ WorkInv /\ StringsInv /\ NoLostUpdate)'
  <2> USE <1>2, <1>3, <1>14 DEF Swap, taskVars, fileVars, readVars
  <2>1. \A id \in 1..nStrings : Held(id)' => Held(id)
    BY DEF Held
  <2>2. BlockTypeOK'
    BY <2>1, Released DEF BlockTypeOK
  <2>3. (LoadInv /\ WorkInv /\ NoLostUpdate)'
    BY DEF BlockTypeOK, LoadInv, WorkInv, NoLostUpdate
  <2>4. StringsInv'
    BY <2>1, Released DEF BlockTypeOK, StringsInv
  <2> QED BY <2>2, <2>3, <2>4
<1>15. ASSUME Clear
       PROVE  (BlockTypeOK /\ LoadInv /\ WorkInv /\ StringsInv /\ NoLostUpdate)'
  <2> USE <1>2, <1>15 DEF Clear, taskVars, fileVars, readVars
  <2>1. \A id \in 1..nStrings : Held(id)' => Held(id)
    BY DEF Held
  <2>2. BlockTypeOK'
    BY <2>1, Released DEF BlockTypeOK
  <2>3. (LoadInv /\ WorkInv /\ NoLostUpdate)'
    BY DEF LoadInv, WorkInv, NoLostUpdate
  <2>4. StringsInv'
    BY <2>1, Released DEF BlockTypeOK, StringsInv
  <2> QED BY <2>2, <2>3, <2>4
<1>16. ASSUME UpdateDone
       PROVE  (BlockTypeOK /\ LoadInv /\ WorkInv /\ StringsInv /\ NoLostUpdate)'
  BY <1>2, <1>16 DEF UpdateDone, T!WorkDone, T!ownerVars, fileVars, stringVars, readVars,
     BlockTypeOK, LoadInv, WorkInv, StringsInv, Held, NoLostUpdate
<1>17. CASE UNCHANGED vars
  BY <1>2, <1>17 DEF vars, taskVars, fileVars, blockVars, updVars, stringVars, readVars,
     BlockTypeOK, LoadInv, WorkInv, StringsInv, Held, NoLostUpdate
<1> QED
  BY <1>4, <1>5, <1>6, <1>7, <1>8, <1>9, <1>10, <1>11, <1>12, <1>13, <1>14, <1>15,
     <1>16, <1>17 DEF Next, Files, Owners, Work

LEMMA Invariance == Spec => []IInv
  BY InitInv, StepInv, PTL DEF Spec

-----------------------------------------------------------------------------
\* What the block does with its task is what TaskHandle says a task does, so
\* that what is proved of the task is so in a text block.
THEOREM TaskImplemented == Spec => T!Spec
  BY TaskInit, TaskSimulated, PTL DEF Spec, T!Spec

\* The type invariant, that of the task included.
THEOREM TypeCorrect == Spec => []TypeOK
<1>1. IInv => TypeOK
  BY DEF IInv, TaskInv, BlockTypeOK, TypeOK
<1> QED BY <1>1, Invariance, PTL

\* The lambda and cancel find the data they use, and it is deleted once, unless
\* cancel is refused the mutex.
THEOREM DataStaysAlive == Spec => []DataAlive
BY TaskImplemented, TaskDataAlive, PTL DEF DataAlive

\* The Updater works only while the block exists.
THEOREM BlockStaysAlive == Spec => []BlockAlive
BY TaskImplemented, TaskBlockAlive, PTL DEF BlockAlive

\* A view that a transaction got of the content is good until it ends.
THEOREM ViewsStayAlive == Spec => []ViewsAlive
<1>1. IInv => ViewsAlive
  BY DEF IInv, BlockTypeOK, StringsInv, Held, ViewsAlive
<1> QED BY <1>1, Invariance, PTL

\* The checks of the task lose no update.
THEOREM UpdatesKept == Spec => []NoLostUpdate
  BY Invariance, PTL DEF IInv
=============================================================================
