----------------------------- MODULE TaskHandle -----------------------------
(***************************************************************************)
(* A periodic task and its cancellation: what Do_text_block_define and     *)
(* Do_ip_space_define start when their configuration is loaded, and cancel *)
(* in their destructor, that is when the last shared pointer to the        *)
(* configuration lets go.  The functor of the task has a weak pointer and  *)
(* locks it while it works, so it can be the one that lets go last.        *)
(* Source: ts_util.cc (TaskHandle), text_block.cc, ip_space.cc.            *)
(*                                                                         *)
(* Actors: the threads that hold the configuration, the ATS thread that    *)
(* dispatches the event, under the mutex of the continuation, and the      *)
(* thread that runs the destructor, which is any of them.                  *)
(***************************************************************************)
EXTENDS Naturals

CONSTANT Ref   \* shared pointers to the configuration other than the task's

VARIABLES
  refs,      \* those that hold it
  taskRef,   \* the functor holds it as well
  started,   \* PerformAsTaskEvery was called
  event,     \* the ATS event of the task
  lock,      \* who holds the mutex of the continuation: the thread of the event or another
  tried,     \* what TSMutexLockTry gave TaskHandle::cancel: a mutex it got it never unlocks
  data,      \* the TaskHandle::Data object
  frees,     \* how often it was deleted
  active,    \* its _active
  pc,        \* where the lambda is
  cpc,       \* where TaskHandle::cancel is
  canceller, \* its thread: in the task, the event's between two events, or another
  stopped    \* ATS has stopped the threads that dispatch

ownerVars == <<refs, started>>
taskVars  == <<taskRef, event, pc>>
cancelVars == <<tried, cpc, canceller>>
vars == <<ownerVars, taskVars, lock, data, frees, active, cancelVars, stopped>>

TypeOK ==
  /\ refs \subseteq Ref
  /\ taskRef \in BOOLEAN
  /\ started \in BOOLEAN
  /\ event \in {"none", "scheduled", "cancelled"}
  /\ lock \in {"none", "event", "other"}
  /\ tried \in {"no", "got", "refused"}
  /\ data \in {"none", "live", "freed"}
  /\ frees \in 0..2
  /\ active \in BOOLEAN
  /\ pc \in {"idle", "start", "functor", "work", "release", "destroy", "check", "cleanup"}
  /\ cpc \in {"no", "cancel", "refused", "unlock", "delete", "signal", "done"}
  /\ canceller \in {"none", "task", "pool", "other"}
  /\ stopped \in BOOLEAN

\* The configuration while it loads: one shared pointer, no task yet.
Init ==
  /\ \E r \in Ref : refs = {r}
  /\ taskRef = FALSE /\ started = FALSE
  /\ event = "none" /\ lock = "none" /\ tried = "no" /\ data = "none" /\ frees = 0 /\ active = FALSE
  /\ pc = "idle" /\ cpc = "no" /\ canceller = "none" /\ stopped = FALSE

\* Do_text_block_define::invoke, Do_ip_space_define::invoke: the post-load hook.
Invoke ==
  /\ ~started /\ refs # {} /\ ~stopped
  /\ started' = TRUE
  /\ event' = "scheduled" /\ data' = "live" /\ active' = TRUE
  /\ UNCHANGED <<refs, taskRef, pc, lock, frees, cancelVars, stopped>>

\* The configuration is published, a transaction begins.
Copy(r) ==
  /\ refs # {} /\ r \notin refs
  /\ refs' = refs \cup {r}
  /\ UNCHANGED <<started, taskVars, lock, data, frees, active, cancelVars, stopped>>

\* The last shared pointer is gone: the destructor of the directive calls
\* TaskHandle::cancel, which has nothing to do if no task was started.
Destroy(thread) ==
  /\ canceller' = thread
  /\ cpc' = IF started THEN "cancel" ELSE "done"

\* A load fails, a reload or the shut down replaces it, a transaction is over.
\* The thread may be the one that dispatches the event, when it is not in it.
Drop(r, thread) ==
  /\ r \in refs
  /\ thread = "pool" => pc = "idle" /\ ~stopped
  /\ refs' = refs \ {r}
  /\ IF refs = {r} /\ ~taskRef THEN Destroy(thread) ELSE UNCHANGED <<cpc, canceller>>
  /\ UNCHANGED <<started, taskVars, lock, tried, data, frees, active, stopped>>

\* ATS stops its threads: none is in a task, and none enters one any more.
StopThreads ==
  /\ ~stopped /\ pc = "idle" /\ cpc \in {"no", "done"}
  /\ stopped' = TRUE
  /\ UNCHANGED <<ownerVars, taskVars, lock, data, frees, active, cancelVars>>

-----------------------------------------------------------------------------
\* The event is due on its thread.  ATS calls the continuation only under its
\* mutex, which is recursive, and tries again later if another thread has it;
\* it drops a cancelled event.
CanLock == lock \in {"none", "event"}
Due     == pc = "idle" /\ ~stopped /\ ~(canceller = "pool" /\ cpc # "done") /\ CanLock

Dispatch ==
  /\ Due
  /\ event = "scheduled"
  /\ pc' = "start" /\ lock' = "event"
  /\ UNCHANGED <<ownerVars, taskRef, event, data, frees, active, cancelVars, stopped>>

DropEvent ==
  /\ Due
  /\ event = "cancelled"
  /\ event' = "none"
  /\ UNCHANGED <<ownerVars, taskRef, pc, lock, data, frees, active, cancelVars, stopped>>

\* What reading _active gives: anything once the object is deleted.
ReadActive == IF data = "live" THEN {active} ELSE BOOLEAN

\* The lambda of PerformAsTaskEvery: a task that was cancelled is not called.
TestActive ==
  /\ pc = "start"
  /\ \E a \in ReadActive : pc' = IF a THEN "functor" ELSE "check"
  /\ UNCHANGED <<ownerVars, taskRef, event, lock, data, frees, active, cancelVars, stopped>>

\* Mutant: the functor works on the block without holding the configuration.
LockConfig_Raw ==
  /\ pc = "functor"
  /\ pc' = IF refs # {} THEN "work" ELSE "check"
  /\ UNCHANGED <<ownerVars, taskRef, event, lock, data, frees, active, cancelVars, stopped>>

\* Updater::operator(): lock the weak pointer; without a configuration return.
\* (Also in memory that cancel has deleted the use count is 0: what else a
\* functor could do that is destroyed under its call is left out.)
LockConfig ==
  /\ pc = "functor"
  /\ taskRef' = (refs # {})
  /\ pc' = IF refs # {} THEN "work" ELSE "check"
  /\ UNCHANGED <<ownerVars, event, lock, data, frees, active, cancelVars, stopped>>

\* The work of the functor is done, and it returns.
WorkDone ==
  /\ pc = "work"
  /\ pc' = "release"
  /\ UNCHANGED <<ownerVars, taskRef, event, lock, data, frees, active, cancelVars, stopped>>

\* Its shared pointer goes out of scope, and may be the last.
ReleaseConfig ==
  /\ pc = "release"
  /\ taskRef' = FALSE
  /\ IF refs = {} THEN pc' = "destroy" /\ Destroy("task")
                  ELSE pc' = "check" /\ UNCHANGED <<cpc, canceller>>
  /\ UNCHANGED <<ownerVars, event, lock, tried, data, frees, active, stopped>>

\* The destructor has returned into the functor, and the functor to the lambda.
FunctorReturns ==
  /\ pc = "destroy" /\ cpc = "done"
  /\ pc' = "check"
  /\ UNCHANGED <<ownerVars, taskRef, event, lock, data, frees, active, cancelVars, stopped>>

\* The lambda returns to ATS, which unlocks the mutex, once.
Unlocked == IF tried = "got" THEN lock ELSE "none"

\* Mutant: the lambda does not look at _active again after the functor.
Check_Never ==
  /\ pc = "check"
  /\ pc' = "idle" /\ lock' = Unlocked
  /\ UNCHANGED <<ownerVars, taskRef, event, data, frees, active, cancelVars, stopped>>

\* If the task is still active, return.
Check ==
  /\ pc = "check"
  /\ \E a \in ReadActive :
       IF a THEN pc' = "idle" /\ lock' = Unlocked
            ELSE pc' = "cleanup" /\ UNCHANGED lock
  /\ UNCHANGED <<ownerVars, taskRef, event, data, frees, active, cancelVars, stopped>>

\* Otherwise cancel the event, delete the data, unlock - for the lock that
\* cancel tried, if it did - and return.  (The continuation is destroyed with
\* the data.)
Cleanup ==
  /\ pc = "cleanup"
  /\ event' = "cancelled"
  /\ data' = "freed" /\ frees' = frees + 1
  /\ pc' = "idle" /\ lock' = "none"
  /\ UNCHANGED <<ownerVars, taskRef, active, cancelVars, stopped>>

-----------------------------------------------------------------------------
\* TaskHandle::cancel tests what TSMutexLockTry returns for truth, and that is
\* TS_SUCCESS, 0, if the mutex was got: nobody has it, or this thread is in the
\* lambda.
TryLock ==
  /\ cpc = "cancel" /\ ~stopped
  /\ IF lock = "none" \/ canceller = "task"
       THEN /\ lock' = (IF canceller = "other" THEN "other" ELSE "event")
            /\ tried' = "got"
            /\ cpc' = "signal"
       ELSE cpc' = "refused" /\ tried' = "refused" /\ UNCHANGED lock
  /\ UNCHANGED <<ownerVars, taskVars, data, frees, active, canceller, stopped>>

\* Mutant: the event is not cancelled.
CancelEvent_Missing ==
  /\ cpc = "refused"
  /\ cpc' = "unlock"
  /\ UNCHANGED <<ownerVars, taskVars, lock, tried, data, frees, active, canceller, stopped>>

\* Without the mutex, which the lambda has: cancel the event, ...
CancelEvent ==
  /\ cpc = "refused"
  /\ event' = "cancelled"
  /\ cpc' = "unlock"
  /\ UNCHANGED <<ownerVars, taskRef, pc, lock, tried, data, frees, active, canceller, stopped>>

\* ... unlock the mutex, which takes it from the lambda if that is still in it
\* (TSMutexUnlock of a release build does not look whose it is), ...
Unlock ==
  /\ cpc = "unlock"
  /\ lock' = "none"
  /\ cpc' = "delete"
  /\ UNCHANGED <<ownerVars, taskVars, tried, data, frees, active, canceller, stopped>>

\* ... and delete the data and the continuation.
DeleteData ==
  /\ cpc = "delete"
  /\ data' = "freed" /\ frees' = frees + 1
  /\ cpc' = "done"
  /\ UNCHANGED <<ownerVars, taskVars, lock, tried, active, canceller, stopped>>

\* Mutant: the data is deleted here as well.
Signal_Deletes ==
  /\ cpc = "signal"
  /\ active' = FALSE
  /\ data' = "freed" /\ frees' = frees + 1
  /\ cpc' = "done"
  /\ UNCHANGED <<ownerVars, taskVars, lock, tried, canceller, stopped>>

\* With the mutex: tell the lambda to clean up, and keep the mutex.
Signal ==
  /\ cpc = "signal"
  /\ active' = FALSE
  /\ cpc' = "done"
  /\ UNCHANGED <<ownerVars, taskVars, lock, tried, data, frees, canceller, stopped>>

\* On TS_MAIN during the shut down there is no lock to take.
CancelStopped ==
  /\ cpc = "cancel" /\ stopped
  /\ data' = "freed" /\ frees' = frees + 1
  /\ cpc' = "done"
  /\ UNCHANGED <<ownerVars, taskVars, lock, tried, active, canceller, stopped>>

Lambda ==
  \/ TestActive \/ LockConfig \/ WorkDone \/ ReleaseConfig \/ FunctorReturns
  \/ Check \/ Cleanup

Cancel == TryLock \/ CancelEvent \/ Unlock \/ DeleteData \/ Signal \/ CancelStopped

Owners ==
  \/ Invoke \/ StopThreads
  \/ \E r \in Ref : Copy(r) \/ \E thread \in {"pool", "other"} : Drop(r, thread)

Next == Owners \/ Dispatch \/ DropEvent \/ Lambda \/ Cancel

Spec == Init /\ [][Next]_vars

\* Threads run what they have begun, and the event is dispatched every period
\* that its mutex can be had.
FairSpec ==
  /\ Spec
  /\ WF_vars(Lambda) /\ WF_vars(Cancel)
  /\ WF_vars(Dispatch) /\ WF_vars(DropEvent)

-----------------------------------------------------------------------------
\* Unless cancel is refused the mutex (TaskNotRunning is about that), neither
\* the lambda nor the functor in it outlives the data it runs on, cancel finds
\* it, and it is deleted at most once - also if the functor is the one that
\* destroys the configuration and with it the handle.
DataAlive ==
  tried # "refused" =>
    /\ pc # "idle" \/ cpc \in {"cancel", "signal"} => data = "live"
    /\ frees <= 1

\* While the functor works, the directive and its configuration exist, whoever
\* lets go of the configuration in the meantime.
BlockAlive == pc = "work" => cpc = "no"

\* The data of a cancelled task is deleted and its event is cancelled, except
\* that a thread other than the event's which got the mutex keeps both from
\* that: TSMutexUnlock is not called there.
Reclaimed == stopped \/ (event # "scheduled" /\ data = "freed") \/ lock = "other"

\* A cancelled task ends: "it will be detected the next time the task runs", so
\* the functor is not called any more in the end, and what can be deleted is.
CancelTakesEffect ==
  cpc = "done" /\ started ~> [](pc \notin {"functor", "work"} /\ Reclaimed)

\* The comment in TaskHandle::cancel, where the event was cancelled: "The task
\* is not running at this point because the lock is held".
TaskNotRunning == cpc = "unlock" => pc = "idle"
=============================================================================
