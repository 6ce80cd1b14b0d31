---------------------------- MODULE PluginConfig ----------------------------
(***************************************************************************)
(* The global configuration: the shared pointer Plugin_Config, the         *)
(* transactions that copy it, the reload task that replaces it and the     *)
(* shut down that drops it.  Source: txn_box.cc.                           *)
(*                                                                         *)
(* The messages, the reload tasks and the transactions run on threads of   *)
(* ATS, several at a time.  A Config lives as long as some shared pointer  *)
(* holds it, and is destroyed by the thread that drops the last one.       *)
(***************************************************************************)
EXTENDS Naturals

CONSTANTS
  Task,      \* reload tasks that can be in progress at once
  Txn,       \* transactions that can be in progress at once
  MaxLoads   \* bound: how many configurations are made

ASSUME BoundAssumption == MaxLoads \in Nat \ {0}

Version   == 1..MaxLoads
NoVersion == 0              \* a null pointer

VARIABLES
  slot,       \* Plugin_Config
  reloading,  \* Plugin_Reloading is not the null time
  loads,      \* how many Configs were made; they are numbered in that order
  loaded,     \* those that loaded without an error
  freed,      \* those that were destroyed
  hooked,     \* TxnBoxInit added CB_Txn_Start
  down,       \* the shut down event was delivered
  readers,    \* transactions that hold Plugin_Config_Mutex shared
  running,    \* transactions that have read Plugin_Config, until they close
  handle,     \* what they read
  pc,         \* where each Task_ConfigReload is
  cfg,        \* its local handle
  seen        \* the pointer it reads for the last message

taskVars == <<pc, cfg, seen>>
txnVars  == <<readers, running, handle>>
vars     == <<slot, reloading, loads, loaded, freed, hooked, down, txnVars, taskVars>>

TypeOK ==
  /\ slot \in Version \cup {NoVersion}
  /\ reloading \in BOOLEAN
  /\ loads \in Version
  /\ loaded \subseteq Version
  /\ freed \subseteq Version
  /\ hooked \in BOOLEAN
  /\ down \in BOOLEAN
  /\ running \subseteq Txn
  /\ readers \subseteq running
  /\ handle \in [Txn -> Version \cup {NoVersion}]
  /\ pc \in [Task -> {"idle", "queued", "loading", "store", "finish", "report", "deref"}]
  /\ cfg \in [Task -> Version \cup {NoVersion}]
  /\ \A k \in Task : cfg[k] = NoVersion <=> pc[k] \in {"idle", "queued"}
  /\ seen \in [Task -> Version \cup {NoVersion}]

\* TSPluginInit: a configuration that does not load is kept in Plugin_Config,
\* but CB_Txn_Start is not added then, nor if the registration fails.
Init ==
  /\ slot = 1 /\ reloading = FALSE /\ loads = 1 /\ freed = {} /\ down = FALSE
  /\ hooked \in BOOLEAN
  /\ loaded \in {{}, {1}}
  /\ hooked => loaded = {1}
  /\ readers = {} /\ running = {}
  /\ handle = [t \in Txn |-> NoVersion]
  /\ pc = [k \in Task |-> "idle"]
  /\ cfg = [k \in Task |-> NoVersion]
  /\ seen = [k \in Task |-> NoVersion]

\* Some shared pointer counts for v: Plugin_Config, the handle of a reload or
\* of a Context.  While a transaction holds the mutex it has only the pointer.
Held(v) ==
  \/ slot = v
  \/ \E k \in Task : cfg[k] = v
  \/ \E t \in running \ readers : handle[t] = v

\* The shared pointers: a Config is destroyed when the last one lets go.
Release == freed' = freed \cup {v \in Version : Held(v) /\ ~Held(v)'}

-----------------------------------------------------------------------------
\* CB_Txn_Start, scoped_plugin_config: the shared lock is taken, the pointer
\* is read ...
ReadSlot(t) ==
  /\ hooked /\ t \notin running
  /\ readers' = readers \cup {t}
  /\ running' = running \cup {t}
  /\ handle' = [handle EXCEPT ![t] = slot]
  /\ UNCHANGED <<slot, reloading, loads, loaded, freed, hooked, down, taskVars>>

\* ... and counted, under the lock.  Without a configuration there is no Context.
CopySlot(t) ==
  /\ t \in readers
  /\ readers' = readers \ {t}
  /\ running' = IF handle[t] = NoVersion THEN running \ {t} ELSE running
  /\ UNCHANGED <<slot, reloading, loads, loaded, freed, hooked, down, handle, taskVars>>

\* TXN_CLOSE: the Context is deleted, and its handle with it.
Close(t) ==
  /\ t \in running \ readers
  /\ running' = running \ {t}
  /\ handle' = [handle EXCEPT ![t] = NoVersion]
  /\ UNCHANGED <<slot, reloading, loads, loaded, hooked, down, readers, taskVars>>
  /\ Release

\* CB_TxnBoxMsg for "txn_box.reload": PerformAsTask queues Task_ConfigReload.
Message(k) ==
  /\ pc[k] = "idle"
  /\ pc' = [pc EXCEPT ![k] = "queued"]
  /\ UNCHANGED <<slot, reloading, loads, loaded, freed, hooked, down, txnVars, cfg, seen>>

\* Mutant: whether another reload is active is not tested.
StartReload_NoTest(k) ==
  /\ pc[k] = "queued" /\ loads < MaxLoads
  /\ reloading' = TRUE
  /\ loads' = loads + 1
  /\ cfg' = [cfg EXCEPT ![k] = loads + 1]
  /\ pc' = [pc EXCEPT ![k] = "loading"]
  /\ UNCHANGED <<slot, loaded, freed, hooked, down, txnVars, seen>>

\* Task_ConfigReload: the exchange on Plugin_Reloading succeeds, and a new
\* Config is made.
StartReload(k) ==
  /\ pc[k] = "queued" /\ ~reloading /\ loads < MaxLoads
  /\ reloading' = TRUE
  /\ loads' = loads + 1
  /\ cfg' = [cfg EXCEPT ![k] = loads + 1]
  /\ pc' = [pc EXCEPT ![k] = "loading"]
  /\ UNCHANGED <<slot, loaded, freed, hooked, down, txnVars, seen>>

\* The exchange fails: another reload is active, this one is reported and over.
RefuseReload(k) ==
  /\ pc[k] = "queued" /\ reloading
  /\ pc' = [pc EXCEPT ![k] = "idle"]
  /\ UNCHANGED <<slot, reloading, loads, loaded, freed, hooked, down, txnVars, cfg, seen>>

\* Config::load_cli_args, without and with an error.
LoadSucceeds(k) ==
  /\ pc[k] = "loading"
  /\ loaded' = loaded \cup {cfg[k]}
  /\ pc' = [pc EXCEPT ![k] = "store"]
  /\ UNCHANGED <<slot, reloading, loads, freed, hooked, down, txnVars, cfg, seen>>

LoadFails(k) ==
  /\ pc[k] = "loading"
  /\ pc' = [pc EXCEPT ![k] = "finish"]
  /\ UNCHANGED <<slot, reloading, loads, loaded, freed, hooked, down, txnVars, cfg, seen>>

\* Mutant: the pointer is assigned without the mutex.
Store_NoLock(k) ==
  /\ pc[k] = "store"
  /\ slot' = cfg[k]
  /\ pc' = [pc EXCEPT ![k] = "finish"]
  /\ UNCHANGED <<reloading, loads, loaded, hooked, down, txnVars, cfg, seen>>
  /\ Release

\* The assignment to Plugin_Config, in one step because it is made under the
\* exclusive lock.
Store(k) ==
  /\ pc[k] = "store" /\ readers = {}
  /\ slot' = cfg[k]
  /\ pc' = [pc EXCEPT ![k] = "finish"]
  /\ UNCHANGED <<reloading, loads, loaded, hooked, down, txnVars, cfg, seen>>
  /\ Release

\* Mutant: only a load that succeeded clears the mark.
Finish_IfStored(k) ==
  /\ pc[k] = "finish"
  /\ reloading' = (cfg[k] \notin loaded)
  /\ pc' = [pc EXCEPT ![k] = "report"]
  /\ UNCHANGED <<slot, loads, loaded, freed, hooked, down, txnVars, cfg, seen>>

Finish(k) ==
  /\ pc[k] = "finish"
  /\ reloading' = FALSE
  /\ pc' = [pc EXCEPT ![k] = "report"]
  /\ UNCHANGED <<slot, loads, loaded, freed, hooked, down, txnVars, cfg, seen>>

\* The last message: Plugin_Config is read again, without the mutex and when
\* another reload may be active, and file_count() is called on what was read.
Report(k) ==
  /\ pc[k] = "report"
  /\ seen' = [seen EXCEPT ![k] = slot]
  /\ pc' = [pc EXCEPT ![k] = "deref"]
  /\ UNCHANGED <<slot, reloading, loads, loaded, freed, hooked, down, txnVars, cfg>>

\* Mutant: the task keeps its handle.
EndReload_Keeps(k) ==
  /\ pc[k] = "deref"
  /\ pc' = [pc EXCEPT ![k] = "idle"]
  /\ seen' = [seen EXCEPT ![k] = NoVersion]
  /\ UNCHANGED <<slot, reloading, loads, loaded, freed, hooked, down, txnVars, cfg>>

\* The local handle goes out of scope.
EndReload(k) ==
  /\ pc[k] = "deref"
  /\ pc' = [pc EXCEPT ![k] = "idle"]
  /\ seen' = [seen EXCEPT ![k] = NoVersion]
  /\ cfg' = [cfg EXCEPT ![k] = NoVersion]
  /\ UNCHANGED <<slot, reloading, loads, loaded, hooked, down, txnVars>>
  /\ Release

\* CB_TxnBoxShutdown, which ATS calls once.
Shutdown ==
  /\ ~down /\ readers = {}
  /\ down' = TRUE
  /\ slot' = NoVersion
  /\ UNCHANGED <<reloading, loads, loaded, hooked, txnVars, taskVars>>
  /\ Release

TxnStep(t) == CopySlot(t) \/ Close(t)

Reload(k) ==
  \/ StartReload(k) \/ RefuseReload(k)
  \/ LoadSucceeds(k) \/ LoadFails(k)
  \/ Store(k) \/ Finish(k) \/ Report(k) \/ EndReload(k)

Next ==
  \/ \E t \in Txn : ReadSlot(t) \/ TxnStep(t)
  \/ \E k \in Task : Message(k) \/ Reload(k)
  \/ Shutdown

Spec == Init /\ [][Next]_vars

\* Threads run what they have begun, transactions end, and a task that waits
\* for the mutex gets it if it is free again and again.
FairSpec ==
  /\ Spec
  /\ \A t \in Txn : WF_vars(TxnStep(t))
  /\ \A k \in Task : WF_vars(Reload(k)) /\ SF_vars(Store(k))

-----------------------------------------------------------------------------
\* What a thread holds, or counts on being able to hold, is not destroyed:
\* neither what Plugin_Config and the reload tasks hold, nor what a Context
\* runs on, nor the pointer that is being copied under the lock.
HandlesAlive ==
  /\ slot \notin freed
  /\ \A k \in Task : cfg[k] \notin freed
  /\ \A t \in running : handle[t] \notin freed

\* A transaction never runs on a configuration that did not load completely,
\* not on the one TxnBoxInit leaves in Plugin_Config when it fails either.
OnlyLoaded == \A t \in running : handle[t] # NoVersion => handle[t] \in loaded

\* The threads together behave as if configurations were published one after
\* the other: a reload that began earlier never replaces one that began later,
\* a failed one changes nothing, a transaction keeps what it began with.
P == INSTANCE Published WITH inForce <- slot, ruledBy <- handle

KeepsPublished == P!PublishedSpec

\* A reload ends: the mark that makes later ones fail does not stay, unless the
\* transactions that copy the pointer take turns in keeping the mutex shared.
ReloadsStayPossible == []<>(readers = {}) => (reloading ~> ~reloading)

\* A configuration that is replaced is destroyed once the transactions that
\* run on it are over.
ConfigFreed ==
  \A v \in Version :
    v <= loads /\ slot # v /\ (\A k \in Task : cfg[k] # v) ~> v \in freed \cup {slot}
=============================================================================
