----------------------------- MODULE TextBlock -----------------------------
(***************************************************************************)
(* A text block with a file: it is loaded with the configuration, checked  *)
(* and replaced by a periodic task (TaskHandle), and read by transactions, *)
(* which keep what they read until they end.  Source: text_block.cc.       *)
(*                                                                         *)
(* The file is changed by somebody else at any time.  Each change gives it *)
(* a new version, and the update time (the later of modify and change      *)
(* time) of that version: the number stands for both.  A file can also be  *)
(* away for a while and come back as it was (its directory is renamed, its *)
(* file system mounted), which leaves its times alone.                     *)
(***************************************************************************)
EXTENDS Naturals

CONSTANTS
  Txn,        \* transactions that read the block
  HasText,    \* the directive has a "text" key
  MaxWrites   \* bound: how often the file is changed

ASSUME BlockAssumption == HasText \in BOOLEAN /\ MaxWrites \in Nat \ {0}

VARIABLES
  refs, taskRef, started, event, lock, tried, data, frees, active, pc, cpc, canceller, stopped

\* The shared pointers to the configuration: Plugin_Config (or the loader) and
\* the Contexts.
Ref == {"slot"} \cup Txn

T == INSTANCE TaskHandle

VARIABLES
  disk,      \* the version of the file
  access,    \* whether it can be read, only its status, or neither
  lpc,       \* where Do_text_block_define::load is
  content,   \* _content
  lastMod,   \* _last_modified
  checked,   \* an Updater has set the two (for the properties)
  upc,       \* where the Updater is
  mtime,     \* the time it got
  fresh,     \* the content it loaded
  nStrings,  \* how many strings were made
  dead,      \* those that were destroyed
  views,     \* the strings a transaction got a view of
  kept       \* those its Context holds

taskVars   == <<refs, taskRef, started, event, lock, tried, data, frees, active, pc,
                cpc, canceller, stopped>>
fileVars   == <<disk, access>>
updVars    == <<upc, mtime, fresh>>
stringVars == <<nStrings, dead>>
readVars   == <<views, kept>>
blockVars  == <<lpc, content, lastMod, checked, updVars, stringVars, readVars>>
vars       == <<taskVars, fileVars, blockVars>>

\* A string: which one it is, and the version of the file it was loaded from.
String   == [id : Nat, ver : 0..MaxWrites]
NoString == [id |-> 0, ver |-> 0]

TypeOK ==
  /\ T!TypeOK
  /\ disk \in 1..MaxWrites
  /\ access \in {"full", "status", "none"}
  /\ lpc \in {"content", "status", "loaded", "failed"}
  /\ content \in String /\ fresh \in String
  /\ \A s \in {content, fresh} : (s.id = 0) <=> (s.ver = 0)
  /\ lastMod \in 0..MaxWrites /\ mtime \in 0..MaxWrites
  /\ checked \in BOOLEAN
  /\ upc \in {"status", "load", "swap", "clear", "return"}
  /\ nStrings \in Nat
  /\ dead \subseteq 1..nStrings
  /\ views \in [Txn -> SUBSET (1..nStrings)]
  /\ kept \in [Txn -> SUBSET (1..nStrings)]

Init ==
  /\ T!Init /\ refs = {"slot"}
  /\ disk = 1 /\ access \in {"full", "status", "none"}
  /\ lpc = "content" /\ content = NoString /\ lastMod = 0 /\ checked = FALSE
  /\ upc = "status" /\ mtime = 0 /\ fresh = NoString
  /\ nStrings = 0 /\ dead = {}
  /\ views = [t \in Txn |-> {}] /\ kept = [t \in Txn |-> {}]

\* The shared pointers to strings.
Held(id) ==
  \/ content.id = id
  \/ fresh.id = id
  \/ \E t \in Txn : id \in kept[t]

ReleaseStrings == dead' = dead \cup {id \in 1..nStrings : Held(id) /\ ~Held(id)'}

-----------------------------------------------------------------------------
\* Somebody changes the file, or makes it unreadable; a change of mode counts
\* as a change.
Write(mode) ==
  /\ disk < MaxWrites
  /\ disk' = disk + 1 /\ access' = mode
  /\ UNCHANGED <<taskVars, blockVars>>

\* The file disappears, and comes back as it was.
Vanish ==
  /\ access # "none"
  /\ access' = "none"
  /\ UNCHANGED <<taskVars, disk, blockVars>>

Return ==
  /\ access = "none"
  /\ access' = "full"
  /\ UNCHANGED <<taskVars, disk, blockVars>>

-----------------------------------------------------------------------------
NewString == [id |-> nStrings + 1, ver |-> disk]

\* Do_text_block_define::load: the content is read first; if that fails and
\* there is no text the configuration is in error ...
LoadContent ==
  /\ lpc = "content"
  /\ IF access = "full"
       THEN content' = NewString /\ nStrings' = nStrings + 1 /\ lpc' = "status"
       ELSE /\ lpc' = IF HasText THEN "status" ELSE "failed"
            /\ UNCHANGED <<content, nStrings>>
  /\ UNCHANGED <<taskVars, fileVars, lastMod, checked, updVars, dead, readVars>>

\* ... and then the status, which has the zero time if it cannot be had.
LoadStatus ==
  /\ lpc = "status"
  /\ lastMod' = IF access = "none" THEN 0 ELSE disk
  /\ lpc' = "loaded"
  /\ UNCHANGED <<taskVars, fileVars, content, checked, updVars, stringVars, readVars>>

\* The configuration is loaded: the post-load hook starts the task, if there is
\* a duration, and transactions begin.
Invoke ==
  /\ lpc = "loaded"
  /\ T!Invoke
  /\ UNCHANGED <<fileVars, blockVars>>

Begin(t) ==
  /\ lpc = "loaded"
  /\ T!Copy(t)
  /\ UNCHANGED <<fileVars, blockVars>>

\* Mutant: the content is not put in context storage.
Extract_NotKept(t) ==
  /\ t \in refs /\ content # NoString
  /\ views' = [views EXCEPT ![t] = @ \cup {content.id}]
  /\ UNCHANGED <<taskVars, fileVars, lpc, content, lastMod, checked, updVars, stringVars, kept>>

\* Ex_text_block::extract_block with content: the shared pointer is copied under
\* the shared lock, and kept in the Context until the transaction ends.
Extract(t) ==
  /\ t \in refs /\ content # NoString
  /\ views' = [views EXCEPT ![t] = @ \cup {content.id}]
  /\ kept' = [kept EXCEPT ![t] = @ \cup {content.id}]
  /\ UNCHANGED <<taskVars, fileVars, lpc, content, lastMod, checked, updVars, stringVars>>

\* The members of the directive are destroyed when cancel has returned.
Members == content' = IF cpc' = "done" THEN NoString ELSE content

\* TXN_CLOSE, on an ET_NET thread: the views are gone with the transaction, the finalizers of the
\* Context drop the strings, and the configuration is let go.
End(t) ==
  /\ lpc = "loaded"
  /\ T!Drop(t, "other")
  /\ Members
  /\ views' = [views EXCEPT ![t] = {}]
  /\ kept' = [kept EXCEPT ![t] = {}]
  /\ UNCHANGED <<fileVars, lpc, lastMod, checked, updVars, nStrings>>
  /\ ReleaseStrings

\* A reload, which is a task too and may be on any of their threads, replaces the
\* configuration, the shut down drops it, or it failed.
Replace(thread) ==
  /\ lpc \in {"loaded", "failed"}
  /\ T!Drop("slot", thread)
  /\ Members
  /\ UNCHANGED <<fileVars, lpc, lastMod, checked, updVars, nStrings, readVars>>
  /\ ReleaseStrings

StopThreads == T!StopThreads /\ UNCHANGED <<fileVars, blockVars>>

-----------------------------------------------------------------------------
\* The task, except for what the Updater does in state "work".
TaskStep ==
  /\ \/ T!Dispatch \/ T!DropEvent
     \/ T!TestActive \/ T!LockConfig \/ T!ReleaseConfig \/ T!FunctorReturns
     \/ T!Check \/ T!Cleanup
  /\ UNCHANGED <<fileVars, blockVars>>

\* The destructor: cancel, then the members.
CancelStep ==
  /\ T!Cancel
  /\ Members
  /\ UNCHANGED <<fileVars, lpc, lastMod, checked, updVars, nStrings, readVars>>
  /\ ReleaseStrings

\* Mutants: a block without content is not looked at; a file without status is
\* left for later.
Status_IfContent ==
  /\ pc = "work" /\ upc = "status"
  /\ mtime' = disk
  /\ upc' = IF access = "none" THEN "clear"
            ELSE IF content = NoString \/ disk <= lastMod THEN "return" ELSE "load"
  /\ UNCHANGED <<taskVars, fileVars, lpc, content, lastMod, checked, fresh, stringVars, readVars>>

Status_KeepsContent ==
  /\ pc = "work" /\ upc = "status"
  /\ mtime' = disk
  /\ upc' = IF access = "none" \/ disk <= lastMod THEN "return" ELSE "load"
  /\ UNCHANGED <<taskVars, fileVars, lpc, content, lastMod, checked, fresh, stringVars, readVars>>

\* Updater::operator(): the status of the file.
Status ==
  /\ pc = "work" /\ upc = "status"
  /\ IF access = "none"
       THEN upc' = "clear" /\ UNCHANGED mtime
       ELSE mtime' = disk /\ upc' = IF disk <= lastMod THEN "return" ELSE "load"
  /\ UNCHANGED <<taskVars, fileVars, lpc, content, lastMod, checked, fresh, stringVars, readVars>>

\* Its content, which may be of a later version by now, or gone.
Load ==
  /\ pc = "work" /\ upc = "load"
  /\ IF access = "full"
       THEN fresh' = NewString /\ nStrings' = nStrings + 1 /\ upc' = "swap"
       ELSE upc' = "clear" /\ UNCHANGED <<fresh, nStrings>>
  /\ UNCHANGED <<taskVars, fileVars, lpc, content, lastMod, checked, mtime, dead, readVars>>

\* Mutant: the time is the one the file has when the content is swapped in.
Swap_TimeOfSwap ==
  /\ pc = "work" /\ upc = "swap"
  /\ content' = fresh /\ lastMod' = disk /\ checked' = TRUE
  /\ fresh' = NoString
  /\ upc' = "return"
  /\ UNCHANGED <<taskVars, fileVars, lpc, mtime, nStrings, readVars>>
  /\ ReleaseStrings

\* Both are swapped in under the exclusive lock.
Swap ==
  /\ pc = "work" /\ upc = "swap"
  /\ content' = fresh /\ lastMod' = mtime /\ checked' = TRUE
  /\ fresh' = NoString
  /\ upc' = "return"
  /\ UNCHANGED <<taskVars, fileVars, lpc, mtime, nStrings, readVars>>
  /\ ReleaseStrings

\* The file cannot be read: the content is cleared, the time is kept.
Clear ==
  /\ pc = "work" /\ upc = "clear"
  /\ content' = NoString
  /\ upc' = "return"
  /\ UNCHANGED <<taskVars, fileVars, lpc, lastMod, checked, mtime, fresh, nStrings, readVars>>
  /\ ReleaseStrings

UpdateDone ==
  /\ upc = "return"
  /\ T!WorkDone
  /\ upc' = "status"
  /\ UNCHANGED <<fileVars, lpc, content, lastMod, checked, mtime, fresh, stringVars, readVars>>

Files == Vanish \/ Return \/ \E mode \in {"full", "status"} : Write(mode)

Owners ==
  \/ LoadContent \/ LoadStatus \/ Invoke \/ StopThreads
  \/ \E thread \in {"pool", "other"} : Replace(thread)
  \/ \E t \in Txn : Begin(t) \/ Extract(t) \/ End(t)

Work == Status \/ Load \/ Swap \/ Clear \/ UpdateDone

Next == Files \/ Owners \/ TaskStep \/ CancelStep \/ Work

Spec == Init /\ [][Next]_vars

\* The task is dispatched every period, and runs to its end; so does a thread
\* that cancels.  Nobody has to change the file or to begin a transaction.
FairSpec == Spec /\ WF_vars(TaskStep) /\ WF_vars(Work) /\ WF_vars(CancelStep)

-----------------------------------------------------------------------------
\* Neither the lambda of the task nor the Updater in it outlives the data it runs on, cancel
\* finds it and it is deleted once, whichever of the loader, Plugin_Config, the transactions
\* and the Updater lets go of the configuration last - unless cancel is refused the mutex.
DataAlive == T!DataAlive

\* While the Updater works, the directive and its configuration exist, whoever lets go
\* of the configuration in the meantime.
BlockAlive == T!BlockAlive

\* A task that was cancelled ends, also if its lambda had looked at _active already, and
\* its data is deleted, except by a transaction that got the mutex and keeps it.
CancelTakesEffect == T!CancelTakesEffect

\* A view that was extracted is good until the transaction ends, however often
\* the content is replaced or cleared, and although the lock is not held.
ViewsAlive == \A t \in Txn : views[t] \cap dead = {}

\* Once the task has updated the block, the time it compares with is never
\* later than the version of the content: it takes the status first, so a write
\* that comes between the status and the read is found by the next check.
NoLostUpdate == checked /\ content # NoString => lastMod <= content.ver

Checking == started /\ cpc = "no" /\ ~stopped

\* A version that is newer than the time of the block is loaded by some check,
\* if it can be read until then.
UpdateFound ==
  \A v \in 1..MaxWrites :
    Checking /\ access = "full" /\ disk = v /\ lastMod < v
      ~> lastMod >= v \/ access # "full" \/ ~Checking

\* DirectiveReference: "If update checking is enabled and the file disappears,
\* the text will be used."
TextUsed ==
  Checking /\ access = "none"
    ~> content = NoString \/ access # "none" \/ ~Checking
=============================================================================
