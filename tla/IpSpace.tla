------------------------------ MODULE IpSpace ------------------------------
(***************************************************************************)
(* An IP space: a file of rows that is parsed when the configuration is    *)
(* loaded and again, by a periodic task, when it changes; transactions     *)
(* look rows up and extract their columns meanwhile.  Source: ip_space.cc. *)
(*                                                                         *)
(* That the directive exists while the task works is the subject of        *)
(* TaskHandle; here it exists.  What is shared and hard: the tags of an    *)
(* "enum" column belong to the directive, not to the space.  The task adds *)
(* to them while it parses, rows of spaces that were parsed before, or did *)
(* not parse to the end, have indices into them, and readers take no lock  *)
(* to look an index up.  The columns of the model are an enum, an integer  *)
(* and a flags column, in this order.                                      *)
(***************************************************************************)
EXTENDS Naturals, Sequences

CONSTANTS
  Txn,        \* transactions
  Addr,       \* addresses
  Tag,        \* values of the enum column
  Keys,       \* the declared tags, none if any tag is valid
  Number,     \* values of the integer column
  Junk,       \* an integer column with text that is not a number
  File,       \* the versions of the file, each a sequence of lines
  MaxDepth    \* bound: modifiers nested in the expressions of modifiers

\* A line without any characters, one that is blank or a comment, or one with a
\* range (no addresses: not a valid one) and the columns; an integer that is
\* missing is 0.
Line ==
  [kind : {"empty", "comment", "row"}, range : SUBSET Addr, tag : Tag,
   num : Number \cup {Junk}, flagsOk : BOOLEAN]

ASSUME FileAssumption ==
  /\ File \in Seq(Seq(Line)) /\ Len(File) > 0
  /\ Keys \in Seq(Tag)
  /\ Junk \notin Number
  /\ MaxDepth \in Nat

VARIABLES
  disk,      \* the version of the file, which stands for its update time too
  access,    \* whether it can be read, only its status, or neither
  tags,      \* the tags of the enum column
  defining,  \* the task is in Lexicon::define
  spaces,    \* the spaces that were made, in order
  space,     \* _space: which one is current, 0 before the load is done
  lastMod,   \* _last_modified
  pc,        \* the thread that loads, later the task
  early,     \* the last dispatch came before the duration was over
  mtime,     \* the update time the task got
  line,      \* the line parse_space is at
  store,     \* per transaction, the active row in context storage
  saved,     \* what the "let" of each modifier that is running will restore
  got,       \* the columns extracted last
  scope,     \* the lookups of the modifiers that are running (for the properties)
  checked    \* the task has parsed a version (for the properties)

fileVars == <<disk, access>>
dataVars == <<tags, defining, spaces>>
defVars  == <<space, lastMod>>
taskVars == <<pc, early, mtime, line, checked>>
readVars == <<store, saved, got, scope>>
vars     == <<fileVars, dataVars, defVars, taskVars, readVars>>

Version == 1..Len(File)
NoRow   == [line |-> 0]

\* A row: the line it is from, its tag as an index, its integer.
Row == [line : Nat \ {0}, tag : Nat, num : Number]

\* CtxActiveInfo: the space and the address (with them the row), or nothing.
Inactive == [space |-> 0, addr |-> {}]
Active   == [space : Nat \ {0}, addr : Addr]

\* What ip-col gave, and where: nothing yet, NIL, or the columns.
NoValue == [at |-> Inactive]
Value   == {NoValue} \cup [at : Active, nil : {TRUE}]
           \cup [at : Active, nil : {FALSE}, tag : Tag, raced : BOOLEAN, num : Number]

Loading == {"loadContent", "loadStatus", "loadParse", "failed"}
Parsing == {"loadParse", "parse"}

TypeOK ==
  /\ disk \in Version /\ access \in {"full", "status", "none"}
  /\ tags \in Seq(Tag) /\ defining \in BOOLEAN
  /\ spaces \in Seq([ver : Version, rows : [Addr -> Row \cup {NoRow}]])
  /\ space \in 0..Len(spaces)
  /\ lastMod \in 0..Len(File) /\ mtime \in 0..Len(File)
  /\ pc \in Loading \cup {"idle", "status", "load", "parse", "publish", "keep"}
  /\ early \in BOOLEAN /\ checked \in BOOLEAN
  /\ line \in Nat
  /\ store \in [Txn -> Active \cup {Inactive}]
  /\ saved \in [Txn -> Seq(Active \cup {Inactive})]
  /\ scope \in [Txn -> Seq(Active)]
  /\ got \in [Txn -> Value]

Init ==
  /\ disk = 1 /\ access \in {"full", "status", "none"}
  /\ tags = Keys /\ defining = FALSE
  /\ spaces = <<>> /\ space = 0 /\ lastMod = 0
  /\ pc = "loadContent" /\ early = FALSE /\ mtime = 0 /\ line = 1
  /\ checked = FALSE
  /\ store = [t \in Txn |-> Inactive] /\ saved = [t \in Txn |-> <<>>]
  /\ got = [t \in Txn |-> NoValue] /\ scope = [t \in Txn |-> <<>>]

-----------------------------------------------------------------------------
\* Somebody changes the file, makes it unreadable, takes it away or puts it back.
Write(mode) ==
  /\ disk < Len(File)
  /\ disk' = disk + 1 /\ access' = mode
  /\ UNCHANGED <<dataVars, defVars, taskVars, readVars>>

Vanish ==
  /\ access # "none"
  /\ access' = "none"
  /\ UNCHANGED <<disk, dataVars, defVars, taskVars, readVars>>

Return ==
  /\ access = "none"
  /\ access' = "full"
  /\ UNCHANGED <<disk, dataVars, defVars, taskVars, readVars>>

-----------------------------------------------------------------------------
\* parse_space begins with a new SpaceInfo, without rows.
NewSpace == [ver |-> disk, rows |-> [a \in Addr |-> NoRow]]

\* Do_ip_space_define::load reads the content first ...
LoadContent ==
  /\ pc = "loadContent"
  /\ IF access = "full"
       THEN pc' = "loadStatus" /\ spaces' = Append(spaces, NewSpace)
       ELSE pc' = "failed" /\ UNCHANGED spaces
  /\ line' = 1
  /\ UNCHANGED <<fileVars, tags, defining, defVars, early, mtime, checked, readVars>>

\* ... then the time, which is zero if the file is gone; its error is not read.
LoadStatus ==
  /\ pc = "loadStatus"
  /\ lastMod' = IF access = "none" THEN 0 ELSE disk
  /\ pc' = "loadParse"
  /\ UNCHANGED <<fileVars, dataVars, space, early, mtime, line, checked, readVars>>

\* The space that is being parsed, the rest of the content.
Building == spaces[Len(spaces)]
Lines    == File[Building.ver]
AtEnd    == line <= Len(Lines) => Lines[line].kind = "empty"
AtRow    == ~AtEnd /\ Lines[line].kind = "row"

\* The index of a tag, 0 if it is not defined.
TagIndex(t) == IF \E i \in 1..Len(tags) : tags[i] = t
                 THEN CHOOSE i \in 1..Len(tags) : tags[i] = t
                 ELSE 0

AutoTags == Keys = <<>>

\* A line without characters ends the loop.  The load is then done; the task
\* goes on to publish the space.
ParseEnd ==
  /\ pc \in Parsing /\ AtEnd
  /\ IF pc = "loadParse" THEN pc' = "idle" /\ space' = Len(spaces)
                         ELSE pc' = "publish" /\ UNCHANGED space
  /\ UNCHANGED <<fileVars, dataVars, lastMod, early, mtime, line, checked, readVars>>

SkipLine ==
  /\ pc \in Parsing /\ ~AtEnd /\ Lines[line].kind = "comment"
  /\ line' = line + 1
  /\ UNCHANGED <<fileVars, dataVars, defVars, pc, early, mtime, checked, readVars>>

\* A new tag of a column without declared ones: Lexicon::define links it into
\* the tables that readers walk, which takes a while.
BeginDefine ==
  /\ pc \in Parsing /\ AtRow /\ ~defining
  /\ Lines[line].range # {} /\ AutoTags /\ TagIndex(Lines[line].tag) = 0
  /\ defining' = TRUE
  /\ UNCHANGED <<fileVars, tags, spaces, defVars, taskVars, readVars>>

EndDefine ==
  /\ defining
  /\ tags' = Append(tags, Lines[line].tag)
  /\ defining' = FALSE
  /\ UNCHANGED <<fileVars, spaces, defVars, taskVars, readVars>>

\* IPSpace::fill: addresses that have a row keep it.
Fill(range, row) ==
  [a \in Addr |-> IF a \in range /\ Building.rows[a] = NoRow THEN row ELSE Building.rows[a]]

\* A row.  Its integer stays as the arena left it if the text is not a number.
ParseRow ==
  /\ pc \in Parsing /\ AtRow
  /\ LET l == Lines[line]
     IN /\ l.range # {} /\ TagIndex(l.tag) # 0 /\ l.flagsOk
        /\ \E n \in IF l.num = Junk THEN Number ELSE {l.num} :
             LET row == [line |-> line, tag |-> TagIndex(l.tag), num |-> n]
             IN spaces' = [spaces EXCEPT ![Len(spaces)] =
                             [ver |-> Building.ver, rows |-> Fill(l.range, row)]]
  /\ line' = line + 1
  /\ UNCHANGED <<fileVars, tags, defining, defVars, pc, early, mtime, checked, readVars>>

\* The parse returns an error, and the space is dropped: a range that is not
\* valid, a tag or a flag that is not declared.
BadRow ==
  LET l == Lines[line]
  IN \/ l.range = {}
     \/ TagIndex(l.tag) = 0 /\ ~AutoTags
     \/ TagIndex(l.tag) # 0 /\ ~l.flagsOk

\* Mutant: the error of the parse is not looked at.
ParseFails_Published ==
  /\ pc \in Parsing /\ AtRow /\ BadRow
  /\ pc' = IF pc = "loadParse" THEN "failed" ELSE "publish"
  /\ UNCHANGED <<fileVars, dataVars, defVars, early, mtime, line, checked, readVars>>

ParseFails ==
  /\ pc \in Parsing /\ AtRow /\ BadRow
  /\ pc' = IF pc = "loadParse" THEN "failed" ELSE "keep"
  /\ UNCHANGED <<fileVars, dataVars, defVars, early, mtime, line, checked, readVars>>

-----------------------------------------------------------------------------
\* The task is dispatched.  The period is the duration, but neither is exact:
\* should_check may find that it is not over, though not twice in a row, because
\* _last_check stays what it was.
TooEarly ==
  /\ pc = "idle" /\ ~early
  /\ early' = TRUE
  /\ UNCHANGED <<fileVars, dataVars, defVars, pc, mtime, line, checked, readVars>>

Due ==
  /\ pc = "idle"
  /\ early' = FALSE
  /\ pc' = "status"
  /\ UNCHANGED <<fileVars, dataVars, defVars, mtime, line, checked, readVars>>

\* Mutant: the time is kept as soon as it is known.
Status_SetsTime ==
  /\ pc = "status"
  /\ IF access = "none" \/ disk <= lastMod
       THEN pc' = "idle" /\ UNCHANGED <<mtime, lastMod>>
       ELSE pc' = "load" /\ mtime' = disk /\ lastMod' = disk
  /\ UNCHANGED <<fileVars, dataVars, space, early, line, checked, readVars>>

\* Updater: the status of the file; nothing is done if it cannot be had.
Status ==
  /\ pc = "status"
  /\ IF access = "none" \/ disk <= lastMod
       THEN pc' = "idle" /\ UNCHANGED mtime
       ELSE pc' = "load" /\ mtime' = disk
  /\ UNCHANGED <<fileVars, dataVars, defVars, early, line, checked, readVars>>

\* Mutant: each space has tags of its own, but they are kept in one table.
Load_ResetsTags ==
  /\ pc = "load"
  /\ IF access = "full"
       THEN pc' = "parse" /\ spaces' = Append(spaces, NewSpace) /\ tags' = Keys
       ELSE pc' = "idle" /\ UNCHANGED <<spaces, tags>>
  /\ line' = 1
  /\ UNCHANGED <<fileVars, defining, defVars, early, mtime, checked, readVars>>

\* Its content, which may be of a later version by now, or gone.
Load ==
  /\ pc = "load"
  /\ IF access = "full"
       THEN pc' = "parse" /\ spaces' = Append(spaces, NewSpace)
       ELSE pc' = "idle" /\ UNCHANGED spaces
  /\ line' = 1
  /\ UNCHANGED <<fileVars, tags, defining, defVars, early, mtime, checked, readVars>>

\* A complete space is swapped in under the exclusive lock ...
Publish ==
  /\ pc = "publish"
  /\ space' = Len(spaces)
  /\ pc' = "keep"
  /\ UNCHANGED <<fileVars, dataVars, lastMod, early, mtime, line, checked, readVars>>

\* Mutant: the time is the one the file has when the parse is done.
KeepTime_TimeOfParse ==
  /\ pc = "keep"
  /\ lastMod' = disk /\ checked' = TRUE
  /\ pc' = "idle"
  /\ UNCHANGED <<fileVars, dataVars, space, early, mtime, line, readVars>>

\* ... and then, or if the parse failed, the time is kept without the lock.
KeepTime ==
  /\ pc = "keep"
  /\ lastMod' = mtime /\ checked' = TRUE
  /\ pc' = "idle"
  /\ UNCHANGED <<fileVars, dataVars, space, early, mtime, line, readVars>>

-----------------------------------------------------------------------------

\* Mod_ip_space::operator(): the current space is copied under the shared lock,
\* and made active until the expression of the modifier is extracted.
Enter(t, a) ==
  /\ pc \notin Loading /\ Len(scope[t]) < MaxDepth
  /\ LET active == [space |-> space, addr |-> a]
     IN /\ store' = [store EXCEPT ![t] = active]
        /\ scope' = [scope EXCEPT ![t] = Append(@, active)]
  /\ saved' = [saved EXCEPT ![t] = Append(@, store[t])]
  /\ UNCHANGED <<fileVars, dataVars, defVars, taskVars, got>>

\* Lexicon::operator[]: what a reader gets while the table is changed is
\* undefined.
NameOf(idx) == IF defining THEN Tag ELSE {tags[idx]}

\* Ex_ip_col::extract: columns of the active row, NIL if there is none.
Extract(t) ==
  /\ scope[t] # <<>>
  /\ LET row == spaces[store[t].space].rows[store[t].addr]
         at  == scope[t][Len(scope[t])]
     IN IF row = NoRow
          THEN got' = [got EXCEPT ![t] = [at |-> at, nil |-> TRUE]]
          ELSE \E name \in NameOf(row.tag) :
                 got' = [got EXCEPT ![t] = [at |-> at, nil |-> FALSE, tag |-> name,
                                            raced |-> defining, num |-> row.num]]
  /\ UNCHANGED <<fileVars, dataVars, defVars, taskVars, store, saved, scope>>

\* Mutant: the active row of the inner modifier stays.
Leave_KeepsInner(t) ==
  /\ scope[t] # <<>>
  /\ store' = [store EXCEPT ![t] = IF Len(scope[t]) = 1 THEN Inactive ELSE @]
  /\ saved' = [saved EXCEPT ![t] = SubSeq(@, 1, Len(@) - 1)]
  /\ scope' = [scope EXCEPT ![t] = SubSeq(@, 1, Len(@) - 1)]
  /\ got' = [got EXCEPT ![t] = NoValue]
  /\ UNCHANGED <<fileVars, dataVars, defVars, taskVars>>

\* The modifier returns, and "let" restores the active row.
Leave(t) ==
  /\ scope[t] # <<>>
  /\ store' = [store EXCEPT ![t] = saved[t][Len(saved[t])]]
  /\ saved' = [saved EXCEPT ![t] = SubSeq(@, 1, Len(@) - 1)]
  /\ scope' = [scope EXCEPT ![t] = SubSeq(@, 1, Len(@) - 1)]
  /\ got' = [got EXCEPT ![t] = NoValue]
  /\ UNCHANGED <<fileVars, dataVars, defVars, taskVars>>

Files == Vanish \/ Return \/ \E mode \in {"full", "status"} : Write(mode)

Parse == ParseEnd \/ SkipLine \/ BeginDefine \/ EndDefine \/ ParseRow \/ ParseFails

Loader == LoadContent \/ LoadStatus

Task == TooEarly \/ Due \/ Status \/ Load \/ Publish \/ KeepTime

Readers == \E t \in Txn : (\E a \in Addr : Enter(t, a)) \/ Extract(t) \/ Leave(t)

Next == Files \/ Loader \/ Parse \/ Task \/ Readers

Spec == Init /\ [][Next]_vars

\* The task is dispatched every period and runs to its end.
FairSpec == Spec /\ WF_vars(Task) /\ WF_vars(Parse)
-----------------------------------------------------------------------------
\* The lines of a version that parse_space gets to, and those that give an
\* address a row.
Reached(v)     == {i \in 1..Len(File[v]) : \A j \in 1..i : File[v][j].kind # "empty"}
RowLines(v, a) == {i \in Reached(v) : File[v][i].kind = "row" /\ a \in File[v][i].range}

Declared(t) == AutoTags \/ \E i \in 1..Len(Keys) : Keys[i] = t

Valid(v) ==
  \A i \in Reached(v) :
    LET l == File[v][i]
    IN l.kind = "row" => l.range # {} /\ Declared(l.tag) /\ l.flagsOk

IsRowOf(v, a, row) ==
  IF RowLines(v, a) = {} THEN row = NoRow
  ELSE row.line \in RowLines(v, a) /\ \A i \in RowLines(v, a) : row.line <= i

\* The space transactions look up is all of one valid version of the file: each
\* address has the row of the first line for it, and a version with an error
\* anywhere is not taken, not even up to the error.
SpaceComplete ==
  space # 0 =>
    LET s == spaces[space]
    IN Valid(s.ver) /\ \A a \in Addr : IsRowOf(s.ver, a, s.rows[a])

\* The index kept in a row names the tag of its line for as long as the row may
\* be used, whatever is parsed later, completely or not.
RowsKeepMeaning ==
  \A i \in 1..Len(spaces) : \A a \in Addr :
    LET row == spaces[i].rows[a]
    IN row # NoRow =>
         row.tag \in 1..Len(tags) /\ tags[row.tag] = File[spaces[i].ver][row.line].tag

\* What ip-col extracts is the column of the row for the address and the space
\* of the innermost modifier that is running, also when another modifier has run
\* in its expression and whatever the task has published since - but for a tag
\* that is read while one is defined and text that is not a number.
ColumnValue ==
  \A t \in Txn : got[t] # NoValue =>
    LET at == got[t].at
        v  == spaces[at.space].ver
        ls == RowLines(v, at.addr)
    IN IF got[t].nil THEN ls = {}
       ELSE \E i \in ls :
              /\ \A j \in ls : i <= j
              /\ got[t].raced \/ got[t].tag = File[v][i].tag
              /\ File[v][i].num = Junk \/ got[t].num = File[v][i].num

\* Between two checks: the time that is kept is not later than the version that
\* was parsed last, so that a write during a check is found by the next, and
\* this version is the current one if it is valid.
NothingMissed ==
  checked /\ pc = "idle" =>
    /\ lastMod <= Building.ver
    /\ Valid(Building.ver) => space = Len(spaces)

\* A valid version is the current one some time after it is written, if the file
\* stays as it is and can be read: a check that comes too early, one that finds
\* the file unreadable and one that fails on an earlier version only delay it.
\* (A version that is written during the load may have its time taken already.)
UpdateFound ==
  \A v \in Version :
    pc \notin Loading /\ (checked \/ lastMod < v) /\ access = "full" /\ disk = v /\ Valid(v)
      ~> access # "full" \/ disk # v \/ (space # 0 /\ spaces[space].ver = v)
=============================================================================
