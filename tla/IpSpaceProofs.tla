---------------------------- MODULE IpSpaceProofs ----------------------------
(***************************************************************************)
(* Proofs about IpSpace, for any file, any columns and any number of       *)
(* transactions and nested modifiers.                                      *)
(***************************************************************************)
EXTENDS IpSpace, SequenceTheorems, TLAPS

\* A SpaceInfo.
Space == [ver : Version, rows : [Addr -> Row \cup {NoRow}]]

\* Line j of version v gives an address a row.
Gives(v, j, a) == File[v][j].kind = "row" /\ a \in File[v][j].range

\* The row an address has when the lines before n are parsed.
FilledTo(v, n, a, row) ==
  IF row = NoRow THEN \A j \in 1..(n - 1) : ~Gives(v, j, a)
  ELSE /\ row.line \in 1..(n - 1) /\ Gives(v, row.line, a)
       /\ \A j \in 1..(n - 1) : Gives(v, j, a) => row.line <= j

\* The lines before n are good, and not the end.
GoodTo(v, n) ==
  \A j \in 1..(n - 1) :
    LET l == File[v][j]
    IN /\ l.kind # "empty"
       /\ l.kind = "row" => l.range # {} /\ Declared(l.tag) /\ l.flagsOk

\* A space that may be looked up.
Complete(s) == Valid(s.ver) /\ \A a \in Addr : IsRowOf(s.ver, a, s.rows[a])

\* The integer of a row is the one of its line.
NumbersInv ==
  \A i \in 1..Len(spaces) : \A a \in Addr :
    LET row == spaces[i].rows[a]
        num == File[spaces[i].ver][row.line].num
    IN row # NoRow => num = Junk \/ row.num = num

TagsInv == ~AutoTags => tags = Keys

PlaceInv ==
  /\ pc \notin {"loadContent", "failed"} => Len(spaces) > 0
  /\ pc \in Loading <=> space = 0
  /\ pc \in Parsing \cup {"publish"} => space < Len(spaces)

\* What has been parsed so far, and what is about to be published.
ParseInv ==
  /\ pc = "loadStatus" => line = 1
  /\ pc \in Parsing \cup {"loadStatus"} =>
       /\ line \in 1..(Len(Lines) + 1) /\ GoodTo(Building.ver, line)
       /\ \A a \in Addr : FilledTo(Building.ver, line, a, Building.rows[a])
  /\ defining => /\ pc \in Parsing /\ AtRow /\ AutoTags
                  /\ Lines[line].range # {} /\ TagIndex(Lines[line].tag) = 0
  /\ pc = "publish" => Complete(Building)

\* The times and versions of a check.
TimeInv ==
  /\ pc = "load" => mtime <= disk
  /\ pc \in {"parse", "publish", "keep"} => mtime <= Building.ver
  /\ pc = "keep" /\ Valid(Building.ver) => space = Len(spaces)
  /\ checked => pc \notin Loading
  /\ checked /\ pc \in {"idle", "status", "load"} =>
       lastMod <= Building.ver /\ (Valid(Building.ver) => space = Len(spaces))

\* The modifiers that are running, as store st, saved values sv and lookups sc:
\* the innermost lookup is active, each will restore the one around it.
Nested(st, sv, sc) ==
  /\ Len(sv) = Len(sc)
  /\ st = IF Len(sc) = 0 THEN Inactive ELSE sc[Len(sc)]
  /\ \A k \in 1..Len(sc) : sv[k] = IF k = 1 THEN Inactive ELSE sc[k - 1]

\* What is looked up is complete.
Published(at) == at.space \in 1..space /\ Complete(spaces[at.space])

ScopeInv ==
  \A t \in Txn :
    /\ Nested(store[t], saved[t], scope[t])
    /\ \A k \in 1..Len(scope[t]) : Published(scope[t][k])

GotInv ==
  /\ ColumnValue
  /\ \A t \in Txn : got[t] # NoValue => got[t].at.space \in 1..space

IInv ==
  /\ TypeOK /\ RowsKeepMeaning /\ NumbersInv /\ TagsInv /\ PlaceInv /\ ParseInv
  /\ SpaceComplete /\ TimeInv /\ ScopeInv /\ GotInv

-----------------------------------------------------------------------------
LEMMA FileLines ==
  /\ Len(File) \in Nat
  /\ \A v \in Version : /\ File[v] \in Seq(Line) /\ Len(File[v]) \in Nat
                        /\ \A j \in 1..Len(File[v]) : File[v][j] \in Line
  BY FileAssumption DEF Version

LEMMA BuildingType ==
  ASSUME TypeOK, PlaceInv, pc \notin {"loadContent", "failed"}
  PROVE  /\ Building \in Space
         /\ Building.ver \in Version /\ Building.rows \in [Addr -> Row \cup {NoRow}]
<1>1. Len(spaces) \in 1..Len(spaces)
  BY DEF TypeOK, PlaceInv
<1>2. spaces \in Seq(Space)
  BY DEF TypeOK, Space
<1>3. Building \in Space
  BY <1>1, <1>2, ElementOfSeq DEF Building
<1> QED
  BY <1>3 DEF Space

\* When there is no line left, or an empty one is next, all that counts has been
\* parsed.
LEMMA ParsedAll ==
  ASSUME TypeOK, PlaceInv, ParseInv, pc \in Parsing, AtEnd
  PROVE  Complete(Building)
<1> DEFINE v == Building.ver
<1>1. v \in Version /\ Building.rows \in [Addr -> Row \cup {NoRow}]
  BY BuildingType DEF Parsing
<1>2. /\ line \in 1..(Len(File[v]) + 1) /\ GoodTo(v, line)
      /\ \A a \in Addr : FilledTo(v, line, a, Building.rows[a])
  BY DEF ParseInv, Lines
<1>3. Reached(v) = 1..(line - 1)
  <2>1. ASSUME NEW i \in 1..(line - 1) PROVE i \in Reached(v)
    BY <1>1, <1>2, <2>1, FileLines DEF Reached, GoodTo
  <2>2. ASSUME NEW i \in Reached(v) PROVE i \in 1..(line - 1)
    BY <1>1, <1>2, <2>2, FileLines DEF Reached, AtEnd, Lines
  <2> QED
    BY <2>1, <2>2
<1>4. Valid(v)
  BY <1>2, <1>3 DEF Valid, GoodTo
<1>5. ASSUME NEW a \in Addr PROVE IsRowOf(v, a, Building.rows[a])
  <2>1. RowLines(v, a) = {j \in 1..(line - 1) : Gives(v, j, a)}
    BY <1>3 DEF RowLines, Gives
  <2>2. FilledTo(v, line, a, Building.rows[a])
    BY <1>2
  <2> QED
    BY <2>1, <2>2 DEF IsRowOf, FilledTo
<1> QED
  BY <1>4, <1>5 DEF Complete

-----------------------------------------------------------------------------
\* Spaces are only added to, and those that were published do not change.
Kept ==
  /\ Len(spaces) <= Len(spaces') /\ space <= space'
  /\ \A i \in 1..Len(spaces) : spaces'[i].ver = spaces[i].ver
  /\ \A i \in 1..space : spaces'[i] = spaces[i]

LEMMA NewSpaceType ==
  ASSUME TypeOK
  PROVE  NewSpace \in Space
  BY DEF TypeOK, NewSpace, Space

LEMMA Keeps == IInv /\ [Next]_vars => Kept
<1> SUFFICES ASSUME IInv, [Next]_vars PROVE Kept
  OBVIOUS
<1>0. /\ spaces \in Seq(Space)
      /\ Len(spaces) \in Nat /\ space \in 0..Len(spaces)
  BY DEF IInv, TypeOK, Space
<1>1. CASE UNCHANGED <<spaces, space>>
  BY <1>0, <1>1 DEF Kept
<1>2. CASE spaces' = Append(spaces, NewSpace) /\ UNCHANGED space
  BY <1>0, <1>2, NewSpaceType DEF Kept, IInv
<1>3. CASE ParseRow
  <2>1. Len(spaces) > 0 /\ space < Len(spaces)
    BY <1>3 DEF IInv, PlaceInv, ParseRow, Parsing
  <2> PICK row : spaces' = [spaces EXCEPT ![Len(spaces)] =
                              [ver |-> Building.ver, rows |-> Fill(Lines[line].range, row)]]
    BY <1>3 DEF ParseRow
  <2> QED
    BY <1>0, <1>3, <2>1 DEF Kept, ParseRow, Building, defVars
<1>4. CASE ParseEnd
  BY <1>0, <1>4 DEF Kept, ParseEnd, dataVars
<1>5. CASE Publish
  BY <1>0, <1>5 DEF Kept, Publish, dataVars
<1>6. CASE Files
  BY <1>1, <1>6 DEF Files, Vanish, Return, Write, dataVars, defVars
<1>7. CASE LoadContent \/ Load
  BY <1>1, <1>2, <1>7 DEF LoadContent, Load, defVars
<1>8. CASE LoadStatus \/ SkipLine \/ BeginDefine \/ EndDefine \/ ParseFails
  BY <1>1, <1>8 DEF LoadStatus, SkipLine, BeginDefine, EndDefine, ParseFails, dataVars, defVars
<1>9. CASE TooEarly \/ Due \/ Status \/ KeepTime
  BY <1>1, <1>9 DEF TooEarly, Due, Status, KeepTime, dataVars, defVars
<1>10. CASE Readers
  BY <1>1, <1>10 DEF Readers, Enter, Extract, Leave, dataVars, defVars
<1>11. CASE UNCHANGED vars
  BY <1>1, <1>11 DEF vars, dataVars, defVars
<1> QED
  BY <1>3, <1>4, <1>5, <1>6, <1>7, <1>8, <1>9, <1>10, <1>11 DEF Next, Loader, Parse, Task

-----------------------------------------------------------------------------
LEMMA IndexOfTag ==
  ASSUME TypeOK, NEW t
  PROVE  /\ TagIndex(t) \in 0..Len(tags)
         /\ TagIndex(t) # 0 => tags[TagIndex(t)] = t
         /\ TagIndex(t) = 0 => \A i \in 1..Len(tags) : tags[i] # t
<1>1. Len(tags) \in Nat
  BY DEF TypeOK
<1>2. CASE \E i \in 1..Len(tags) : tags[i] = t
  <2>1. TagIndex(t) = CHOOSE i \in 1..Len(tags) : tags[i] = t
    BY <1>2 DEF TagIndex
  <2>2. TagIndex(t) \in 1..Len(tags) /\ tags[TagIndex(t)] = t
    BY <1>2, <2>1
  <2> QED
    BY <1>1, <2>2
<1>3. CASE ~(\E i \in 1..Len(tags) : tags[i] = t)
  BY <1>1, <1>3 DEF TagIndex
<1> QED
  BY <1>2, <1>3

\* The line that is parsed, if there is one.
LEMMA LineType ==
  ASSUME TypeOK, PlaceInv, pc \in Parsing, ~AtEnd, line \in Nat \ {0}
  PROVE  /\ line \in 1..Len(Lines) /\ Lines[line] \in Line
         /\ Lines[line].kind # "empty"
<1>1. Building.ver \in Version
  BY BuildingType DEF Parsing
<1> QED
  BY <1>1, FileLines DEF AtEnd, Lines

\* What a step of parse_space does to the rows.
LEMMA RowStep ==
  ASSUME IInv, ParseRow
  PROVE  /\ Lines[line] \in Line /\ line \in 1..Len(Lines)
         /\ Lines[line].kind = "row" /\ Lines[line].range # {} /\ Lines[line].flagsOk
         /\ Declared(Lines[line].tag)
         /\ spaces' \in Seq(Space) /\ Len(spaces') = Len(spaces) /\ Len(spaces) > 0
         /\ \A i \in 1..(Len(spaces) - 1) : spaces'[i] = spaces[i]
         /\ Building'.ver = Building.ver
         /\ \A a \in Addr :
              LET new == Building'.rows[a]
              IN \/ new = Building.rows[a] /\ (a \in Lines[line].range => new # NoRow)
                 \/ /\ Building.rows[a] = NoRow /\ a \in Lines[line].range
                    /\ new \in Row /\ new # NoRow /\ new.line = line
                    /\ new.tag \in 1..Len(tags) /\ tags[new.tag] = Lines[line].tag
                    /\ Lines[line].num = Junk \/ new.num = Lines[line].num
<1> DEFINE l == Lines[line]
<1>1. pc \in Parsing /\ line \in Nat \ {0} /\ ~AtEnd /\ l.kind = "row"
  BY DEF IInv, ParseInv, ParseRow, AtRow
<1>2. l \in Line /\ line \in 1..Len(Lines)
  BY <1>1, LineType DEF IInv
<1>3. TagIndex(l.tag) \in 1..Len(tags) /\ tags[TagIndex(l.tag)] = l.tag
  BY IndexOfTag DEF ParseRow, IInv
<1>4. Declared(l.tag)
  BY <1>3 DEF IInv, TagsInv, Declared
<1>5. PICK n \in IF l.num = Junk THEN Number ELSE {l.num} :
        spaces' = [spaces EXCEPT ![Len(spaces)] =
                     [ver |-> Building.ver,
                      rows |-> Fill(l.range, [line |-> line, tag |-> TagIndex(l.tag), num |-> n])]]
  BY DEF ParseRow
<1> DEFINE row == [line |-> line, tag |-> TagIndex(l.tag), num |-> n]
           new == [ver |-> Building.ver, rows |-> Fill(l.range, row)]
<1>6. n \in Number
  BY <1>2, <1>5 DEF Line
<1>7. row \in Row /\ row # NoRow
  <2>1. TagIndex(l.tag) \in Nat
    BY <1>3 DEF IInv, TypeOK
  <2> QED
    BY <1>1, <1>6, <2>1 DEF Row, NoRow
<1>8. Building \in Space /\ Building.rows \in [Addr -> Row \cup {NoRow}]
  BY <1>1, BuildingType DEF IInv, Parsing
<1>9. new \in Space
  BY <1>7, <1>8 DEF Space, Fill
<1>10. spaces \in Seq(Space) /\ Len(spaces) \in 1..Len(spaces)
  BY <1>1 DEF IInv, TypeOK, PlaceInv, Parsing, Space
<1>11. /\ spaces' \in Seq(Space) /\ Len(spaces') = Len(spaces)
       /\ \A i \in 1..Len(spaces) : spaces'[i] = IF i = Len(spaces) THEN new ELSE spaces[i]
  <2> HIDE DEF new
  <2> QED
    BY <1>5, <1>9, <1>10, ExceptSeq DEF new
<1>12. Building' = new
  BY <1>10, <1>11 DEF Building
<1>13. ASSUME NEW a \in Addr
       PROVE  Building'.rows[a] = IF a \in l.range /\ Building.rows[a] = NoRow
                                    THEN row ELSE Building.rows[a]
  BY <1>12 DEF Fill
<1>14. \A i \in 1..(Len(spaces) - 1) : spaces'[i] = spaces[i]
  BY <1>10, <1>11
<1>15. l.num = Junk \/ row.num = l.num
  BY <1>5
<1>16. l.range # {} /\ l.flagsOk
  BY DEF ParseRow
<1> HIDE DEF row
<1>17. ASSUME NEW a \in Addr
       PROVE  LET r == Building'.rows[a]
              IN \/ r = Building.rows[a] /\ (a \in l.range => r # NoRow)
                 \/ /\ Building.rows[a] = NoRow /\ a \in l.range
                    /\ r \in Row /\ r # NoRow /\ r.line = line
                    /\ r.tag \in 1..Len(tags) /\ tags[r.tag] = l.tag
                    /\ l.num = Junk \/ r.num = l.num
  <2>1. row.line = line /\ row.tag = TagIndex(l.tag)
    BY DEF row
  <2> QED
    BY <1>3, <1>7, <1>13, <1>15, <2>1
<1>18. Building'.ver = Building.ver
  BY <1>12
<1> HIDE DEF l
<1> QED
  BY <1>1, <1>2, <1>4, <1>10, <1>11, <1>14, <1>16, <1>17, <1>18 DEF l

-----------------------------------------------------------------------------
\* A lookup in the space of the innermost modifier.
LEMMA LookedUp ==
  ASSUME IInv, NEW t \in Txn, scope[t] # <<>>
  PROVE  LET at == scope[t][Len(scope[t])]
         IN /\ at \in Active /\ store[t] = at /\ at.space \in 1..space /\ at.addr \in Addr
            /\ spaces[at.space] \in Space /\ Complete(spaces[at.space])
            /\ spaces[at.space].rows[at.addr] \in Row \cup {NoRow}
<1> DEFINE at == scope[t][Len(scope[t])]
<1>1. scope[t] \in Seq(Active) /\ Len(scope[t]) \in 1..Len(scope[t])
  BY DEF IInv, TypeOK
<1>2. at \in Active /\ at.addr \in Addr
  <2>1. at \in Active
    BY <1>1, ElementOfSeq
  <2> HIDE DEF at
  <2> QED
    BY <2>1 DEF Active
<1>3. store[t] = at /\ at.space \in 1..space /\ Complete(spaces[at.space])
  BY <1>1 DEF IInv, ScopeInv, Nested, Published
<1>4. spaces \in Seq(Space) /\ at.space \in 1..Len(spaces)
  BY <1>3 DEF IInv, TypeOK, Space
<1>5. spaces[at.space] \in Space
  BY <1>4, ElementOfSeq
<1>6. spaces[at.space].rows[at.addr] \in Row \cup {NoRow}
  BY <1>2, <1>5 DEF Space
<1> QED
  BY <1>2, <1>3, <1>5, <1>6

LEMMA TypeStep == IInv /\ [Next]_vars => TypeOK'
<1> SUFFICES ASSUME IInv, [Next]_vars PROVE TypeOK'
  OBVIOUS
<1>0. TypeOK /\ spaces \in Seq(Space) /\ Len(spaces) \in Nat
  BY DEF IInv, TypeOK, Space
<1> USE DEF Version, Loading
<1>1. CASE Files
  BY <1>0, <1>1 DEF TypeOK, Files, Vanish, Return, Write, dataVars, defVars, taskVars, readVars
<1>2. CASE LoadContent \/ Load
  <2>1. spaces' \in Seq(Space) /\ Len(spaces) <= Len(spaces')
    BY <1>0, <1>2, NewSpaceType DEF LoadContent, Load
  <2>2. spaces' \in Seq([ver : Version, rows : [Addr -> Row \cup {NoRow}]])
    BY <2>1 DEF Space
  <2>3. UNCHANGED space
    BY <1>2 DEF LoadContent, Load, defVars
  <2>4. space' \in 0..Len(spaces')
    BY <2>1, <2>3, <1>0 DEF TypeOK
  <2>5. CASE LoadContent
    BY <1>0, <2>2, <2>4, <2>5 DEF TypeOK, LoadContent, fileVars, defVars, readVars
  <2>6. CASE Load
    BY <1>0, <2>2, <2>4, <2>6 DEF TypeOK, Load, fileVars, defVars, readVars
  <2> QED
    BY <1>2, <2>5, <2>6
<1>3. CASE LoadStatus \/ SkipLine \/ BeginDefine \/ ParseFails
  <2>1. CASE LoadStatus
    BY <1>0, <2>1 DEF TypeOK, LoadStatus, fileVars, dataVars, readVars
  <2>2. CASE SkipLine
    BY <1>0, <2>2 DEF TypeOK, SkipLine, fileVars, dataVars, defVars, readVars
  <2>3. CASE BeginDefine
    BY <1>0, <2>3 DEF TypeOK, BeginDefine, fileVars, defVars, taskVars, readVars
  <2>4. CASE ParseFails
    BY <1>0, <2>4 DEF TypeOK, ParseFails, fileVars, dataVars, defVars, readVars
  <2> QED
    BY <1>3, <2>1, <2>2, <2>3, <2>4
<1>4. CASE ParseEnd \/ Publish
  BY <1>0, <1>4 DEF TypeOK, ParseEnd, Publish, fileVars, dataVars, readVars
<1>5. CASE EndDefine
  <2>1. pc \in Parsing /\ ~AtEnd /\ line \in Nat \ {0}
    BY <1>5 DEF IInv, ParseInv, EndDefine, AtRow
  <2>2. Lines[line].tag \in Tag
    BY <2>1, LineType DEF IInv, Line
  <2>3. tags' \in Seq(Tag)
    BY <1>0, <1>5, <2>2 DEF TypeOK, EndDefine
  <2> QED
    BY <1>0, <1>5, <2>3 DEF TypeOK, EndDefine, fileVars, defVars, taskVars, readVars
<1>6. CASE ParseRow
  <2>1. /\ spaces' \in Seq([ver : Version, rows : [Addr -> Row \cup {NoRow}]])
        /\ Len(spaces') = Len(spaces)
    BY <1>6, RowStep DEF Space
  <2> QED
    BY <1>0, <1>6, <2>1 DEF TypeOK, ParseRow, fileVars, defVars, readVars
<1>7. CASE TooEarly \/ Due \/ Status \/ KeepTime
  <2>1. CASE TooEarly \/ Due
    BY <1>0, <2>1 DEF TypeOK, TooEarly, Due, fileVars, dataVars, defVars, readVars
  <2>2. CASE Status
    BY <1>0, <2>2 DEF TypeOK, Status, fileVars, dataVars, defVars, readVars
  <2>3. CASE KeepTime
    BY <1>0, <2>3 DEF TypeOK, KeepTime, fileVars, dataVars, readVars
  <2> QED
    BY <1>7, <2>1, <2>2, <2>3
<1>8. CASE Readers
  <2>0. UNCHANGED <<fileVars, dataVars, defVars, taskVars>>
    BY <1>8 DEF Readers, Enter, Extract, Leave
  <2> SUFFICES /\ store' \in [Txn -> Active \cup {Inactive}]
               /\ saved' \in [Txn -> Seq(Active \cup {Inactive})]
               /\ scope' \in [Txn -> Seq(Active)]
               /\ got' \in [Txn -> Value]
    BY <1>0, <2>0 DEF TypeOK, fileVars, dataVars, defVars, taskVars
  <2>1. ASSUME NEW t \in Txn, NEW a \in Addr, Enter(t, a)
        PROVE  /\ store' \in [Txn -> Active \cup {Inactive}]
               /\ saved' \in [Txn -> Seq(Active \cup {Inactive})]
               /\ scope' \in [Txn -> Seq(Active)]
               /\ got' \in [Txn -> Value]
    <3>1. space \in Nat \ {0}
      BY <1>0, <2>1 DEF IInv, PlaceInv, Enter, TypeOK
    <3>2. [space |-> space, addr |-> a] \in Active
      BY <3>1 DEF Active
    <3> QED
      BY <1>0, <2>1, <3>2 DEF Enter, TypeOK
  <2>2. ASSUME NEW t \in Txn, Extract(t)
        PROVE  /\ store' \in [Txn -> Active \cup {Inactive}]
               /\ saved' \in [Txn -> Seq(Active \cup {Inactive})]
               /\ scope' \in [Txn -> Seq(Active)]
               /\ got' \in [Txn -> Value]
    <3> DEFINE at  == scope[t][Len(scope[t])]
               row == spaces[at.space].rows[at.addr]
    <3>0. scope[t] # <<>>
      BY <2>2 DEF Extract
    <3>1. at \in Active /\ store[t] = at /\ row \in Row \cup {NoRow}
      BY <3>0, LookedUp
    <3>2. CASE row = NoRow
      <4>1. [at |-> at, nil |-> TRUE] \in Value
        <5> HIDE DEF at
        <5> QED
          BY <3>1 DEF Value
      <4>2. got' = [got EXCEPT ![t] = [at |-> at, nil |-> TRUE]]
        BY <2>2, <3>1, <3>2 DEF Extract
      <4>3. UNCHANGED <<store, saved, scope>>
        BY <2>2 DEF Extract
      <4> HIDE DEF at, row
      <4> QED
        BY <1>0, <4>1, <4>2, <4>3 DEF TypeOK
    <3>3. CASE row # NoRow
      <4>1. row.num \in Number /\ NameOf(row.tag) \subseteq Tag
        <5>1. row \in Row
          BY <3>1, <3>3
        <5>2. at.space \in 1..Len(spaces) /\ at.addr \in Addr
          BY <1>0, <3>0, LookedUp DEF TypeOK
        <5>3. row.tag \in 1..Len(tags)
          BY <3>3, <5>2 DEF IInv, RowsKeepMeaning
        <5>4. tags \in Seq(Tag)
          BY <1>0 DEF TypeOK
        <5>5. tags[row.tag] \in Tag
          <6> HIDE DEF row
          <6> QED
            BY <5>3, <5>4, ElementOfSeq
        <5> QED
          BY <5>1, <5>5 DEF NameOf, Row
      <4>2. PICK name \in NameOf(row.tag) :
              got' = [got EXCEPT ![t] = [at |-> at, nil |-> FALSE, tag |-> name,
                                         raced |-> defining, num |-> row.num]]
        BY <2>2, <3>1, <3>3 DEF Extract
      <4>3. [at |-> at, nil |-> FALSE, tag |-> name, raced |-> defining, num |-> row.num] \in Value
        <5>1. name \in Tag /\ defining \in BOOLEAN
          BY <1>0, <4>1 DEF TypeOK
        <5> HIDE DEF at, row
        <5> QED
          BY <3>1, <4>1, <5>1 DEF Value
      <4>4. UNCHANGED <<store, saved, scope>>
        BY <2>2 DEF Extract
      <4> HIDE DEF at, row
      <4> QED
        BY <1>0, <4>2, <4>3, <4>4 DEF TypeOK
    <3> QED
      BY <3>2, <3>3
  <2>3. ASSUME NEW t \in Txn, Leave(t)
        PROVE  /\ store' \in [Txn -> Active \cup {Inactive}]
               /\ saved' \in [Txn -> Seq(Active \cup {Inactive})]
               /\ scope' \in [Txn -> Seq(Active)]
               /\ got' \in [Txn -> Value]
    <3>1. /\ scope[t] \in Seq(Active) /\ saved[t] \in Seq(Active \cup {Inactive})
          /\ Len(saved[t]) = Len(scope[t]) /\ Len(scope[t]) \in Nat /\ Len(scope[t]) > 0
      BY <1>0, <2>3 DEF TypeOK, IInv, ScopeInv, Nested, Leave
    <3>2. saved[t][Len(saved[t])] \in Active \cup {Inactive}
      BY <3>1, ElementOfSeq
    <3>3. /\ SubSeq(scope[t], 1, Len(scope[t]) - 1) \in Seq(Active)
          /\ SubSeq(saved[t], 1, Len(saved[t]) - 1) \in Seq(Active \cup {Inactive})
      BY <3>1
    <3>4. NoValue \in Value
      BY DEF Value
    <3> QED
      BY <1>0, <2>3, <3>2, <3>3, <3>4 DEF Leave, TypeOK
  <2> QED
    BY <1>8, <2>1, <2>2, <2>3 DEF Readers
<1>9. CASE UNCHANGED vars
  BY <1>0, <1>9 DEF TypeOK, vars, fileVars, dataVars, defVars, taskVars, readVars
<1> QED
  BY <1>1, <1>2, <1>3, <1>4, <1>5, <1>6, <1>7, <1>8, <1>9 DEF Next, Loader, Parse, Task

-----------------------------------------------------------------------------
\* Indices keep their meaning, because tags are only appended.
LEMMA MeaningStep == IInv /\ [Next]_vars => RowsKeepMeaning' /\ TagsInv'
<1> SUFFICES ASSUME IInv, [Next]_vars PROVE RowsKeepMeaning' /\ TagsInv'
  OBVIOUS
<1>0. /\ TypeOK /\ RowsKeepMeaning /\ TagsInv
      /\ spaces \in Seq(Space) /\ Len(spaces) \in Nat /\ tags \in Seq(Tag) /\ Len(tags) \in Nat
  BY DEF IInv, TypeOK, Space
<1>1. CASE UNCHANGED <<tags, spaces>>
  BY <1>0, <1>1 DEF RowsKeepMeaning, TagsInv
<1>2. CASE (LoadContent \/ Load) /\ ~UNCHANGED spaces
  <2>1. spaces' = Append(spaces, NewSpace) /\ tags' = tags
    BY <1>2 DEF LoadContent, Load
  <2>2. \A i \in 1..Len(spaces') : spaces'[i] = IF i = Len(spaces) + 1 THEN NewSpace ELSE spaces[i]
    BY <1>0, <2>1, NewSpaceType
  <2>3. \A a \in Addr : NewSpace.rows[a] = NoRow
    BY DEF NewSpace
  <2> HIDE DEF NewSpace
  <2>4. Len(spaces') = Len(spaces) + 1
    BY <1>0, <2>1, NewSpaceType
  <2> QED
    BY <1>0, <2>1, <2>2, <2>3, <2>4 DEF RowsKeepMeaning, TagsInv, AutoTags
<1>3. CASE EndDefine
  <2>1. tags' = Append(tags, Lines[line].tag) /\ spaces' = spaces /\ AutoTags
    BY <1>3 DEF EndDefine, IInv, ParseInv
  <2>2. Len(tags') = Len(tags) + 1 /\ \A i \in 1..Len(tags) : tags'[i] = tags[i]
    BY <1>0, <2>1
  <2> QED
    BY <1>0, <2>1, <2>2 DEF RowsKeepMeaning, TagsInv, AutoTags
<1>4. CASE ParseRow
  <2>1. tags' = tags
    BY <1>4 DEF ParseRow
  <2>2. Building = spaces[Len(spaces)] /\ Building' = spaces'[Len(spaces')]
    BY DEF Building
  <2>3. ASSUME NEW i \in 1..Len(spaces'), NEW a \in Addr, spaces'[i].rows[a] # NoRow
        PROVE  /\ spaces'[i].rows[a].tag \in 1..Len(tags)
               /\ tags[spaces'[i].rows[a].tag] =
                    File[spaces'[i].ver][spaces'[i].rows[a].line].tag
    <3>1. CASE i # Len(spaces)
      <4>1. i \in 1..Len(spaces) /\ spaces'[i] = spaces[i]
        BY <1>0, <1>4, <2>3, <3>1, RowStep
      <4> QED
        BY <1>0, <2>3, <4>1 DEF RowsKeepMeaning
    <3>2. CASE i = Len(spaces)
      <4>1. spaces'[i] = Building' /\ Building'.ver = Building.ver /\ i \in 1..Len(spaces)
        BY <1>0, <1>4, <2>2, <3>2, RowStep
      <4>2. CASE Building'.rows[a] = Building.rows[a]
        BY <1>0, <2>2, <2>3, <3>2, <4>1, <4>2 DEF RowsKeepMeaning
      <4>3. CASE Building'.rows[a] # Building.rows[a]
        <5>1. /\ Building'.rows[a].tag \in 1..Len(tags) /\ Building'.rows[a].line = line
              /\ tags[Building'.rows[a].tag] = Lines[line].tag
          BY <1>4, <4>3, RowStep
        <5> QED
          BY <4>1, <5>1 DEF Lines
      <4> QED
        BY <4>2, <4>3
    <3> QED
      BY <3>1, <3>2
  <2> QED
    BY <1>0, <2>1, <2>3 DEF RowsKeepMeaning, TagsInv, AutoTags
<1>5. CASE Files
  BY <1>1, <1>5 DEF Files, Vanish, Return, Write, dataVars
<1>6. CASE (LoadContent \/ Load) /\ UNCHANGED spaces
  BY <1>1, <1>6 DEF LoadContent, Load
<1>7. CASE LoadStatus \/ ParseEnd \/ SkipLine \/ BeginDefine \/ ParseFails
  BY <1>1, <1>7 DEF LoadStatus, ParseEnd, SkipLine, BeginDefine, ParseFails, dataVars
<1>8. CASE TooEarly \/ Due \/ Status \/ Publish \/ KeepTime
  BY <1>1, <1>8 DEF TooEarly, Due, Status, Publish, KeepTime, dataVars
<1>9. CASE Readers
  BY <1>1, <1>9 DEF Readers, Enter, Extract, Leave, dataVars
<1>10. CASE UNCHANGED vars
  BY <1>1, <1>10 DEF vars, dataVars
<1> QED
  BY <1>2, <1>3, <1>4, <1>5, <1>6, <1>7, <1>8, <1>9, <1>10 DEF Next, Loader, Parse, Task

-----------------------------------------------------------------------------
LEMMA PlaceStep == IInv /\ [Next]_vars => PlaceInv'
<1> SUFFICES ASSUME IInv, [Next]_vars PROVE PlaceInv'
  OBVIOUS
<1>0. PlaceInv /\ Len(spaces) \in Nat /\ space \in 0..Len(spaces) /\ spaces \in Seq(Space)
  BY DEF IInv, TypeOK, Space
<1> USE DEF Loading, Parsing
<1>1. CASE UNCHANGED <<spaces, space, pc>>
  BY <1>0, <1>1 DEF PlaceInv
<1>2. CASE LoadContent \/ Load
  <2>1. UNCHANGED spaces \/ (Len(spaces') = Len(spaces) + 1 /\ spaces' = Append(spaces, NewSpace))
    BY <1>0, <1>2, NewSpaceType DEF LoadContent, Load
  <2> QED
    BY <1>0, <1>2, <2>1 DEF PlaceInv, LoadContent, Load, defVars
<1>3. CASE ParseRow
  BY <1>0, <1>3, RowStep DEF PlaceInv, ParseRow, defVars
<1>4. CASE LoadStatus \/ ParseEnd \/ ParseFails
  BY <1>0, <1>4 DEF PlaceInv, LoadStatus, ParseEnd, ParseFails, dataVars, defVars
<1>5. CASE SkipLine \/ BeginDefine \/ EndDefine
  BY <1>1, <1>5 DEF SkipLine, BeginDefine, EndDefine, dataVars, defVars, taskVars
<1>6. CASE TooEarly \/ Due \/ Status \/ Publish \/ KeepTime
  BY <1>0, <1>6 DEF PlaceInv, TooEarly, Due, Status, Publish, KeepTime, dataVars, defVars
<1>7. CASE Files
  BY <1>1, <1>7 DEF Files, Vanish, Return, Write, dataVars, defVars, taskVars
<1>8. CASE Readers
  BY <1>1, <1>8 DEF Readers, Enter, Extract, Leave, dataVars, defVars, taskVars
<1>9. CASE UNCHANGED vars
  BY <1>1, <1>9 DEF vars, dataVars, defVars, taskVars
<1> QED
  BY <1>2, <1>3, <1>4, <1>5, <1>6, <1>7, <1>8, <1>9 DEF Next, Loader, Parse, Task

-----------------------------------------------------------------------------
LEMMA GoodToNext ==
  ASSUME NEW v, NEW n \in Nat \ {0}, GoodTo(v, n), File[v][n].kind # "empty",
         File[v][n].kind = "row" =>
           File[v][n].range # {} /\ Declared(File[v][n].tag) /\ File[v][n].flagsOk
  PROVE  GoodTo(v, n + 1)
<1>1. \A j \in 1..((n + 1) - 1) : j = n \/ j \in 1..(n - 1)
  OBVIOUS
<1> QED
  BY <1>1 DEF GoodTo

\* An address keeps its row, or gets its first one.
LEMMA FilledToNext ==
  ASSUME NEW v, NEW n \in Nat \ {0}, NEW a, NEW row, NEW new, FilledTo(v, n, a, row),
         \/ new = row /\ (Gives(v, n, a) => new # NoRow)
         \/ row = NoRow /\ Gives(v, n, a) /\ new # NoRow /\ new.line = n
  PROVE  FilledTo(v, n + 1, a, new)
<1>1. \A j \in 1..((n + 1) - 1) : j = n \/ j \in 1..(n - 1)
  OBVIOUS
<1>2. \A j \in 1..(n - 1) : j \in 1..((n + 1) - 1) /\ j <= n
  OBVIOUS
<1>3. n \in 1..((n + 1) - 1) /\ n <= n
  OBVIOUS
<1> QED
  BY <1>1, <1>2, <1>3 DEF FilledTo

LEMMA ParseStep == IInv /\ [Next]_vars => ParseInv'
<1> SUFFICES ASSUME IInv, [Next]_vars PROVE ParseInv'
  OBVIOUS
<1>0. /\ TypeOK /\ PlaceInv /\ ParseInv
      /\ spaces \in Seq(Space) /\ Len(spaces) \in Nat /\ line \in Nat
  BY DEF IInv, TypeOK, Space
<1> USE DEF Parsing
<1>1. CASE UNCHANGED <<pc, line, spaces, defining, tags>>
  BY <1>0, <1>1 DEF ParseInv, Building, Lines, AtRow, AtEnd, TagIndex
<1>2. CASE LoadContent \/ Load
  <2>1. CASE UNCHANGED spaces
    BY <1>0, <1>2, <2>1 DEF ParseInv, LoadContent, Load
  <2>2. CASE ~UNCHANGED spaces
    <3>1. spaces' = Append(spaces, NewSpace) /\ line' = 1 /\ defining' = defining /\ ~defining
      BY <1>0, <1>2, <2>2 DEF ParseInv, LoadContent, Load
    <3>2. Building' = NewSpace
      BY <1>0, <3>1, NewSpaceType DEF Building
    <3>3. NewSpace.ver \in Version /\ \A a \in Addr : NewSpace.rows[a] = NoRow
      BY NewSpaceType DEF NewSpace, TypeOK, IInv
    <3>4. 1 \in 1..(Len(File[NewSpace.ver]) + 1)
      BY <3>3, FileLines
    <3>5. GoodTo(NewSpace.ver, 1) /\ \A a \in Addr : FilledTo(NewSpace.ver, 1, a, NewSpace.rows[a])
      BY <3>3 DEF GoodTo, FilledTo
    <3>6. pc' # "publish"
      BY <1>2 DEF LoadContent, Load
    <3> HIDE DEF NewSpace
    <3> QED
      BY <3>1, <3>2, <3>4, <3>5, <3>6 DEF ParseInv, Lines
  <2> QED
    BY <2>1, <2>2
<1>3. CASE LoadStatus
  <2>1. UNCHANGED <<line, spaces, defining, tags>> /\ pc = "loadStatus" /\ pc' = "loadParse" /\ ~defining
    BY <1>0, <1>3 DEF LoadStatus, dataVars, ParseInv
  <2> QED
    BY <1>0, <2>1 DEF ParseInv, Building, Lines
<1>4. CASE ParseEnd
  <2>1. Complete(Building)
    BY <1>0, <1>4, ParsedAll DEF ParseEnd
  <2>2. ~defining
    BY <1>0, <1>4 DEF ParseEnd, ParseInv, AtRow
  <2>3. UNCHANGED <<spaces, defining>> /\ pc' \in {"idle", "publish"}
    BY <1>4 DEF ParseEnd, dataVars
  <2>4. Building' = Building
    BY <2>3 DEF Building
  <2>5. Complete(Building')
    BY <2>1, <2>4
  <2> QED
    BY <2>2, <2>3, <2>5 DEF ParseInv, Complete
<1>5. CASE SkipLine
  <2> DEFINE v == Building.ver
  <2>1. /\ pc \in Parsing /\ ~AtEnd /\ File[v][line].kind = "comment" /\ line' = line + 1
        /\ UNCHANGED <<pc, spaces, defining, tags>>
    BY <1>5 DEF SkipLine, Lines, dataVars
  <2>2. line \in Nat \ {0} /\ GoodTo(v, line) /\ \A a \in Addr : FilledTo(v, line, a, Building.rows[a])
    BY <1>0, <2>1 DEF ParseInv
  <2>3. line \in 1..Len(Lines) /\ v \in Version
    BY <1>0, <2>1, <2>2, LineType, BuildingType
  <2>4. GoodTo(v, line')
    BY <2>1, <2>2, GoodToNext
  <2>5. \A a \in Addr : FilledTo(v, line', a, Building.rows[a])
    BY <2>1, <2>2, FilledToNext DEF Gives
  <2>6. line' \in 1..(Len(Lines) + 1)
    BY <2>1, <2>3, FileLines DEF Lines
  <2>7. ~defining
    BY <1>0, <2>1 DEF ParseInv, AtRow, Lines
  <2>8. Building' = Building /\ Lines' = Lines
    BY <2>1 DEF Building, Lines
  <2>9. pc' \notin {"loadStatus", "publish"}
    BY <2>1
  <2> QED
    BY <2>1, <2>4, <2>5, <2>6, <2>7, <2>8, <2>9 DEF ParseInv
<1>6. CASE BeginDefine
  BY <1>0, <1>6 DEF BeginDefine, ParseInv, defVars, taskVars, Building, Lines, AtRow, AtEnd, TagIndex
<1>7. CASE EndDefine
  BY <1>0, <1>7 DEF EndDefine, ParseInv, defVars, taskVars, Building, Lines
<1>8. CASE ParseRow
  <2> DEFINE v == Building.ver
  <2>1. /\ pc \in Parsing /\ line' = line + 1 /\ UNCHANGED <<pc, defining>>
        /\ TagIndex(Lines[line].tag) # 0
    BY <1>8 DEF ParseRow
  <2>2. line \in Nat \ {0} /\ GoodTo(v, line) /\ \A a \in Addr : FilledTo(v, line, a, Building.rows[a])
    BY <1>0, <2>1 DEF ParseInv
  <2>3. /\ line \in 1..Len(Lines) /\ Building'.ver = v
        /\ Lines[line].kind = "row" /\ Lines[line].range # {} /\ Lines[line].flagsOk
        /\ Declared(Lines[line].tag)
    BY <1>8, RowStep
  <2>4. GoodTo(v, line')
    BY <2>1, <2>2, <2>3, GoodToNext DEF Lines
  <2>5. ASSUME NEW a \in Addr PROVE FilledTo(v, line', a, Building'.rows[a])
    <3>1. Gives(v, line, a) <=> a \in Lines[line].range
      BY <2>3 DEF Gives, Lines
    <3>2. LET new == Building'.rows[a]
          IN \/ new = Building.rows[a] /\ (a \in Lines[line].range => new # NoRow)
             \/ Building.rows[a] = NoRow /\ a \in Lines[line].range /\ new # NoRow /\ new.line = line
      BY <1>8, RowStep
    <3> QED
      BY <2>1, <2>2, <3>1, <3>2, FilledToNext
  <2>6. line' \in 1..(Len(Lines) + 1) /\ Lines' = Lines
    <3>1. v \in Version
      BY <1>0, <2>1, BuildingType
    <3> QED
      BY <2>1, <2>3, <3>1, FileLines DEF Lines
  <2>7. ~defining
    BY <1>0, <2>1 DEF ParseInv
  <2>9. pc' \notin {"loadStatus", "publish"}
    BY <2>1
  <2> QED
    BY <2>1, <2>3, <2>4, <2>5, <2>6, <2>7, <2>9 DEF ParseInv
<1>9. CASE ParseFails
  <2>1. ~defining
    BY <1>0, <1>9 DEF ParseFails, BadRow, ParseInv
  <2> QED
    BY <1>9, <2>1 DEF ParseFails, ParseInv, dataVars
<1>10. CASE TooEarly \/ Due \/ Status \/ Publish \/ KeepTime
  BY <1>0, <1>10 DEF TooEarly, Due, Status, Publish, KeepTime, ParseInv, dataVars
<1>11. CASE Files
  BY <1>1, <1>11 DEF Files, Vanish, Return, Write, dataVars, taskVars
<1>12. CASE Readers
  BY <1>1, <1>12 DEF Readers, Enter, Extract, Leave, dataVars, taskVars
<1>13. CASE UNCHANGED vars
  BY <1>1, <1>13 DEF vars, dataVars, taskVars
<1> QED
  BY <1>2, <1>3, <1>4, <1>5, <1>6, <1>7, <1>8, <1>9, <1>10, <1>11, <1>12, <1>13
     DEF Next, Loader, Parse, Task

-----------------------------------------------------------------------------
LEMMA CompleteStep == IInv /\ [Next]_vars => SpaceComplete'
<1> SUFFICES ASSUME IInv, [Next]_vars PROVE SpaceComplete'
  OBVIOUS
<1>0. /\ TypeOK /\ PlaceInv /\ ParseInv /\ Kept /\ space \in Nat
      /\ space # 0 => Complete(spaces[space])
  BY Keeps DEF IInv, TypeOK, SpaceComplete, Complete
<1>1. CASE space' = space
  <2>1. space # 0 => spaces'[space] = spaces[space]
    BY <1>0 DEF Kept
  <2>2. space' # 0 => Complete(spaces'[space'])
    BY <1>0, <1>1, <2>1
  <2> QED
    BY <2>2 DEF SpaceComplete, Complete, Valid, IsRowOf, Declared, RowLines, Reached, AutoTags
<1>2. CASE space' # space
  <2>1. ParseEnd \/ Publish
    BY <1>2 DEF Next, Files, Write, Vanish, Return, Loader, LoadContent, LoadStatus, Parse, SkipLine,
       BeginDefine, EndDefine, ParseRow, ParseFails, Task, TooEarly, Due, Status, Load, KeepTime,
       Readers, Enter, Extract, Leave, vars, defVars
  <2>2. Complete(Building) /\ space' = Len(spaces) /\ spaces' = spaces
    <3>1. CASE ParseEnd
      BY <1>0, <1>2, <3>1, ParsedAll DEF ParseEnd, dataVars
    <3>2. CASE Publish
      BY <1>0, <3>2 DEF Publish, ParseInv, dataVars
    <3> QED
      BY <2>1, <3>1, <3>2
  <2>3. Complete(spaces'[space'])
    BY <2>2 DEF Building
  <2> QED
    BY <2>3 DEF SpaceComplete, Complete, Valid, IsRowOf, Declared, RowLines, Reached, AutoTags
<1> QED
  BY <1>1, <1>2

-----------------------------------------------------------------------------
\* A version that is given up is not valid.
LEMMA NotValid ==
  ASSUME IInv, ParseFails
  PROVE  ~Valid(Building.ver)
<1> DEFINE v == Building.ver
           l == File[v][line]
<1>1. /\ pc \in Parsing /\ ~AtEnd /\ Lines[line].kind = "row" /\ BadRow
      /\ line \in Nat \ {0} /\ GoodTo(v, line)
  BY DEF IInv, ParseInv, ParseFails, AtRow
<1>2. line \in 1..Len(File[v]) /\ l.kind = "row" /\ v \in Version
  BY <1>1, LineType, BuildingType DEF IInv, Lines, Parsing
<1>3. line \in Reached(v)
  <2>1. \A j \in 1..line : j = line \/ j \in 1..(line - 1)
    BY <1>1
  <2> QED
    BY <1>1, <1>2, <2>1 DEF Reached, GoodTo
<1>4. ~(l.range # {} /\ Declared(l.tag) /\ l.flagsOk)
  <2>1. TagIndex(l.tag) = 0 => \A i \in 1..Len(tags) : tags[i] # l.tag
    BY IndexOfTag DEF IInv
  <2>2. ~AutoTags => tags = Keys
    BY DEF IInv, TagsInv
  <2> QED
    BY <1>1, <2>1, <2>2 DEF BadRow, Lines, Declared
<1> QED
  BY <1>2, <1>3, <1>4 DEF Valid

LEMMA TimeStep == IInv /\ [Next]_vars => TimeInv'
<1> SUFFICES ASSUME IInv, [Next]_vars PROVE TimeInv'
  OBVIOUS
<1>0. /\ TypeOK /\ PlaceInv /\ TimeInv
      /\ spaces \in Seq(Space) /\ Len(spaces) \in Nat
      /\ disk \in Nat /\ mtime \in Nat /\ lastMod \in Nat
  BY FileLines DEF IInv, TypeOK, Space, Version
<1> USE DEF Loading, Parsing
<1>1. ASSUME UNCHANGED spaces PROVE Building' = Building
  BY <1>1 DEF Building
<1> HIDE DEF Loading, Parsing
<1>2. CASE Files
  <2>1. UNCHANGED <<spaces, space, lastMod, mtime, pc, checked>> /\ disk' \in Nat /\ disk <= disk'
    BY <1>0, <1>2 DEF Files, Vanish, Return, Write, dataVars, defVars, taskVars
  <2>2. mtime <= disk => mtime <= disk'
    BY <1>0, <2>1
  <2> QED
    BY <1>0, <1>1, <2>1, <2>2 DEF TimeInv, Valid, Loading
<1>3. CASE LoadContent \/ Load
  <2>1. CASE UNCHANGED spaces
    BY <1>0, <1>1, <1>3, <2>1 DEF TimeInv, LoadContent, Load, defVars, fileVars, Loading, Valid
  <2>2. CASE ~UNCHANGED spaces
    <3>1. spaces' = Append(spaces, NewSpace) /\ UNCHANGED <<disk, mtime, checked>>
      BY <1>3, <2>2 DEF LoadContent, Load, fileVars
    <3>2. Building'.ver = disk
      BY <1>0, <3>1, NewSpaceType DEF Building, NewSpace
    <3>3. \/ pc = "loadContent" /\ pc' = "loadStatus"
          \/ pc = "load" /\ pc' = "parse"
      BY <1>3, <2>2 DEF LoadContent, Load
    <3> QED
      BY <1>0, <3>1, <3>2, <3>3 DEF TimeInv, Loading
  <2> QED
    BY <2>1, <2>2
<1>4. CASE LoadStatus
  BY <1>0, <1>1, <1>4 DEF TimeInv, LoadStatus, dataVars, fileVars, Loading
<1>5. CASE ParseEnd
  BY <1>0, <1>1, <1>5 DEF TimeInv, ParseEnd, dataVars, fileVars, Loading, Parsing
<1>6. CASE SkipLine \/ BeginDefine \/ EndDefine
  <2>1. UNCHANGED <<spaces, space, lastMod, mtime, pc, checked, disk>>
    BY <1>6 DEF SkipLine, BeginDefine, EndDefine, dataVars, defVars, taskVars, fileVars
  <2> QED
    BY <1>0, <1>1, <2>1 DEF TimeInv, Valid, Loading
<1>7. CASE ParseRow
  <2>1. UNCHANGED <<space, lastMod, mtime, pc, checked, disk>> /\ pc \in Parsing
    BY <1>7 DEF ParseRow, defVars, fileVars
  <2>2. Building'.ver = Building.ver
    BY <1>7, RowStep
  <2> QED
    BY <1>0, <2>1, <2>2 DEF TimeInv, Loading, Parsing
<1>8. CASE ParseFails
  <2>1. UNCHANGED <<spaces, space, lastMod, mtime, checked, disk>> /\ pc \in Parsing
        /\ pc' = IF pc = "loadParse" THEN "failed" ELSE "keep"
    BY <1>8 DEF ParseFails, dataVars, defVars, fileVars
  <2>2. ~Valid(Building.ver)
    BY <1>8, NotValid
  <2> QED
    BY <1>0, <1>1, <2>1, <2>2 DEF TimeInv, Loading, Parsing
<1>9. CASE TooEarly \/ Due
  BY <1>0, <1>1, <1>9 DEF TimeInv, TooEarly, Due, dataVars, defVars, fileVars, Loading, Valid
<1>10. CASE Status
  BY <1>0, <1>1, <1>10 DEF TimeInv, Status, dataVars, defVars, fileVars, Loading, Valid
<1>11. CASE Publish
  BY <1>0, <1>1, <1>11 DEF TimeInv, Publish, dataVars, fileVars, Loading, Valid
<1>12. CASE KeepTime
  BY <1>0, <1>1, <1>12 DEF TimeInv, KeepTime, dataVars, fileVars, Loading, Valid
<1>13. CASE Readers
  <2>1. UNCHANGED <<spaces, space, lastMod, mtime, pc, checked, disk>>
    BY <1>13 DEF Readers, Enter, Extract, Leave, dataVars, defVars, taskVars, fileVars
  <2> QED
    BY <1>0, <1>1, <2>1 DEF TimeInv, Valid, Loading
<1>14. CASE UNCHANGED vars
  <2>1. UNCHANGED <<spaces, space, lastMod, mtime, pc, checked, disk>>
    BY <1>14 DEF vars, dataVars, defVars, taskVars, fileVars
  <2> QED
    BY <1>0, <1>1, <2>1 DEF TimeInv, Valid, Loading
<1> QED
  BY <1>2, <1>3, <1>4, <1>5, <1>6, <1>7, <1>8, <1>9, <1>10, <1>11, <1>12, <1>13, <1>14
     DEF Next, Loader, Parse, Task

-----------------------------------------------------------------------------
LEMMA NestedEnter ==
  ASSUME NEW S, NEW st \in S, NEW sv \in Seq(S), NEW sc \in Seq(S), NEW x \in S,
         Nested(st, sv, sc)
  PROVE  Nested(x, Append(sv, st), Append(sc, x))
<1> DEFINE n == Len(sc)
           sv2 == Append(sv, st)
           sc2 == Append(sc, x)
<1>1. n \in Nat /\ Len(sv) = n /\ Len(sv2) = n + 1 /\ Len(sc2) = n + 1
  BY DEF Nested
<1>2. sv2[n + 1] = st /\ sc2[n + 1] = x
  BY <1>1
<1>3. \A k \in 1..n : sv2[k] = sv[k] /\ sc2[k] = sc[k]
  BY <1>1
<1> HIDE DEF sv2, sc2
<1>4. ASSUME NEW k \in 1..(n + 1) PROVE sv2[k] = IF k = 1 THEN Inactive ELSE sc2[k - 1]
  <2>1. CASE k = n + 1
    BY <1>1, <1>2, <1>3, <2>1 DEF Nested
  <2>2. CASE k # n + 1
    <3>1. k \in 1..n /\ (k # 1 => k - 1 \in 1..n)
      BY <1>1, <2>2
    <3> QED
      BY <1>3, <3>1 DEF Nested
  <2> QED
    BY <2>1, <2>2
<1>5. Len(sc2) # 0
  BY <1>1
<1> QED
  BY <1>1, <1>2, <1>4, <1>5 DEF Nested, sv2, sc2

LEMMA NestedLeave ==
  ASSUME NEW S, NEW st, NEW sv \in Seq(S), NEW sc \in Seq(S), Len(sc) > 0, Nested(st, sv, sc)
  PROVE  Nested(sv[Len(sv)], SubSeq(sv, 1, Len(sv) - 1), SubSeq(sc, 1, Len(sc) - 1))
<1> DEFINE n == Len(sc)
           sv2 == SubSeq(sv, 1, Len(sv) - 1)
           sc2 == SubSeq(sc, 1, Len(sc) - 1)
<1>1. n \in Nat \ {0} /\ Len(sv) = n
  BY DEF Nested
<1>2. Len(sv2) = n - 1 /\ Len(sc2) = n - 1
  BY <1>1
<1>3. \A k \in 1..(n - 1) : sv2[k] = sv[k] /\ sc2[k] = sc[k]
  BY <1>1
<1> HIDE DEF sv2, sc2
<1>4. ASSUME NEW k \in 1..(n - 1) PROVE sv2[k] = IF k = 1 THEN Inactive ELSE sc2[k - 1]
  <2>1. k \in 1..n /\ (k # 1 => k - 1 \in 1..(n - 1))
    BY <1>1
  <2> QED
    BY <1>3, <2>1 DEF Nested
<1>5. sv[n] = IF n - 1 = 0 THEN Inactive ELSE sc2[n - 1]
  <2>1. n - 1 = 0 <=> n = 1
    BY <1>1
  <2>2. n # 1 => n - 1 \in 1..(n - 1)
    BY <1>1
  <2>3. n \in 1..n
    BY <1>1
  <2> QED
    BY <1>3, <2>1, <2>2, <2>3 DEF Nested
<1> QED
  BY <1>1, <1>2, <1>4, <1>5 DEF Nested, sv2, sc2

\* A modifier that begins adds its lookup, one that returns restores what was
\* there; the task changes none of the spaces that are looked up.
LEMMA StaysPublished ==
  ASSUME IInv, Kept, space \in Nat, space' \in Nat, NEW at, Published(at)
  PROVE  at.space \in 1..space' /\ Complete(spaces'[at.space])
<1>1. at.space \in 1..space /\ Complete(spaces[at.space])
  BY DEF Published
<1>2. at.space \in 1..space' /\ spaces'[at.space] = spaces[at.space]
  BY <1>1 DEF Kept
<1> QED
  BY <1>1, <1>2

LEMMA ScopeStep == IInv /\ [Next]_vars => ScopeInv'
<1> SUFFICES ASSUME IInv, [Next]_vars, NEW u \in Txn
             PROVE  /\ Nested(store'[u], saved'[u], scope'[u])
                    /\ \A k \in 1..Len(scope'[u]) :
                         /\ scope'[u][k].space \in 1..space'
                         /\ Complete(spaces'[scope'[u][k].space])
  BY DEF ScopeInv, Published, Nested, Complete, Valid, IsRowOf, Declared, RowLines, Reached, AutoTags
<1> DEFINE Any == Active \cup {Inactive}
<1>0. /\ Kept /\ space \in Nat /\ space' \in Nat
      /\ store \in [Txn -> Any] /\ saved \in [Txn -> Seq(Any)] /\ scope \in [Txn -> Seq(Active)]
  <2>1. TypeOK /\ TypeOK' /\ Kept
    BY Keeps, TypeStep DEF IInv
  <2>2. space \in Nat /\ space' \in Nat
    BY <2>1 DEF TypeOK
  <2> QED
    BY <2>1, <2>2 DEF TypeOK
<1>1. /\ store[u] \in Any /\ saved[u] \in Seq(Any)
      /\ scope[u] \in Seq(Active) /\ scope[u] \in Seq(Any) /\ Len(scope[u]) \in Nat
  BY <1>0
<1>2. /\ Nested(store[u], saved[u], scope[u])
      /\ \A k \in 1..Len(scope[u]) :
           /\ scope[u][k].space \in 1..space' /\ Complete(spaces'[scope[u][k].space])
  BY <1>0, StaysPublished DEF IInv, ScopeInv
<1> HIDE DEF Any
<1>3. CASE UNCHANGED <<store[u], saved[u], scope[u]>>
  BY <1>2, <1>3
<1>4. ASSUME NEW a \in Addr, Enter(u, a)
      PROVE  /\ Nested(store'[u], saved'[u], scope'[u])
             /\ \A k \in 1..Len(scope'[u]) :
                  /\ scope'[u][k].space \in 1..space' /\ Complete(spaces'[scope'[u][k].space])
  <2> DEFINE active == [space |-> space, addr |-> a]
  <2>1. /\ store'[u] = active /\ scope'[u] = Append(scope[u], active)
        /\ saved'[u] = Append(saved[u], store[u]) /\ space' = space /\ spaces' = spaces
    BY <1>0, <1>4 DEF Enter, defVars, dataVars
  <2>2. space \in 1..space' /\ Complete(spaces'[space])
    BY <1>0, <1>4, <2>1 DEF Enter, IInv, PlaceInv, SpaceComplete, Complete
  <2>3. active \in Any /\ active.space = space
    BY <1>0, <2>2 DEF Any, Active
  <2> HIDE DEF active
  <2>4. Nested(store'[u], saved'[u], scope'[u])
    BY <1>1, <1>2, <2>1, <2>3, NestedEnter
  <2>5. ASSUME NEW k \in 1..Len(scope'[u]) PROVE scope'[u][k] = active \/ (k \in 1..Len(scope[u]) /\ scope'[u][k] = scope[u][k])
    BY <1>1, <2>1, <2>3
  <2> QED
    BY <1>2, <2>2, <2>3, <2>4, <2>5
<1>5. ASSUME Leave(u)
      PROVE  /\ Nested(store'[u], saved'[u], scope'[u])
             /\ \A k \in 1..Len(scope'[u]) :
                  /\ scope'[u][k].space \in 1..space' /\ Complete(spaces'[scope'[u][k].space])
  <2>1. /\ store'[u] = saved[u][Len(saved[u])]
        /\ scope'[u] = SubSeq(scope[u], 1, Len(scope[u]) - 1)
        /\ saved'[u] = SubSeq(saved[u], 1, Len(saved[u]) - 1) /\ Len(scope[u]) > 0
    BY <1>0, <1>1, <1>5 DEF Leave
  <2>2. Nested(store'[u], saved'[u], scope'[u])
    BY <1>1, <1>2, <2>1, NestedLeave
  <2>3. ASSUME NEW k \in 1..Len(scope'[u]) PROVE k \in 1..Len(scope[u]) /\ scope'[u][k] = scope[u][k]
    BY <1>1, <2>1
  <2> QED
    BY <1>2, <2>2, <2>3
<1>6. ASSUME NEW t \in Txn, NEW a \in Addr, Enter(t, a), t # u
      PROVE  UNCHANGED <<store[u], saved[u], scope[u]>>
  BY <1>0, <1>6 DEF Enter
<1>7. ASSUME NEW t \in Txn, Leave(t), t # u
      PROVE  UNCHANGED <<store[u], saved[u], scope[u]>>
  BY <1>0, <1>7 DEF Leave
<1>8. CASE \E t \in Txn : Extract(t)
  BY <1>3, <1>8 DEF Extract
<1>9. CASE Readers
  BY <1>3, <1>4, <1>5, <1>6, <1>7, <1>8, <1>9 DEF Readers
<1>10. CASE Files \/ Loader
  BY <1>3, <1>10 DEF Files, Write, Vanish, Return, Loader, LoadContent, LoadStatus, readVars
<1>11. CASE Parse
  BY <1>3, <1>11 DEF Parse, ParseEnd, SkipLine, BeginDefine, EndDefine, ParseRow, ParseFails, readVars
<1>12. CASE Task
  BY <1>3, <1>12 DEF Task, TooEarly, Due, Status, Load, Publish, KeepTime, readVars
<1>13. CASE UNCHANGED vars
  BY <1>3, <1>13 DEF vars, readVars
<1> QED
  BY <1>9, <1>10, <1>11, <1>12, <1>13 DEF Next

-----------------------------------------------------------------------------
\* What a value was extracted from stays as it was, and the value is its column.
ValueIn(ss, g) ==
  LET v  == ss[g.at.space].ver
      ls == RowLines(v, g.at.addr)
  IN IF g.nil THEN ls = {}
     ELSE \E i \in ls :
            /\ \A j \in ls : i <= j
            /\ g.raced \/ g.tag = File[v][i].tag
            /\ File[v][i].num = Junk \/ g.num = File[v][i].num

LEMMA NumbersStep == IInv /\ [Next]_vars => NumbersInv'
<1> SUFFICES ASSUME IInv, [Next]_vars PROVE NumbersInv'
  OBVIOUS
<1>0. NumbersInv /\ spaces \in Seq(Space) /\ Len(spaces) \in Nat /\ TypeOK
  BY DEF IInv, TypeOK, Space
<1>1. CASE UNCHANGED spaces
  BY <1>0, <1>1 DEF NumbersInv
<1>2. CASE spaces' = Append(spaces, NewSpace)
  <2>1. \A i \in 1..Len(spaces') : spaces'[i] = IF i = Len(spaces) + 1 THEN NewSpace ELSE spaces[i]
    BY <1>0, <1>2, NewSpaceType
  <2>2. \A a \in Addr : NewSpace.rows[a] = NoRow
    BY DEF NewSpace
  <2>3. Len(spaces') = Len(spaces) + 1
    BY <1>0, <1>2, NewSpaceType
  <2> HIDE DEF NewSpace
  <2> QED
    BY <1>0, <2>1, <2>2, <2>3 DEF NumbersInv
<1>3. CASE ParseRow
  <2>1. Building = spaces[Len(spaces)] /\ Building' = spaces'[Len(spaces')]
    BY DEF Building
  <2> SUFFICES ASSUME NEW i \in 1..Len(spaces'), NEW a \in Addr, spaces'[i].rows[a] # NoRow
               PROVE  LET num == File[spaces'[i].ver][spaces'[i].rows[a].line].num
                      IN num = Junk \/ spaces'[i].rows[a].num = num
    BY DEF NumbersInv
  <2>2. CASE i # Len(spaces)
    <3>1. i \in 1..Len(spaces) /\ spaces'[i] = spaces[i]
      BY <1>0, <1>3, <2>2, RowStep
    <3> QED
      BY <1>0, <3>1 DEF NumbersInv
  <2>3. CASE i = Len(spaces)
    <3>1. spaces'[i] = Building' /\ Building'.ver = Building.ver /\ i \in 1..Len(spaces)
      BY <1>0, <1>3, <2>1, <2>3, RowStep
    <3>2. CASE Building'.rows[a] = Building.rows[a]
      BY <1>0, <2>1, <2>3, <3>1, <3>2 DEF NumbersInv
    <3>3. CASE Building'.rows[a] # Building.rows[a]
      <4>1. /\ Building'.rows[a].line = line
            /\ Lines[line].num = Junk \/ Building'.rows[a].num = Lines[line].num
        BY <1>3, <3>3, RowStep
      <4> QED
        BY <3>1, <4>1 DEF Lines
    <3> QED
      BY <3>2, <3>3
  <2> QED
    BY <2>2, <2>3
<1>4. CASE Files \/ Loader
  BY <1>1, <1>2, <1>4 DEF Files, Write, Vanish, Return, Loader, LoadContent, LoadStatus, dataVars
<1>5. CASE ParseEnd \/ SkipLine \/ BeginDefine \/ EndDefine \/ ParseFails
  BY <1>1, <1>5 DEF ParseEnd, SkipLine, BeginDefine, EndDefine, ParseFails, dataVars
<1>6. CASE Task
  BY <1>1, <1>2, <1>6 DEF Task, TooEarly, Due, Status, Load, Publish, KeepTime, dataVars
<1>7. CASE Readers
  BY <1>1, <1>7 DEF Readers, Enter, Extract, Leave, dataVars
<1>8. CASE UNCHANGED vars
  BY <1>1, <1>8 DEF vars, dataVars
<1> QED
  BY <1>3, <1>4, <1>5, <1>6, <1>7, <1>8 DEF Next, Parse

\* The value that is extracted now.
LEMMA ExtractStep ==
  ASSUME IInv, NEW t \in Txn, Extract(t)
  PROVE  got'[t].at.space \in 1..space /\ ValueIn(spaces, got'[t])
<1> DEFINE at  == scope[t][Len(scope[t])]
           s   == spaces[at.space]
           row == s.rows[at.addr]
           ls  == RowLines(s.ver, at.addr)
<1>1. scope[t] # <<>> /\ got \in [Txn -> Value]
  BY DEF Extract, IInv, TypeOK
<1>2. /\ store[t] = at /\ at.space \in 1..space /\ at.addr \in Addr
      /\ s \in Space /\ Complete(s) /\ row \in Row \cup {NoRow}
  BY <1>1, LookedUp
<1>3. IsRowOf(s.ver, at.addr, row)
  BY <1>2 DEF Complete
<1>4. ls \subseteq 1..Len(File[s.ver])
  BY DEF RowLines, Reached
<1>5. at.space \in 1..Len(spaces)
  BY <1>2 DEF IInv, TypeOK
<1>6. CASE row = NoRow
  <2>1. got'[t] = [at |-> at, nil |-> TRUE]
    BY <1>1, <1>2, <1>6 DEF Extract
  <2>2. ls = {}
    BY <1>3, <1>4, <1>6 DEF IsRowOf, NoRow
  <2>3. got'[t].at = at /\ got'[t].nil = TRUE
    BY <2>1
  <2> HIDE DEF at, row
  <2> QED
    BY <1>2, <2>2, <2>3 DEF ValueIn
<1>7. CASE row # NoRow
  <2>1. PICK name \in NameOf(row.tag) :
          got'[t] = [at |-> at, nil |-> FALSE, tag |-> name, raced |-> defining, num |-> row.num]
    BY <1>1, <1>2, <1>7 DEF Extract
  <2>2. row.line \in ls /\ \A j \in ls : row.line <= j
    BY <1>3, <1>7 DEF IsRowOf
  <2>3. defining \/ name = File[s.ver][row.line].tag
    BY <1>2, <1>5, <1>7, <2>1 DEF IInv, RowsKeepMeaning, NameOf
  <2>4. File[s.ver][row.line].num = Junk \/ row.num = File[s.ver][row.line].num
    BY <1>2, <1>5, <1>7 DEF IInv, NumbersInv
  <2>5. /\ got'[t].at = at /\ got'[t].nil = FALSE /\ got'[t].tag = name
        /\ got'[t].raced = defining /\ got'[t].num = row.num
    BY <2>1
  <2> DEFINE g == got'[t]
             i == row.line
  <2> HIDE DEF at, row, g, i
  <2>6. /\ i \in ls /\ \A j \in ls : i <= j
        /\ g.raced \/ g.tag = File[s.ver][i].tag
        /\ File[s.ver][i].num = Junk \/ g.num = File[s.ver][i].num
        /\ g.at = at /\ g.nil = FALSE
    BY <2>2, <2>3, <2>4, <2>5 DEF g, i
  <2>7. ValueIn(spaces, g)
    BY <2>6 DEF ValueIn
  <2> QED
    BY <1>2, <2>6, <2>7 DEF g
<1> QED
  BY <1>6, <1>7

LEMMA GotStep == IInv /\ [Next]_vars => GotInv'
<1>a. ASSUME \A t \in Txn : got'[t] # NoValue =>
               got'[t].at.space \in 1..space' /\ ValueIn(spaces', got'[t])
      PROVE  GotInv'
  <2>1. \A t \in Txn : got'[t] # NoValue => got'[t].at.space \in 1..space'
    BY <1>a
  <2>2. ColumnValue'
    BY <1>a, Zenon DEF ColumnValue, ValueIn
  <2> QED
    BY <2>1, <2>2 DEF GotInv
<1> SUFFICES ASSUME IInv, [Next]_vars, NEW u \in Txn, got'[u] # NoValue
             PROVE  got'[u].at.space \in 1..space' /\ ValueIn(spaces', got'[u])
  BY <1>a
<1>0. Kept /\ space \in Nat /\ space' \in Nat /\ space <= Len(spaces) /\ got \in [Txn -> Value]
      /\ Len(spaces) \in Nat
  <2>1. TypeOK /\ TypeOK' /\ Kept
    BY Keeps, TypeStep DEF IInv
  <2>2. space \in Nat /\ space' \in Nat /\ space <= Len(spaces) /\ Len(spaces) \in Nat
    BY <2>1 DEF TypeOK
  <2> QED
    BY <2>1, <2>2 DEF TypeOK
<1>1. ASSUME NEW g, g.at.space \in 1..space, ValueIn(spaces, g)
      PROVE  g.at.space \in 1..space' /\ ValueIn(spaces', g)
  <2>1. g.at.space \in 1..space' /\ spaces'[g.at.space] = spaces[g.at.space]
    BY <1>0, <1>1 DEF Kept
  <2> QED
    BY <1>1, <2>1 DEF ValueIn
<1>2. CASE got'[u] = got[u]
  <2>1. got[u].at.space \in 1..space /\ ValueIn(spaces, got[u])
    BY <1>2 DEF IInv, GotInv, ColumnValue, ValueIn
  <2> QED
    BY <1>1, <1>2, <2>1, Zenon
<1>3. CASE Extract(u)
  <2>1. got'[u].at.space \in 1..space /\ ValueIn(spaces, got'[u])
    BY <1>3, ExtractStep
  <2>2. UNCHANGED <<spaces, space>>
    BY <1>3 DEF Extract, dataVars, defVars
  <2> QED
    BY <2>1, <2>2 DEF ValueIn
<1>4. ASSUME NEW t \in Txn, Extract(t), t # u PROVE got'[u] = got[u]
  BY <1>0, <1>4 DEF Extract
<1>5. ASSUME NEW t \in Txn, Leave(t) PROVE got'[u] = got[u]
  BY <1>0, <1>5 DEF Leave
<1>6. ASSUME NEW t \in Txn, NEW a \in Addr, Enter(t, a) PROVE got'[u] = got[u]
  BY <1>6 DEF Enter
<1>7. CASE Readers
  BY <1>2, <1>3, <1>4, <1>5, <1>6, <1>7 DEF Readers
<1>8. CASE Files \/ Loader
  BY <1>2, <1>8 DEF Files, Write, Vanish, Return, Loader, LoadContent, LoadStatus, readVars
<1>9. CASE Parse
  BY <1>2, <1>9 DEF Parse, ParseEnd, SkipLine, BeginDefine, EndDefine, ParseRow, ParseFails, readVars
<1>10. CASE Task
  BY <1>2, <1>10 DEF Task, TooEarly, Due, Status, Load, Publish, KeepTime, readVars
<1>11. CASE UNCHANGED vars
  BY <1>2, <1>11 DEF vars, readVars
<1> QED
  BY <1>7, <1>8, <1>9, <1>10, <1>11 DEF Next

-----------------------------------------------------------------------------
LEMMA Initially == Init => IInv
<1> SUFFICES ASSUME Init PROVE IInv
  OBVIOUS
<1>1. TypeOK
  <2>1. NoValue \in Value
    BY DEF Value
  <2>2. 1 \in Version /\ 0 \in 0..Len(File)
    BY FileAssumption, FileLines DEF Version
  <2>3. Keys \in Seq(Tag)
    BY FileAssumption
  <2>4. /\ <<>> \in Seq([ver : Version, rows : [Addr -> Row \cup {NoRow}]])
        /\ <<>> \in Seq(Active) /\ <<>> \in Seq(Active \cup {Inactive})
    OBVIOUS
  <2>5. /\ disk \in Version /\ access \in {"full", "status", "none"} /\ tags \in Seq(Tag)
        /\ defining \in BOOLEAN /\ lastMod \in 0..Len(File) /\ mtime \in 0..Len(File)
        /\ pc \in Loading /\ early \in BOOLEAN /\ checked \in BOOLEAN /\ line \in Nat
    BY <2>2, <2>3 DEF Init, Loading
  <2>6. space \in 0..Len(spaces)
    BY DEF Init
  <2>7. /\ store \in [Txn -> Active \cup {Inactive}] /\ saved \in [Txn -> Seq(Active \cup {Inactive})]
        /\ scope \in [Txn -> Seq(Active)] /\ got \in [Txn -> Value]
    BY <2>1, <2>4 DEF Init
  <2>8. spaces \in Seq([ver : Version, rows : [Addr -> Row \cup {NoRow}]])
    BY <2>4 DEF Init
  <2> QED
    BY <2>5, <2>6, <2>7, <2>8 DEF TypeOK
<1>2. spaces = <<>> /\ space = 0 /\ pc = "loadContent" /\ tags = Keys /\ ~defining /\ ~checked
  BY DEF Init
<1>3. RowsKeepMeaning /\ NumbersInv /\ TagsInv /\ PlaceInv /\ SpaceComplete /\ TimeInv
  BY <1>2 DEF RowsKeepMeaning, NumbersInv, TagsInv, PlaceInv, SpaceComplete, TimeInv, Loading, Parsing
<1>4. ParseInv
  BY <1>2 DEF ParseInv, Parsing
<1>5. ScopeInv /\ GotInv
  BY DEF Init, ScopeInv, Nested, GotInv, ColumnValue
<1> QED
  BY <1>1, <1>3, <1>4, <1>5 DEF IInv

LEMMA Inductive == IInv /\ [Next]_vars => IInv'
  BY TypeStep, MeaningStep, NumbersStep, PlaceStep, ParseStep, CompleteStep, TimeStep,
     ScopeStep, GotStep DEF IInv

LEMMA Invariance == Spec => []IInv
  BY Initially, Inductive, PTL DEF Spec

\* Every state is of the right type.
THEOREM TypeCorrect == Spec => []TypeOK
  BY Invariance, PTL DEF IInv

\* What transactions look up is all of one valid version of the file.
THEOREM SpacesComplete == Spec => []SpaceComplete
  BY Invariance, PTL DEF IInv

\* Rows keep their meaning while the table of tags grows.
THEOREM MeaningKept == Spec => []RowsKeepMeaning
  BY Invariance, PTL DEF IInv

\* A column is the one of the row of the innermost modifier.
THEOREM ColumnsRight == Spec => []ColumnValue
<1>1. IInv => ColumnValue
  BY DEF IInv, GotInv
<1> QED
  BY <1>1, Invariance, PTL

\* A check that is over missed no write that came before it.
THEOREM NoneMissed == Spec => []NothingMissed
<1>1. IInv => NothingMissed
  BY DEF IInv, TimeInv, NothingMissed
<1> QED
  BY <1>1, Invariance, PTL
=============================================================================
