--------------------------- MODULE DoneTable_proofs ---------------------------
(***************************************************************************)
(* Theorems about the table of what was downloaded, for tables of any      *)
(* size, any files and any number of downloads and requests: one row for a *)
(* file, what is shown of the table, the bound that trimming keeps, and    *)
(* the content of local copies.                                            *)
(***************************************************************************)
EXTENDS DoneTable, FiniteSetTheorems, WellFoundedInduction, TLAPS

USE PathAssumption, MaxAssumption, BoundAssumption, FaultAssumption

-----------------------------------------------------------------------------
(***************************************************************************)
(* The least of some numbers.                                              *)
(***************************************************************************)
LEMMA Least ==
    ASSUME NEW S \in SUBSET Nat, S # {}
    PROVE  \E i \in S : \A j \in S : i <= j
<1>1. PICK i \in S : \A j \in S : ~ (<<j, i>> \in OpToRel(<, Nat))
    BY NatLessThanWellFounded, WFMin
<1>2. ASSUME NEW j \in S PROVE i <= j
    <2>1. i \in Nat /\ j \in Nat
        OBVIOUS
    <2>2. j < i => <<j, i>> \in OpToRel(<, Nat)
        BY <2>1 DEF OpToRel
    <2>3. ~ (j < i)
        BY <1>1, <2>2
    <2> QED BY <2>1, <2>3
<1> QED BY <1>2

LEMMA Greatest ==
    ASSUME NEW n \in Nat, NEW S \in SUBSET (0 .. n), S # {}
    PROVE  \E i \in S : \A j \in S : j <= i
<1> DEFINE T == {k \in Nat : n - k \in S}
<1>1. PICK i \in S : TRUE
    OBVIOUS
<1>2. n - i \in T
    BY n - (n - i) = i
<1>3. PICK k \in T : \A m \in T : k <= m
    BY <1>2, Least
<1>4. ASSUME NEW j \in S PROVE j <= n - k
    <2>1. n - j \in T
        BY n - (n - j) = j
    <2> QED BY <1>3, <2>1
<1> QED BY <1>3, <1>4

LEMMA FirstIn ==
    ASSUME NEW S \in SUBSET Id, S # {}
    PROVE  First(S) \in S
<1>1. S \in SUBSET Nat
    BY DEF Id
<1>2. \E i \in S : \A j \in S : i <= j
    BY <1>1, Least
<1> QED BY <1>2 DEF First

-----------------------------------------------------------------------------
(***************************************************************************)
(* Types, the record in hand, and the rows.                                *)
(***************************************************************************)
Row    == [path : Path \union {NoPath}, ltime : 0 .. MaxWrites]
Source == [path : Path \union {NoPath}, sfd : File]
Stage  == {"idle", "open", "copy", "aside", "rename", "download",
           "select", "write", "count", "trim", "delete"}

Types ==
    /\ done \in [Id -> Row] /\ nextId \in 1 .. MaxId + 1 /\ now \in 0 .. MaxWrites
    /\ disk \in [Path -> File] /\ tmp \in File
    /\ pc \in Stage /\ task \in Path \union {NoPath} /\ source \in Source
    /\ qrecord \in 0 .. MaxId /\ writes \in 0 .. MaxWrites /\ ops \in 0 .. MaxOps
    /\ fresh \subseteq Path /\ condemned \in Path \union {NoPath}

\* What the control thread has in hand
StageInv ==
    /\ now <= writes
    /\ pc # "idle" => task \in Path
    /\ pc \notin {"idle", "count", "trim", "delete"} => writes < MaxWrites
    /\ pc = "open" => source.path \in Path
    /\ pc = "delete" => qrecord < nextId

\* The IDs of the rows were handed out, a path has one row, and a row that is
\* about to be inserted is the only one of its path.
RowInv ==
    /\ \A i \in Rows : i < nextId /\ done[i].ltime <= now
    /\ \A i, j \in Rows : done[i].path = done[j].path => i = j
    /\ pc = "write" /\ qrecord = 0 => \A i \in Rows : done[i].path # task

BaseInv == Types /\ StageInv /\ RowInv

LEMMA InitBase == Init => BaseInv
<1> SUFFICES ASSUME Init PROVE BaseInv
    OBVIOUS
<1>1. NoRow \in Row /\ NoSource \in Source
    BY DEF NoRow, NoSource, Row, Source, File
<1>2. Types
    BY <1>1 DEF Init, Types, File, Stage
<1>3. Rows = {}
    BY DEF Init, Rows, NoRow
<1> QED BY <1>2, <1>3 DEF BaseInv, StageInv, RowInv, Init

LEMMA RowsType == ASSUME Types PROVE Rows \subseteq Id /\ \A i \in Rows : done[i].path \in Path
BY DEF Types, Rows, Row

\* Rows are removed, at most.
Shrinks == Rows' \subseteq Rows /\ \A i \in Rows' : done'[i] = done[i]

LEMMA Removed ==
    ASSUME Types, NEW D, done' = [i \in Id |-> IF i \in D THEN NoRow ELSE done[i]]
    PROVE  Rows' = Rows \ D /\ Shrinks /\ done' \in [Id -> Row]
<1>1. \A i \in Id : done'[i] = IF i \in D THEN NoRow ELSE done[i]
    OBVIOUS
<1>2. Rows' = Rows \ D
    BY <1>1 DEF Rows, NoRow
<1>3. done' \in [Id -> Row]
    <2>1. NoRow \in Row
        BY DEF NoRow, Row
    <2>2. \A i \in Id : (IF i \in D THEN NoRow ELSE done[i]) \in Row
        BY <2>1 DEF Types
    <2> QED BY <2>2
<1> QED BY <1>1, <1>2, <1>3 DEF Shrinks, Rows

\* What the steps do that leave the table alone or remove rows
LEMMA Removals ==
    ASSUME Types, [Next]_vars, ~ WriteRow
    PROVE  /\ Shrinks /\ done' \in [Id -> Row]
           /\ UNCHANGED <<nextId, now, writes>> /\ fresh' \subseteq fresh
<1> USE DEF table, files, local, web
<1>1. CASE UNCHANGED <<table, fresh, writes>>
    BY <1>1 DEF Shrinks, Rows, Types
<1>2. CASE DeleteOld
    <2>1. done' = [i \in Id |-> IF i \in 1 .. qrecord - 1 THEN NoRow ELSE done[i]]
        BY <1>2 DEF DeleteOld, Types, Id
    <2> QED BY <1>2, <2>1, Removed DEF DeleteOld
<1>3. CASE DelrecordAll
    <2>1. done' = [i \in Id |-> IF i \in Id THEN NoRow ELSE done[i]]
        BY <1>3 DEF DelrecordAll
    <2> QED BY <1>3, <2>1, Removed DEF DelrecordAll
<1>4. ASSUME NEW p \in Path, NEW truedel \in 0 .. 1, DelrecordSingle(p, truedel)
      PROVE  /\ Shrinks /\ done' \in [Id -> Row]
             /\ UNCHANGED <<nextId, now, writes>> /\ fresh' \subseteq fresh
    <2>1. done' = [i \in Id |-> IF i \in {j \in Id : done[j].path = p} THEN NoRow ELSE done[i]]
        BY <1>4 DEF DelrecordSingle
    <2> QED BY <1>4, <2>1, Removed DEF DelrecordSingle
<1>5. CASE Control
    <2>1. CASE \E p \in Path : pcs_download_chk_same_md5(p)
        BY <1>1, <2>1 DEF pcs_download_chk_same_md5
    <2>2. CASE OpenBoth \/ CopyFile \/ MoveAside \/ RenameTmp \/ Download
        BY <1>1, <2>2 DEF OpenBoth, CopyFile, MoveAside, RenameTmp, Download
    <2>3. CASE sql_get_done_record \/ CountRows \/ FindPivot
        BY <1>1, <2>3 DEF sql_get_done_record, CountRows, FindPivot
    <2> QED BY <1>2, <1>5, <2>1, <2>2, <2>3 DEF Control
<1>6. CASE RemoveDone \/ DeleteTmp \/ \E p \in Path : \E f \in UserMay(p) : UserFile(p, f)
    BY <1>1, <1>6 DEF RemoveDone, DeleteTmp, UserFile
<1>7. CASE UNCHANGED vars
    BY <1>1, <1>7 DEF vars
<1> QED BY <1>3, <1>4, <1>5, <1>6, <1>7 DEF Next

\* What a row that is written looks like
LEMMA Written ==
    ASSUME BaseInv, WriteRow
    PROVE  \E t \in {now + 1} \union (IF "burst" \in Faults THEN {now} ELSE {}) :
             /\ now' = t /\ t \in 0 .. MaxWrites /\ t <= writes'
             /\ \/ /\ qrecord = 0 /\ nextId \in Id /\ nextId \notin Rows /\ nextId' = nextId + 1
                   /\ done' = [i \in Id |-> IF i = nextId THEN [path |-> task, ltime |-> t]
                                            ELSE done[i]]
                   /\ Rows' = Rows \union {nextId} /\ fresh' = {task}
                \/ /\ qrecord \in Rows /\ nextId' = nextId
                   /\ done' = [i \in Id |-> IF i = qrecord
                                            THEN [path |-> done[qrecord].path, ltime |-> t]
                                            ELSE done[i]]
                   /\ Rows' = Rows /\ fresh' = {}
                \/ /\ qrecord # 0 /\ qrecord \notin Rows /\ nextId' = nextId
                   /\ done' = done /\ Rows' = Rows /\ fresh' = {}
<1> USE DEF BaseInv
<1>1. PICK t \in {now + 1} \union (IF "burst" \in Faults THEN {now} ELSE {}) :
        /\ now' = t
        /\ done' = IF qrecord = 0 THEN [done EXCEPT ![nextId] = [path |-> task, ltime |-> t]]
                   ELSE IF qrecord \in Rows THEN [done EXCEPT ![qrecord].ltime = t] ELSE done
    BY DEF WriteRow
<1>2. t \in 0 .. MaxWrites /\ t <= writes'
    BY DEF WriteRow, Types, StageInv
<1>3. task \in Path
    BY DEF WriteRow, StageInv
<1>4. CASE qrecord = 0
    <2>1. nextId \in Id /\ nextId \notin Rows /\ nextId' = nextId + 1 /\ fresh' = {task}
        BY <1>4 DEF WriteRow, Types, RowInv, Id
    <2>2. done' = [i \in Id |-> IF i = nextId THEN [path |-> task, ltime |-> t] ELSE done[i]]
        BY <1>1, <1>4, <2>1 DEF Types
    <2>3. Rows' = Rows \union {nextId}
        BY <1>3, <2>1, <2>2 DEF Rows
    <2> QED BY <1>1, <1>2, <1>4, <2>1, <2>2, <2>3
<1>5. CASE qrecord # 0 /\ qrecord \in Rows
    <2>1. nextId' = nextId /\ fresh' = {}
        BY <1>5 DEF WriteRow
    <2>2. qrecord \in Id /\ done[qrecord] \in Row
        BY <1>5 DEF Types, Rows
    <2>3. [done[qrecord] EXCEPT !.ltime = t] = [path |-> done[qrecord].path, ltime |-> t]
        BY <2>2 DEF Row
    <2>4. done' = [done EXCEPT ![qrecord] = [done[qrecord] EXCEPT !.ltime = t]]
        BY <1>1, <1>5
    <2>5. done' = [i \in Id |-> IF i = qrecord THEN [path |-> done[qrecord].path, ltime |-> t]
                                ELSE done[i]]
        BY <2>2, <2>3, <2>4 DEF Types
    <2>6. Rows' = Rows
        BY <1>5, <2>5 DEF Rows
    <2> QED BY <1>1, <1>2, <1>5, <2>1, <2>5, <2>6
<1>6. CASE qrecord # 0 /\ qrecord \notin Rows
    BY <1>1, <1>2, <1>6 DEF WriteRow, Rows
<1> QED BY <1>1, <1>4, <1>5, <1>6

LEMMA TypesStep == BaseInv /\ [Next]_vars => Types' /\ StageInv'
<1> SUFFICES ASSUME BaseInv, [Next]_vars PROVE Types' /\ StageInv'
    OBVIOUS
<1> USE DEF BaseInv, table, files, local, web
<1>1. ASSUME NEW p \in Path, pcs_download_chk_same_md5(p) PROVE Types' /\ StageInv'
    <2> DEFINE same == {i \in Rows : SameMd5(done[i].path, p)}
    <2>1. pc' = "open" => source' = [path |-> done[First(same)].path, sfd |-> "none"] /\ same # {}
        BY <1>1 DEF pcs_download_chk_same_md5, NoSource
    <2>2. same \subseteq Id /\ \A i \in same : done[i].path \in Path
        BY RowsType
    <2> HIDE DEF same
    <2>3. pc' = "open" => done[First(same)].path \in Path
        BY <2>1, <2>2, FirstIn
    <2>4. pc' = "open" => source' \in Source /\ source'.path \in Path
        BY <2>1, <2>3 DEF Source, File
    <2>5. pc' \in {"open", "download"} /\ (pc' = "download" => source' = source) /\ task' = p
        BY <1>1 DEF pcs_download_chk_same_md5
    <2>6. UNCHANGED <<done, nextId, now, disk, tmp, qrecord, writes, ops, condemned, fresh>>
          /\ writes < MaxWrites
        BY <1>1 DEF pcs_download_chk_same_md5
    <2> QED BY <2>4, <2>5, <2>6 DEF Types, StageInv, Stage
<1>2. CASE OpenBoth
    <2>1. disk[source.path] \in File /\ "cut" \in File
        BY <1>2 DEF OpenBoth, StageInv, Types, File
    <2>2. [source EXCEPT !.sfd = disk[source.path]] \in Source
        BY <2>1 DEF Types, Source
    <2> QED BY <1>2, <2>1, <2>2 DEF OpenBoth, Types, StageInv, Stage
<1>3. CASE CopyFile
    <2>1. [source EXCEPT !.sfd = "none"] \in Source /\ source.sfd \in File /\ "none" \in File
        BY DEF Types, Source, File
    <2> QED BY <1>3, <2>1 DEF CopyFile, Types, StageInv, Stage
<1>4. CASE MoveAside \/ RenameTmp \/ Download
    <2>1. "none" \in File /\ "good" \in File
        BY DEF File
    <2>2. tmp' \in File /\ disk' \in [Path -> File]
        BY <1>4, <2>1 DEF MoveAside, RenameTmp, Download, Types
    <2> QED BY <1>4, <2>2 DEF MoveAside, RenameTmp, Download, Types, StageInv, Stage
<1>5. CASE sql_get_done_record
    <2>1. RowsOf(task) # {} => First(RowsOf(task)) \in Id
        BY RowsType, FirstIn DEF RowsOf
    <2>2. qrecord' \in 0 .. MaxId
        BY <1>5, <2>1 DEF sql_get_done_record, Id
    <2> QED BY <1>5, <2>2 DEF sql_get_done_record, Then, Types, StageInv, Stage
<1>6. CASE WriteRow
    <2>1. PICK t \in 0 .. MaxWrites : now' = t /\ t <= writes'
        BY <1>6, Written
    <2>2. task \in Path
        BY <1>6 DEF WriteRow, StageInv
    <2>3. done' \in [Id -> Row] /\ nextId' \in 1 .. MaxId + 1 /\ fresh' \subseteq Path
        <3>1. PICK u \in {now + 1} \union (IF "burst" \in Faults THEN {now} ELSE {}) :
                /\ u \in 0 .. MaxWrites
                /\ \/ /\ nextId \in Id /\ nextId' = nextId + 1
                      /\ done' = [i \in Id |-> IF i = nextId THEN [path |-> task, ltime |-> u]
                                               ELSE done[i]]
                      /\ fresh' = {task}
                   \/ /\ qrecord \in Rows /\ nextId' = nextId
                      /\ done' = [i \in Id |-> IF i = qrecord
                                               THEN [path |-> done[qrecord].path, ltime |-> u]
                                               ELSE done[i]]
                      /\ fresh' = {}
                   \/ nextId' = nextId /\ done' = done /\ fresh' = {}
            BY <1>6, Written
        <3>2. [path |-> task, ltime |-> u] \in Row
            BY <2>2, <3>1 DEF Row
        <3>3. qrecord \in Rows => [path |-> done[qrecord].path, ltime |-> u] \in Row
            BY <3>1, RowsType DEF Row
        <3>4. nextId' \in 1 .. MaxId + 1 /\ fresh' \subseteq Path
            BY <2>2, <3>1 DEF Types, Id
        <3>5. \A i \in Id : done[i] \in Row
            BY DEF Types
        <3>6. CASE done' = [i \in Id |-> IF i = nextId THEN [path |-> task, ltime |-> u]
                                         ELSE done[i]]
            BY <3>2, <3>4, <3>5, <3>6
        <3>7. CASE qrecord \in Rows
                   /\ done' = [i \in Id |-> IF i = qrecord
                                            THEN [path |-> done[qrecord].path, ltime |-> u]
                                            ELSE done[i]]
            BY <3>3, <3>4, <3>5, <3>7
        <3>8. CASE done' = done
            BY <3>4, <3>8 DEF Types
        <3> QED BY <3>1, <3>6, <3>7, <3>8
    <2>4. /\ writes' \in 0 .. MaxWrites /\ pc' = "count"
          /\ UNCHANGED <<disk, tmp, task, source, qrecord, ops, condemned>>
        BY <1>6 DEF WriteRow, Types, StageInv
    <2> QED BY <2>1, <2>2, <2>3, <2>4 DEF Types, StageInv, Stage
<1>7. CASE CountRows
    BY <1>7 DEF CountRows, Then, Types, StageInv, Stage
<1>8. CASE FindPivot
    <2>1. qrecord' = qrecord \/ (qrecord' \in Rows /\ qrecord' < nextId)
        BY <1>8 DEF FindPivot, RowInv
    <2>2. pc' = "delete" => qrecord' < nextId
        BY <1>8, <2>1 DEF FindPivot, Then, RowInv
    <2>3. qrecord' \in 0 .. MaxId
        BY <2>1, RowsType DEF Id, Types
    <2> QED BY <1>8, <2>2, <2>3 DEF FindPivot, Then, Types, StageInv, Stage
<1>9. CASE DeleteOld
    <2>1. done' \in [Id -> Row]
        BY <1>9, Removals DEF DeleteOld, WriteRow
    <2> QED BY <1>9, <2>1 DEF DeleteOld, Types, StageInv, Stage
<1>10. CASE DelrecordAll \/ \E p \in Path, truedel \in 0 .. 1 : DelrecordSingle(p, truedel)
    <2>1. done' \in [Id -> Row]
        <3>1. ~ WriteRow
            BY <1>10 DEF DelrecordAll, DelrecordSingle, Request, Op, WriteRow, Types
        <3> QED BY <3>1, Removals
    <2>2. ops' \in 0 .. MaxOps /\ fresh' \subseteq Path
        BY <1>10 DEF DelrecordAll, DelrecordSingle, Request, Op, Types
    <2> QED BY <1>10, <2>1, <2>2 DEF DelrecordAll, DelrecordSingle, Types, StageInv
<1>11. CASE RemoveDone \/ DeleteTmp
    <2>1. ops' \in 0 .. MaxOps
        BY <1>11 DEF RemoveDone, DeleteTmp, Request, Op, Types
    <2> QED BY <1>11, <2>1 DEF RemoveDone, DeleteTmp, Types, StageInv, File
<1>12. ASSUME NEW p \in Path, NEW f \in UserMay(p), UserFile(p, f) PROVE Types' /\ StageInv'
    <2>1. f \in File
        BY DEF UserMay, File
    <2>2. source' \in Source /\ source'.path = source.path
        <3>1. source \in Source /\ source' \in {source, InPlace(p, f)}
            BY <1>12 DEF UserFile, Types
        <3>2. InPlace(p, f) \in Source /\ InPlace(p, f).path = source.path
            BY <2>1, <3>1 DEF InPlace, Source
        <3> QED BY <3>1, <3>2
    <2>3. disk' \in [Path -> File] /\ ops' \in 0 .. MaxOps
        BY <1>12, <2>1 DEF UserFile, Op, Types
    <2> QED BY <1>12, <2>2, <2>3 DEF UserFile, Types, StageInv
<1>13. CASE UNCHANGED vars
    BY <1>13 DEF vars, Types, StageInv
<1> QED BY <1>1, <1>2, <1>3, <1>4, <1>5, <1>6, <1>7, <1>8, <1>9, <1>10, <1>11, <1>12, <1>13
        DEF Next, Control

LEMMA RowStep == BaseInv /\ [Next]_vars => RowInv'
<1> SUFFICES ASSUME BaseInv, [Next]_vars PROVE RowInv'
    OBVIOUS
<1> USE DEF BaseInv
<1>1. Types' /\ StageInv'
    BY TypesStep
<1>2. CASE WriteRow
    <2>1. PICK t \in {now + 1} \union (IF "burst" \in Faults THEN {now} ELSE {}) :
            /\ now' = t /\ t \in 0 .. MaxWrites
            /\ \/ /\ qrecord = 0 /\ nextId \in Id /\ nextId' = nextId + 1
                  /\ done' = [i \in Id |-> IF i = nextId THEN [path |-> task, ltime |-> t]
                                           ELSE done[i]]
                  /\ Rows' = Rows \union {nextId}
               \/ /\ qrecord \in Rows /\ nextId' = nextId
                  /\ done' = [i \in Id |-> IF i = qrecord
                                           THEN [path |-> done[qrecord].path, ltime |-> t]
                                           ELSE done[i]]
                  /\ Rows' = Rows
               \/ nextId' = nextId /\ done' = done /\ Rows' = Rows
        BY <1>2, Written
    <2>2. now <= t /\ now \in Nat /\ t \in Nat /\ nextId \in Nat
        BY <2>1 DEF Types
    <2>3. pc = "write" /\ pc' = "count"
        BY <1>2 DEF WriteRow
    <2>4. \A i \in Rows : i \in Id /\ i \in Nat /\ done[i].ltime \in Nat
        BY RowsType DEF Id, Types, Row
    <2>5. CASE /\ qrecord = 0 /\ nextId \in Id /\ nextId' = nextId + 1
               /\ done' = [i \in Id |-> IF i = nextId THEN [path |-> task, ltime |-> t]
                                        ELSE done[i]]
               /\ Rows' = Rows \union {nextId}
        <3>1. \A i \in Rows : i # nextId /\ done'[i] = done[i] /\ done[i].path # task
            BY <2>3, <2>4, <2>5 DEF RowInv
        <3>2. done'[nextId].path = task /\ done'[nextId].ltime = t
            BY <2>5
        <3> QED BY <2>1, <2>2, <2>3, <2>4, <2>5, <3>1, <3>2 DEF RowInv
    <2>6. CASE /\ qrecord \in Rows /\ nextId' = nextId
               /\ done' = [i \in Id |-> IF i = qrecord
                                        THEN [path |-> done[qrecord].path, ltime |-> t]
                                        ELSE done[i]]
               /\ Rows' = Rows
        <3>1. \A i \in Rows : done'[i].path = done[i].path /\ done'[i].ltime \in {t, done[i].ltime}
            BY <2>4, <2>6
        <3> QED BY <2>1, <2>2, <2>3, <2>4, <2>6, <3>1 DEF RowInv
    <2>7. CASE nextId' = nextId /\ done' = done /\ Rows' = Rows
        BY <2>1, <2>2, <2>3, <2>4, <2>7 DEF RowInv
    <2> QED BY <2>1, <2>5, <2>6, <2>7
<1>3. CASE ~ WriteRow
    <2>1. Shrinks /\ UNCHANGED <<nextId, now>>
        BY <1>3, Removals
    <2>2. /\ \A i \in Rows' : i < nextId' /\ done'[i].ltime <= now'
          /\ \A i, j \in Rows' : done'[i].path = done'[j].path => i = j
        BY <2>1 DEF Shrinks, RowInv
    <2>3. ASSUME pc' = "write", qrecord' = 0
          PROVE  \A i \in Rows' : done'[i].path # task'
        <3>1. CASE sql_get_done_record
            <4>1. RowsOf(task) = {}
                <5>1. RowsOf(task) # {} => First(RowsOf(task)) \in Id
                    BY RowsType, FirstIn DEF RowsOf
                <5> QED BY <2>3, <3>1, <5>1 DEF sql_get_done_record, Id
            <4>2. \A i \in Rows : done[i].path # task
                BY <4>1 DEF RowsOf
            <4> QED BY <2>1, <3>1, <4>2 DEF sql_get_done_record, Shrinks
        <3>2. CASE pc = "write" /\ UNCHANGED <<task, qrecord>>
            BY <2>1, <2>3, <3>2 DEF RowInv, Shrinks
        <3>3. CASE pc' = pc /\ UNCHANGED <<task, qrecord>>
            BY <2>3, <3>2, <3>3
        <3> QED BY <1>3, <2>3, <3>1, <3>3
                DEF Next, Control, vars, local, pcs_download_chk_same_md5, OpenBoth, CopyFile, MoveAside,
                    RenameTmp, Download, CountRows, FindPivot, DeleteOld, Then, DelrecordAll,
                    DelrecordSingle, RemoveDone, DeleteTmp, UserFile
    <2> QED BY <2>2, <2>3 DEF RowInv
<1> QED BY <1>2, <1>3

\* The control thread and the table, for every set of faults
THEOREM BaseInvariant == Spec => []BaseInv
<1>1. Init => BaseInv
    BY InitBase
<1>2. BaseInv /\ [Next]_vars => BaseInv'
    BY TypesStep, RowStep DEF BaseInv
<1> QED BY <1>1, <1>2, PTL DEF Spec

\* The type invariant: above all, a path never has two rows, though requests
\* remove rows between the search for a row and its insertion, and the IDs of
\* the rows are those that were handed out.
THEOREM TypeCorrect == Spec => []TypeOK
<1>1. BaseInv => TypeOK
    <2> SUFFICES ASSUME BaseInv PROVE TypeOK
        OBVIOUS
    <2>1. \A i \in Rows : i < nextId /\ RowsOf(done[i].path) = {i}
        BY DEF BaseInv, RowInv, RowsOf
    <2> QED BY <2>1 DEF BaseInv, Types, TypeOK, Row, Source, Stage
<1> QED BY <1>1, BaseInvariant, PTL

-----------------------------------------------------------------------------
(***************************************************************************)
(* What is shown of the table.                                             *)
(***************************************************************************)
\* A row that was inserted last has the greatest ID.
FreshInv == \A p \in fresh : RowsOf(p) = {nextId - 1}

LEMMA FreshStep == BaseInv /\ FreshInv /\ [Next]_vars => FreshInv'
<1> SUFFICES ASSUME BaseInv, FreshInv, [Next]_vars PROVE FreshInv'
    OBVIOUS
<1>1. nextId \in Nat /\ Types
    BY DEF BaseInv, Types
<1>2. CASE WriteRow
    <2>1. \/ fresh' = {}
          \/ /\ qrecord = 0 /\ nextId \in Id /\ nextId' = nextId + 1 /\ fresh' = {task}
             /\ done' = [i \in Id |-> IF i = nextId THEN [path |-> task, ltime |-> now']
                                      ELSE done[i]]
             /\ Rows' = Rows \union {nextId}
        BY <1>2, Written
    <2>2. CASE fresh' = {}
        BY <2>2 DEF FreshInv
    <2>3. CASE fresh' # {}
        <3>1. \A i \in Rows : i \in Id /\ i # nextId /\ done[i].path # task
            BY <1>1, <1>2, <2>1, <2>3, RowsType DEF BaseInv, RowInv, WriteRow
        <3>2. \A i \in Rows' : done'[i].path = task <=> i = nextId
            BY <2>1, <2>3, <3>1
        <3>3. {i \in Rows' : done'[i].path = task} = {nextId}
            BY <2>1, <2>3, <3>2
        <3> QED BY <1>1, <2>1, <2>3, <3>3 DEF FreshInv, RowsOf
    <2> QED BY <2>2, <2>3
<1>3. CASE ~ WriteRow
    <2>1. Shrinks /\ nextId' = nextId /\ fresh' \subseteq fresh
        BY <1>1, <1>3, Removals
    <2>2. nextId - 1 \in Rows' \/ fresh' = {} \/
          \E p \in Path : fresh' = fresh \ {p} /\ \A i \in Rows : done[i].path # p => i \in Rows'
        <3>1. CASE DeleteOld
            <4>1. done' = [i \in Id |-> IF i \in {j \in Id : j < qrecord} THEN NoRow ELSE done[i]]
                BY <3>1 DEF DeleteOld
            <4>2. Rows' = Rows \ {j \in Id : j < qrecord}
                BY <1>1, <4>1, Removed
            <4>3. qrecord < nextId /\ qrecord \in Nat
                BY <3>1 DEF DeleteOld, BaseInv, StageInv, Types
            <4>4. ASSUME NEW p \in fresh' PROVE nextId - 1 \in Rows'
                <5>1. nextId - 1 \in Rows
                    BY <2>1, <4>4 DEF FreshInv, RowsOf
                <5> QED BY <1>1, <4>2, <4>3, <5>1
            <4> QED BY <4>4
        <3>2. CASE DelrecordAll
            BY <3>2 DEF DelrecordAll
        <3>3. ASSUME NEW p \in Path, NEW truedel \in 0 .. 1, DelrecordSingle(p, truedel)
              PROVE  /\ fresh' = fresh \ {p}
                     /\ \A i \in Rows : done[i].path # p => i \in Rows'
            <4>1. done' = [i \in Id |-> IF i \in {j \in Id : done[j].path = p} THEN NoRow
                                        ELSE done[i]]
                BY <3>3 DEF DelrecordSingle
            <4>2. Rows' = Rows \ {j \in Id : done[j].path = p}
                BY <1>1, <4>1, Removed
            <4> QED BY <3>3, <4>2 DEF DelrecordSingle
        <3>4. CASE UNCHANGED <<done, fresh>>
            <4>1. ASSUME NEW p \in fresh' PROVE nextId - 1 \in Rows'
                BY <3>4, <4>1 DEF FreshInv, RowsOf, Rows
            <4> QED BY <4>1
        <3> QED BY <1>3, <3>1, <3>2, <3>3, <3>4
                DEF Next, Control, vars, table, pcs_download_chk_same_md5, OpenBoth, CopyFile, MoveAside,
                    RenameTmp, Download, sql_get_done_record, CountRows, FindPivot,
                    RemoveDone, DeleteTmp, UserFile
    <2>3. ASSUME NEW p \in fresh' PROVE RowsOf(p)' = {nextId' - 1}
        <3>1. RowsOf(p) = {nextId - 1} /\ p \in fresh
            BY <2>1, <2>3 DEF FreshInv
        <3>2. nextId - 1 \in Rows /\ done[nextId - 1].path = p
            BY <3>1 DEF RowsOf
        <3>3. nextId - 1 \in Rows'
            BY <2>2, <2>3, <3>2
        <3>4. \A i \in Rows' : i \in Rows /\ done'[i] = done[i]
            BY <2>1 DEF Shrinks
        <3>5. RowsOf(p)' = {i \in Rows' : done'[i].path = p}
            BY DEF RowsOf
        <3>6. \A i \in Rows' : done'[i].path = p <=> i = nextId - 1
            BY <3>1, <3>2, <3>4 DEF RowsOf
        <3> QED BY <2>1, <3>3, <3>5, <3>6
    <2> QED BY <2>3 DEF FreshInv
<1> QED BY <1>2, <1>3

\* A file recorded for the first time is in the list that is shown until the
\* next write, or until a request removes it, whatever row the trimming finds
\* in between, among the rows of one second too.
THEOREM FirstsShown == Spec => []FirstShown
<1>1. Init => FreshInv
    BY DEF Init, FreshInv
<1>2. BaseInv /\ FreshInv => FirstShown
    <2> SUFFICES ASSUME BaseInv, FreshInv, NEW p \in fresh
                 PROVE  RowsOf(p) # {} /\ RowsOf(p) \subseteq Donelist
        BY DEF FirstShown
    <2>1. RowsOf(p) = {nextId - 1}
        BY DEF FreshInv
    <2>2. nextId - 1 \in Rows
        BY <2>1 DEF RowsOf
    <2>3. \A j \in Rows : ~ (j > nextId - 1)
        BY RowsType DEF BaseInv, RowInv, Types, Id
    <2>4. {j \in Rows : j > nextId - 1} = {}
        BY <2>3
    <2>5. Cardinality({}) < Shown
        BY FS_EmptySet
    <2> QED BY <2>1, <2>2, <2>4, <2>5 DEF Donelist
<1> QED BY <1>1, <1>2, FreshStep, BaseInvariant, PTL DEF Spec

-----------------------------------------------------------------------------
(***************************************************************************)
(* The content of a local copy.                                            *)
(***************************************************************************)
\* What the user leaves alone: no file gets another content of its size, none
\* of that size is put where none was, none is exchanged between the look at its
\* size and its opening, and none is written to or cut in place while it is
\* copied.
Untampered == Faults \intersect {"edit", "userfile"} = {}

CopyInv ==
    /\ tmp # "user" /\ \A p \in Path : disk[p] # "user"
    /\ pc = "open" => disk[source.path] \in {"none", "good"}
    /\ pc = "copy" => source.sfd = "good"
    /\ CopyGood

LEMMA CopyStep == Untampered /\ BaseInv /\ CopyInv /\ [Next]_vars => CopyInv'
<1> SUFFICES ASSUME Untampered, BaseInv, CopyInv, [Next]_vars PROVE CopyInv'
    OBVIOUS
<1> USE DEF CopyInv, CopyGood, table, files, local, web
<1>1. /\ disk \in [Path -> File] /\ tmp \in File /\ source \in Source
      /\ pc # "idle" => task \in Path
      /\ pc = "open" => source.path \in Path
    BY DEF BaseInv, Types, StageInv
<1>2. ASSUME NEW p \in Path, pcs_download_chk_same_md5(p) PROVE CopyInv'
    <2> DEFINE same == {i \in Rows : SameMd5(done[i].path, p)}
    <2>1. \/ pc' = "download"
          \/ /\ pc' = "open" /\ RightSize(done[First(same)].path) /\ same # {}
             /\ source' = [path |-> done[First(same)].path, sfd |-> "none"]
        BY <1>2 DEF pcs_download_chk_same_md5, NoSource
    <2>2. same \subseteq Id /\ \A i \in same : done[i].path \in Path
        BY RowsType DEF BaseInv
    <2>3. UNCHANGED <<disk, tmp>>
        BY <1>2 DEF pcs_download_chk_same_md5
    <2> HIDE DEF same
    <2>4. CASE pc' = "open"
        <3>1. done[First(same)].path \in Path
            BY <2>1, <2>2, <2>4, FirstIn
        <3>2. disk[done[First(same)].path] = "good"
            BY <2>1, <2>4, <3>1 DEF RightSize
        <3> QED BY <2>1, <2>3, <2>4, <3>2
    <2> QED BY <2>1, <2>3, <2>4
<1>3. CASE OpenBoth
    <2>1. pc' = "copy" => source'.sfd = disk[source.path] /\ disk[source.path] # "none"
        BY <1>1, <1>3 DEF OpenBoth, Source
    <2> QED BY <1>1, <1>3, <2>1 DEF OpenBoth
<1>4. CASE CopyFile
    BY <1>1, <1>4 DEF CopyFile
<1>5. CASE MoveAside \/ RenameTmp \/ Download
    <2>1. \A p \in Path : disk'[p] # "user"
        BY <1>1, <1>5 DEF MoveAside, RenameTmp, Download
    <2>2. tmp' # "user" /\ (pc' = "rename" => tmp' \in {"none", "good"})
          /\ pc' \notin {"open", "copy", "aside"}
        BY <1>1, <1>5 DEF MoveAside, RenameTmp, Download
    <2> QED BY <2>1, <2>2
<1>6. CASE sql_get_done_record \/ WriteRow \/ CountRows \/ FindPivot \/ DeleteOld
    BY <1>6 DEF sql_get_done_record, WriteRow, CountRows, FindPivot, DeleteOld, Then
<1>7. CASE DelrecordAll \/ \E p \in Path, truedel \in 0 .. 1 : DelrecordSingle(p, truedel)
    BY <1>7 DEF DelrecordAll, DelrecordSingle
<1>8. CASE RemoveDone
    <2>1. \A p \in Path : disk'[p] \in {disk[p], "none"}
        BY <1>1, <1>8 DEF RemoveDone
    <2> QED BY <1>1, <1>8, <2>1 DEF RemoveDone
<1>9. CASE DeleteTmp
    BY <1>9 DEF DeleteTmp
<1>10. ASSUME NEW p \in Path, NEW f \in UserMay(p), UserFile(p, f) PROVE CopyInv'
    <2>1. f \in {"none", "cut"} /\ (pc = "open" /\ p = source.path => f = "none")
        BY DEF UserMay, Exchange, Untampered
    <2>2. disk' = [disk EXCEPT ![p] = f] /\ UNCHANGED <<tmp, pc, source>>
        BY <1>10, <2>1 DEF UserFile, Untampered
    <2> QED BY <1>1, <2>1, <2>2
<1>11. CASE UNCHANGED vars
    BY <1>11 DEF vars
<1> QED BY <1>2, <1>3, <1>4, <1>5, <1>6, <1>7, <1>8, <1>9, <1>10, <1>11 DEF Next, Control

\* Rows outlive their files, and the user removes files at any moment, replaces
\* and cuts them before they are looked at and puts others in the place of one
\* that is copied; yet a local copy that gets the name of a file has the cloud's
\* content, or is gone.  What is assumed not to happen (Untampered): that a file
\* is written to or cut in place while it is copied, exchanged between the look
\* at its size and its opening, or has the size and not the content.
THEOREM CopiesGood ==
    ASSUME Untampered
    PROVE  Spec => []CopyGood
<1>1. Init => CopyInv
    BY DEF Init, CopyInv, CopyGood
<1>2. BaseInv /\ CopyInv /\ [Next]_vars => CopyInv'
    BY CopyStep
<1>3. CopyInv => CopyGood
    BY DEF CopyInv
<1> QED BY <1>1, <1>2, <1>3, BaseInvariant, PTL DEF Spec

-----------------------------------------------------------------------------
(***************************************************************************)
(* The bound that trimming keeps.                                          *)
(***************************************************************************)
\* Statements succeed, and no two downloads are recorded in one second.
Steady == Faults \intersect {"sql", "burst"} = {}

Offset == Max - Shown
Size == Cardinality(Rows)
Newer(i) == {j \in Rows : done[j].ltime > done[i].ltime}
NoOlder(i) == {j \in Rows : done[j].ltime >= done[i].ltime}
Lowest(i) == \A j \in Rows : i <= j

\* The row with the lowest ID is older than n others, so that a pivot further
\* to the front in time is another row, above it, and this one goes.
Exposed(n) == \A i \in Rows : Lowest(i) => Cardinality(Newer(i)) >= n

TimeInv == \A i, j \in Rows : done[i].ltime = done[j].ltime => i = j

CountInv == Size <= Max + 1 /\ (Size = Max + 1 => Exposed(Offset + 1))

DeleteInv ==
    /\ CountInv
    /\ Size = Max + 1 => qrecord \in Rows /\ Pivot(qrecord)
    /\ Size = Max =>
          \A i \in Rows : Lowest(i) => i < qrecord \/ Cardinality(Newer(i)) >= Offset

RestInv == Size <= Max /\ (Size = Max => Exposed(Offset))

BoundInv ==
    /\ TimeInv
    /\ pc \in {"count", "trim"} => CountInv
    /\ pc = "delete" => DeleteInv
    /\ pc \notin {"count", "trim", "delete"} => RestInv

LEMMA OffsetType == Offset \in Nat /\ Offset < Max /\ Offset > 0 /\ Max \in Nat
BY DEF Offset

LEMMA FiniteRows ==
    ASSUME Types
    PROVE  /\ IsFiniteSet(Rows) /\ Size \in Nat
           /\ \A S \in SUBSET Rows : IsFiniteSet(S) /\ Cardinality(S) \in Nat /\ Cardinality(S) <= Size
<1>1. IsFiniteSet(Id)
    BY FS_Interval DEF Id
<1>2. IsFiniteSet(Rows)
    BY <1>1, RowsType, FS_Subset
<1>3. \A S \in SUBSET Rows : IsFiniteSet(S) /\ Cardinality(S) <= Cardinality(Rows)
    BY <1>2, FS_Subset
<1> QED BY <1>2, <1>3, FS_CardinalityType DEF Size

LEMMA RowTimes ==
    ASSUME Types
    PROVE  \A i \in Rows : i \in Nat /\ done[i].ltime \in 0 .. MaxWrites
BY DEF Types, Rows, Row, Id

\* There is a pivot whenever there are more rows than are passed over.
LEMMA PivotExists ==
    ASSUME Types, Size > Offset
    PROVE  \E i \in Rows : Pivot(i)
<1> DEFINE t(i) == done[i].ltime
           S == {i \in Rows : Cardinality(Newer(i)) <= Offset}
<1> USE OffsetType
<1>1. \A i \in Rows : t(i) \in 0 .. MaxWrites
    BY RowTimes
<1>2. Rows # {}
    BY FS_EmptySet DEF Size
<1>3. S # {}
    <2> DEFINE T == {t(i) : i \in Rows}
    <2>1. T \in SUBSET (0 .. MaxWrites) /\ T # {}
        BY <1>1, <1>2
    <2>2. PICK m \in T : \A n \in T : n <= m
        <3> HIDE DEF T
        <3> QED BY <2>1, Greatest
    <2>3. PICK i \in Rows : t(i) = m
        BY <2>2
    <2>4. \A j \in Rows : t(j) <= t(i)
        BY <2>2, <2>3
    <2>5. Newer(i) = {}
        BY <1>1, <2>4 DEF Newer
    <2> QED BY <2>3, <2>5, FS_EmptySet
<1>4. PICK i \in S : \A j \in S : t(i) <= t(j)
    <2> DEFINE T == {t(j) : j \in S}
    <2>1. T \in SUBSET Nat /\ T # {}
        BY <1>1, <1>3
    <2>2. PICK m \in T : \A n \in T : m <= n
        <3> HIDE DEF T
        <3> QED BY <2>1, Least
    <2> QED BY <2>2
<1>5. Cardinality(NoOlder(i)) > Offset
    <2> SUFFICES ASSUME ~ (Cardinality(NoOlder(i)) > Offset) PROVE FALSE
        OBVIOUS
    <2>1. NoOlder(i) \in SUBSET Rows
        BY DEF NoOlder
    <2>2. Cardinality(NoOlder(i)) <= Offset /\ IsFiniteSet(NoOlder(i))
        BY <2>1, FiniteRows
    <2> DEFINE U == Rows \ NoOlder(i)
               T == {t(j) : j \in U}
    <2>3. U # {}
        BY <2>1, <2>2 DEF Size
    <2>4. T \in SUBSET (0 .. MaxWrites) /\ T # {}
        BY <1>1, <2>3
    <2>5. PICK m \in T : \A n \in T : n <= m
        <3> HIDE DEF T
        <3> QED BY <2>4, Greatest
    <2>6. PICK u \in U : t(u) = m
        BY <2>5
    <2>7. \A j \in U : t(j) <= t(u)
        BY <2>5, <2>6
    <2>8. Newer(u) \subseteq NoOlder(i)
        BY <1>1, <2>7 DEF Newer
    <2>9. Cardinality(Newer(u)) <= Offset
        <3>1. Cardinality(Newer(u)) <= Cardinality(NoOlder(i))
            BY <2>2, <2>8, FS_Subset
        <3>2. Cardinality(Newer(u)) \in Nat /\ Cardinality(NoOlder(i)) \in Nat
            BY <2>1, FiniteRows DEF Newer
        <3> QED BY <2>2, <3>1, <3>2
    <2>10. t(u) < t(i)
        BY <1>1, <1>4 DEF NoOlder
    <2> QED BY <1>1, <1>4, <2>9, <2>10
<1>6. Cardinality(Newer(i)) <= Offset /\ i \in Rows
    BY <1>4
<1> HIDE DEF S, t
<1> QED BY <1>5, <1>6 DEF Pivot, Newer, NoOlder, Offset

\* The pivot is passed over by exactly Offset rows.
LEMMA PivotRank ==
    ASSUME Types, TimeInv, NEW i \in Rows, Pivot(i)
    PROVE  Cardinality(Newer(i)) = Offset
<1> USE OffsetType
<1>1. NoOlder(i) = Newer(i) \union {i} /\ i \notin Newer(i)
    BY RowTimes DEF NoOlder, Newer, TimeInv
<1>2. IsFiniteSet(Newer(i)) /\ Cardinality(Newer(i)) \in Nat
    BY FiniteRows DEF Newer
<1>3. Cardinality(NoOlder(i)) = Cardinality(Newer(i)) + 1
    BY <1>1, <1>2, FS_AddElement
<1>4. Cardinality(Newer(i)) <= Offset /\ Cardinality(NoOlder(i)) > Offset
    BY DEF Pivot, Newer, NoOlder, Offset
<1> QED BY <1>2, <1>3, <1>4

\* One row too many: the lowest lies below the pivot and is no newer.
LEMMA LowestGoes ==
    ASSUME Types, TimeInv, Exposed(Offset + 1), NEW q \in Rows, Pivot(q),
           NEW i \in Rows, Lowest(i)
    PROVE  i < q /\ i \notin Newer(q)
<1> USE OffsetType
<1>1. Cardinality(Newer(i)) >= Offset + 1 /\ Cardinality(Newer(q)) = Offset
    BY PivotRank DEF Exposed
<1>2. i <= q /\ i # q /\ i \in Nat /\ q \in Nat
    BY <1>1, RowTimes DEF Lowest
<1>3. i \notin Newer(q)
    <2> SUFFICES ASSUME i \in Newer(q) PROVE FALSE
        OBVIOUS
    <2>1. Newer(i) \subseteq Newer(q)
        BY RowTimes DEF Newer
    <2>2. IsFiniteSet(Newer(q)) /\ Cardinality(Newer(i)) \in Nat
        BY FiniteRows DEF Newer
    <2>3. Cardinality(Newer(i)) <= Cardinality(Newer(q))
        BY <2>1, <2>2, FS_Subset
    <2> QED BY <1>1, <2>2, <2>3
<1> QED BY <1>2, <1>3

LEMMA LowestExists ==
    ASSUME Types, Rows # {}
    PROVE  \E i \in Rows : Lowest(i)
<1>1. Rows \in SUBSET Nat
    BY RowTimes
<1> QED BY <1>1, Least DEF Lowest

\* Rows that stay, when others go, are as old as they were.
LEMMA Shrunk ==
    ASSUME Types, Types', Shrinks
    PROVE  /\ Size' <= Size /\ Size' \in Nat /\ Size \in Nat
           /\ \A i \in Rows' : Newer(i)' = Newer(i) \intersect Rows'
           /\ TimeInv => TimeInv'
           /\ Size' = Size => Rows' = Rows
<1>1. Rows' \subseteq Rows /\ \A i \in Rows' : done'[i] = done[i]
    BY DEF Shrinks
<1>2. IsFiniteSet(Rows) /\ Size \in Nat
    BY FiniteRows
<1>3. Size' \in Nat /\ Size' <= Size /\ (Size' = Size => Rows' = Rows)
    <2>1. Rows' \in SUBSET Rows
        BY <1>1
    <2>2. IsFiniteSet(Rows') /\ Cardinality(Rows') <= Cardinality(Rows)
          /\ (Cardinality(Rows) = Cardinality(Rows') => Rows = Rows')
        BY <1>2, <2>1, FS_Subset
    <2>3. Cardinality(Rows') \in Nat
        BY <2>2, FS_CardinalityType
    <2> QED BY <2>2, <2>3 DEF Size
<1>4. \A i \in Rows' : Newer(i)' = Newer(i) \intersect Rows'
    BY <1>1 DEF Newer
<1>5. TimeInv => TimeInv'
    BY <1>1 DEF TimeInv
<1> QED BY <1>2, <1>3, <1>4, <1>5

\* When none goes, all is as it was.
LEMMA SameRows ==
    ASSUME Types, Types', Shrinks, Rows' = Rows
    PROVE  /\ \A i \in Rows : Newer(i)' = Newer(i) /\ Lowest(i)' = Lowest(i)
           /\ Exposed(Offset) => Exposed(Offset)'
           /\ Exposed(Offset + 1) => Exposed(Offset + 1)'
           /\ \A i \in Rows : Pivot(i) => Pivot(i)'
<1>1. \A i \in Rows : done'[i] = done[i]
    BY DEF Shrinks
<1>2. \A i \in Rows : Newer(i)' = Newer(i) /\ NoOlder(i)' = NoOlder(i)
    BY <1>1 DEF Newer, NoOlder
<1>3. \A i \in Rows : Lowest(i)' = Lowest(i)
    BY DEF Lowest
<1>4. Exposed(Offset) => Exposed(Offset)'
    BY <1>2, <1>3 DEF Exposed, Offset
<1>5. Exposed(Offset + 1) => Exposed(Offset + 1)'
    BY <1>2, <1>3 DEF Exposed, Offset
<1>6. \A i \in Rows : Pivot(i) => Pivot(i)'
    <2>1. \A i \in Rows : Pivot(i) <=> /\ Cardinality(Newer(i)) <= Offset
                                       /\ Cardinality(NoOlder(i)) > Offset
        BY DEF Pivot, Newer, NoOlder, Offset
    <2>2. \A i \in Rows : Pivot(i)' <=> /\ Cardinality(Newer(i)') <= Offset
                                        /\ Cardinality(NoOlder(i)') > Offset
        BY DEF Pivot, Newer, NoOlder, Offset
    <2> QED BY <1>2, <2>1, <2>2
<1> QED BY <1>2, <1>3, <1>4, <1>5, <1>6

LEMMA RestShrinks ==
    ASSUME Types, Types', Shrinks
    PROVE  /\ RestInv => RestInv'
           /\ CountInv => CountInv'
<1> USE OffsetType
<1>1. Size' <= Size /\ Size' \in Nat /\ Size \in Nat /\ (Size' = Size => Rows' = Rows)
    BY Shrunk
<1>2. RestInv => RestInv'
    <2> SUFFICES ASSUME RestInv PROVE RestInv'
        OBVIOUS
    <2>1. Size' <= Max
        BY <1>1 DEF RestInv
    <2>2. ASSUME Size' = Max PROVE Exposed(Offset)'
        <3>1. Size = Max
            BY <1>1, <2>2 DEF RestInv
        <3> QED BY <1>1, <2>2, <3>1, SameRows DEF RestInv
    <2> QED BY <2>1, <2>2 DEF RestInv
<1>3. CountInv => CountInv'
    <2> SUFFICES ASSUME CountInv PROVE CountInv'
        OBVIOUS
    <2>1. Size' <= Max + 1
        BY <1>1 DEF CountInv
    <2>2. ASSUME Size' = Max + 1 PROVE Exposed(Offset + 1)'
        <3>1. Size = Max + 1
            BY <1>1, <2>2 DEF CountInv
        <3> QED BY <1>1, <2>2, <3>1, SameRows DEF CountInv
    <2> QED BY <2>1, <2>2 DEF CountInv
<1> QED BY <1>2, <1>3

\* One row too many, and one of them goes: what is lowest then lies below the
\* pivot still, or is the pivot.
LEMMA OneGoes ==
    ASSUME Types, Types', TimeInv, Exposed(Offset + 1), NEW q \in Rows, Pivot(q),
           Shrinks, Size = Max + 1, Size' = Max,
           NEW b \in Rows', Lowest(b)'
    PROVE  b < q \/ Cardinality(Newer(b)') >= Offset
<1> USE OffsetType
<1>1. Rows' \subseteq Rows /\ IsFiniteSet(Rows) /\ \A i \in Rows' : i \in Nat
    BY FiniteRows, RowTimes DEF Shrinks
<1>2. PICK a \in Rows : Lowest(a)
    BY LowestExists
<1>3. a < q /\ a \notin Newer(q) /\ a \in Nat /\ q \in Nat /\ b \in Nat
    BY <1>1, <1>2, LowestGoes, RowTimes
<1>4. CASE a \in Rows'
    <2>1. b <= a
        BY <1>4 DEF Lowest
    <2> QED BY <1>3, <2>1
<1>5. CASE a \notin Rows'
    <2>1. Rows' = Rows \ {a}
        <3>1. Cardinality(Rows \ {a}) = Max /\ IsFiniteSet(Rows \ {a})
            BY <1>1, FS_RemoveElement DEF Size
        <3>2. Rows' \in SUBSET (Rows \ {a}) /\ Cardinality(Rows') = Max
            BY <1>1, <1>5 DEF Size
        <3> QED BY <3>1, <3>2, FS_Subset
    <2>2. q \in Rows' /\ b <= q
        BY <1>3, <2>1 DEF Lowest
    <2>3. CASE b = q
        <3>1. Newer(q)' = Newer(q)
            <4>1. Newer(q)' = Newer(q) \intersect Rows'
                BY <2>2, Shrunk
            <4> QED BY <1>3, <2>1, <4>1 DEF Newer
        <3>2. Cardinality(Newer(q)) = Offset
            BY PivotRank
        <3> QED BY <2>3, <3>1, <3>2
    <2> QED BY <1>3, <2>2, <2>3
<1> QED BY <1>4, <1>5

LEMMA DeleteShrinks ==
    ASSUME Types, Types', TimeInv, DeleteInv, Shrinks, qrecord' = qrecord
    PROVE  DeleteInv'
<1> USE OffsetType
<1>1. Size' <= Size /\ Size' \in Nat /\ Size \in Nat /\ (Size' = Size => Rows' = Rows)
    BY Shrunk
<1>2. CountInv'
    BY RestShrinks DEF DeleteInv
<1>3. ASSUME Size' = Max + 1 PROVE qrecord' \in Rows' /\ Pivot(qrecord)'
    <2>1. Size = Max + 1 /\ Rows' = Rows
        BY <1>1, <1>3 DEF DeleteInv, CountInv
    <2>2. qrecord \in Rows /\ Pivot(qrecord)
        BY <2>1 DEF DeleteInv
    <2>3. Pivot(qrecord)'
        BY <2>1, <2>2, SameRows
    <2> QED BY <2>1, <2>2, <2>3
<1>4. ASSUME Size' = Max, NEW i \in Rows', Lowest(i)'
      PROVE  i < qrecord' \/ Cardinality(Newer(i)') >= Offset
    <2>1. CASE Size = Max
        <3>1. Rows' = Rows
            BY <1>1, <1>4, <2>1
        <3> QED BY <1>4, <2>1, <3>1, SameRows DEF DeleteInv
    <2>2. CASE Size = Max + 1
        <3>1. qrecord \in Rows /\ Pivot(qrecord) /\ Exposed(Offset + 1)
            BY <2>2 DEF DeleteInv, CountInv
        <3> QED BY <1>4, <2>2, <3>1, OneGoes
    <2> QED BY <1>1, <1>4, <2>1, <2>2 DEF DeleteInv, CountInv
<1>5. Offset' = Offset
    BY DEF Offset
<1> QED BY <1>2, <1>3, <1>4, <1>5 DEF DeleteInv

\* The trimming leaves room for another row, or a lowest row that will go next
\* time.
LEMMA Trimmed ==
    ASSUME Types, Types', TimeInv, DeleteInv, DeleteOld
    PROVE  RestInv'
<1> USE OffsetType
<1>1. done' = [i \in Id |-> IF i \in {j \in Id : j < qrecord} THEN NoRow ELSE done[i]]
    BY DEF DeleteOld
<1>2. Rows' = Rows \ {j \in Id : j < qrecord} /\ Shrinks
    BY <1>1, Removed
<1>3. Size' <= Size /\ Size' \in Nat /\ Size \in Nat /\ (Size' = Size => Rows' = Rows)
    BY <1>2, Shrunk
<1>4. \A i \in Rows' : ~ (i < qrecord)
    BY <1>2, RowsType
<1>5. Size' <= Max
    <2>1. CASE Size = Max + 1
        <3>1. qrecord \in Rows /\ Pivot(qrecord) /\ Exposed(Offset + 1)
            BY <2>1 DEF DeleteInv, CountInv
        <3>2. PICK a \in Rows : Lowest(a)
            BY <3>1, LowestExists
        <3>3. a < qrecord
            BY <3>1, <3>2, LowestGoes
        <3>4. a \notin Rows'
            BY <1>4, <3>3
        <3> QED BY <1>3, <2>1, <3>2, <3>4
    <2>2. CASE Size <= Max
        BY <1>3, <2>2
    <2> QED BY <1>3, <2>1, <2>2 DEF DeleteInv, CountInv
<1>6. ASSUME Size' = Max, NEW i \in Rows', Lowest(i)'
      PROVE  Cardinality(Newer(i)') >= Offset
    <2>1. CASE Size = Max
        <3>1. Rows' = Rows
            BY <1>3, <1>6, <2>1
        <3>2. Lowest(i) /\ Newer(i)' = Newer(i)
            BY <1>2, <1>6, <3>1, SameRows
        <3> QED BY <1>4, <1>6, <2>1, <3>1, <3>2 DEF DeleteInv
    <2>2. CASE Size = Max + 1
        <3>1. qrecord \in Rows /\ Pivot(qrecord) /\ Exposed(Offset + 1)
            BY <2>2 DEF DeleteInv, CountInv
        <3>2. i < qrecord \/ Cardinality(Newer(i)') >= Offset
            BY <1>2, <1>6, <2>2, <3>1, OneGoes
        <3> QED BY <1>4, <1>6, <3>2
    <2> QED BY <1>3, <1>6, <2>1, <2>2 DEF DeleteInv, CountInv
<1>7. Offset' = Offset
    BY DEF Offset
<1> QED BY <1>5, <1>6, <1>7 DEF RestInv, Exposed

\* A row that is inserted is newer than all others: the lowest row has one more
\* that is newer.
LEMMA Inserted ==
    ASSUME Steady, BaseInv, Types', TimeInv, RestInv, WriteRow
    PROVE  CountInv' /\ TimeInv'
<1> USE OffsetType
<1>0. Types /\ RowInv
    BY DEF BaseInv
<1>1. \/ /\ qrecord = 0 /\ nextId \in Id /\ nextId \notin Rows
         /\ done' = [i \in Id |-> IF i = nextId THEN [path |-> task, ltime |-> now + 1]
                                  ELSE done[i]]
         /\ Rows' = Rows \union {nextId}
      \/ /\ qrecord \in Rows
         /\ done' = [i \in Id |-> IF i = qrecord
                                  THEN [path |-> done[qrecord].path, ltime |-> now + 1]
                                  ELSE done[i]]
         /\ Rows' = Rows
      \/ done' = done /\ Rows' = Rows
    BY Written DEF Steady
<1>2. \A i \in Rows : i \in Id /\ i \in Nat /\ done[i].ltime \in Nat /\ done[i].ltime <= now
                      /\ i < nextId
    BY <1>0, RowsType, RowTimes DEF RowInv
<1>3. now \in Nat /\ nextId \in Nat
    BY <1>0 DEF Types
<1>4. TimeInv'
    <2>1. CASE /\ qrecord = 0 /\ nextId \in Id /\ nextId \notin Rows
               /\ done' = [i \in Id |-> IF i = nextId THEN [path |-> task, ltime |-> now + 1]
                                        ELSE done[i]]
               /\ Rows' = Rows \union {nextId}
        <3>1. \A i \in Rows : done'[i] = done[i] /\ i # nextId
            BY <1>2, <2>1
        <3>2. done'[nextId].ltime = now + 1
            BY <2>1
        <3> QED BY <1>2, <1>3, <2>1, <3>1, <3>2 DEF TimeInv
    <2>2. CASE /\ qrecord \in Rows
               /\ done' = [i \in Id |-> IF i = qrecord
                                        THEN [path |-> done[qrecord].path, ltime |-> now + 1]
                                        ELSE done[i]]
               /\ Rows' = Rows
        <3>1. \A i \in Rows : i # qrecord => done'[i] = done[i]
            BY <1>2, <2>2
        <3>2. done'[qrecord].ltime = now + 1
            BY <1>2, <2>2
        <3> QED BY <1>2, <1>3, <2>2, <3>1, <3>2 DEF TimeInv
    <2>3. CASE done' = done /\ Rows' = Rows
        BY <2>3 DEF TimeInv
    <2> QED BY <1>1, <2>1, <2>2, <2>3
<1>5. CASE Rows' = Rows
    <2>1. Size' = Size /\ Size \in Nat
        BY <1>0, <1>5, FiniteRows DEF Size
    <2> QED BY <1>4, <2>1 DEF RestInv, CountInv
<1>6. CASE /\ qrecord = 0 /\ nextId \in Id /\ nextId \notin Rows
           /\ done' = [i \in Id |-> IF i = nextId THEN [path |-> task, ltime |-> now + 1]
                                    ELSE done[i]]
           /\ Rows' = Rows \union {nextId}
    <2>1. IsFiniteSet(Rows) /\ Size \in Nat
        BY <1>0, FiniteRows
    <2>2. Size' = Size + 1
        BY <1>6, <2>1, FS_AddElement DEF Size
    <2>3. \A i \in Rows : done'[i] = done[i] /\ i # nextId
        BY <1>2, <1>6
    <2>4. done'[nextId].ltime = now + 1
        BY <1>6
    <2>5. ASSUME Size' = Max + 1, NEW i \in Rows', Lowest(i)'
          PROVE  Cardinality(Newer(i)') >= Offset + 1
        <3>1. Size = Max /\ Rows # {}
            BY <2>1, <2>2, <2>5, FS_EmptySet DEF Size
        <3>2. i \in Rows
            <4>1. PICK j \in Rows : TRUE
                BY <3>1
            <4>2. i <= j /\ j < nextId /\ j \in Nat
                BY <1>2, <1>6, <2>5 DEF Lowest
            <4>3. i # nextId
                BY <1>3, <4>2
            <4> QED BY <1>6, <2>5, <4>3
        <3>3. Lowest(i)
            BY <1>6, <2>5 DEF Lowest
        <3>4. Cardinality(Newer(i)) >= Offset
            BY <3>1, <3>2, <3>3 DEF RestInv, Exposed
        <3>5. Newer(i)' = Newer(i) \union {nextId} /\ nextId \notin Newer(i)
            <4>1. now + 1 > done[i].ltime
                BY <1>2, <1>3, <3>2
            <4> QED BY <1>6, <2>3, <2>4, <3>2, <4>1 DEF Newer
        <3>6. IsFiniteSet(Newer(i)) /\ Cardinality(Newer(i)) \in Nat
            BY <1>0, FiniteRows DEF Newer
        <3>7. Cardinality(Newer(i)') = Cardinality(Newer(i)) + 1
            BY <3>5, <3>6, FS_AddElement
        <3> QED BY <3>4, <3>6, <3>7
    <2>6. Size' <= Max + 1
        BY <2>1, <2>2 DEF RestInv
    <2>7. Offset' = Offset
        BY DEF Offset
    <2> QED BY <1>4, <2>5, <2>6, <2>7 DEF CountInv, Exposed
<1> QED BY <1>1, <1>5, <1>6

LEMMA BoundStep == Steady /\ BaseInv /\ BaseInv' /\ BoundInv /\ [Next]_vars => BoundInv'
<1> SUFFICES ASSUME Steady, BaseInv, BaseInv', BoundInv, [Next]_vars PROVE BoundInv'
    OBVIOUS
<1> USE OffsetType
<1>1. Types /\ Types' /\ TimeInv
    BY DEF BaseInv, BoundInv
<1>2. CASE WriteRow
    <2>1. RestInv /\ pc' = "count"
        BY <1>2 DEF WriteRow, BoundInv
    <2> QED BY <1>1, <1>2, <2>1, Inserted DEF BoundInv
<1>3. CASE ~ WriteRow
    <2>1. Shrinks
        BY <1>1, <1>3, Removals
    <2>2. TimeInv'
        BY <1>1, <2>1, Shrunk
    <2>3. CASE CountRows
        <3>1. pc = "count" /\ (IF Size >= Max THEN pc' = "trim" ELSE pc' = "idle")
            BY <2>3 DEF CountRows, Then, Full, Size, Steady
        <3>2. CountInv' /\ Size' = Size /\ Size \in Nat
            <4>1. done' = done
                BY <2>3 DEF CountRows, table
            <4>2. Size' = Size
                BY <4>1 DEF Size, Rows
            <4> QED BY <1>1, <2>1, <3>1, <4>2, RestShrinks, FiniteRows DEF BoundInv
        <3> QED BY <2>2, <3>1, <3>2 DEF BoundInv, RestInv
    <2>4. CASE FindPivot
        <3>1. pc = "trim" /\ done' = done
            BY <2>4 DEF FindPivot, table
        <3>2. Rows' = Rows /\ Size' = Size /\ CountInv /\ CountInv' /\ Size \in Nat
            <4>1. Rows' = Rows /\ Size' = Size
                BY <3>1 DEF Rows, Size
            <4> QED BY <1>1, <2>1, <3>1, <4>1, RestShrinks, FiniteRows DEF BoundInv
        <3>3. CASE \E i \in Rows : Pivot(i) /\ qrecord' = i /\ Then("delete")
            <4>1. PICK q \in Rows : Pivot(q) /\ qrecord' = q
                BY <3>3
            <4>2. pc' = "delete"
                BY <3>3 DEF Then, Steady
            <4>3. Pivot(qrecord)'
                BY <3>1, <3>2, <4>1 DEF Pivot
            <4>4. ASSUME NEW i \in Rows', Lowest(i)'
                  PROVE  i < qrecord' \/ Cardinality(Newer(i)') >= Offset
                <5>1. i \in Rows /\ Lowest(i) /\ Newer(i)' = Newer(i)
                    BY <1>1, <2>1, <3>2, <4>4, SameRows
                <5>2. i <= q /\ i \in Nat /\ q \in Nat
                    BY <1>1, <5>1, RowTimes DEF Lowest
                <5>3. Cardinality(Newer(q)) = Offset
                    BY <1>1, <4>1, PivotRank
                <5> QED BY <4>1, <5>1, <5>2, <5>3
            <4>5. Offset' = Offset
                BY DEF Offset
            <4>6. DeleteInv'
                BY <3>2, <4>1, <4>3, <4>4, <4>5 DEF DeleteInv
            <4> QED BY <2>2, <4>2, <4>6 DEF BoundInv
        <3>4. CASE (\A i \in Rows : ~ Pivot(i)) /\ pc' = "idle"
            <4>1. ~ (Size > Offset)
                BY <1>1, <3>4, PivotExists
            <4>2. Size' < Max
                BY <3>2, <4>1
            <4> QED BY <2>2, <3>2, <3>4, <4>2 DEF BoundInv, RestInv
        <3> QED BY <2>4, <3>3, <3>4 DEF FindPivot
    <2>5. CASE DeleteOld
        <3>1. DeleteInv /\ pc' = "idle"
            BY <2>5 DEF DeleteOld, BoundInv
        <3> QED BY <1>1, <2>2, <2>5, <3>1, Trimmed DEF BoundInv
    <2>6. CASE pc \notin {"count", "trim", "delete"} /\ pc' \notin {"count", "trim", "delete"}
        BY <1>1, <2>1, <2>2, <2>6, RestShrinks DEF BoundInv
    <2>7. CASE UNCHANGED <<pc, qrecord>>
        <3>1. pc = "delete" => DeleteInv'
            BY <1>1, <2>1, <2>7, DeleteShrinks DEF BoundInv
        <3>2. pc # "delete" => (RestInv => RestInv') /\ (CountInv => CountInv')
            BY <1>1, <2>1, RestShrinks
        <3> QED BY <2>2, <2>7, <3>1, <3>2 DEF BoundInv
    <2> QED BY <1>3, <2>3, <2>4, <2>5, <2>6, <2>7
            DEF Next, Control, vars, local, Then, pcs_download_chk_same_md5, OpenBoth, CopyFile,
                MoveAside, RenameTmp, Download, sql_get_done_record, DelrecordAll,
                DelrecordSingle, RemoveDone, DeleteTmp, UserFile
<1> QED BY <1>2, <1>3

\* The table holds at most Max rows, and one more while it is being trimmed:
\* a row written again keeps its ID and is found as the pivot late, so that one
\* trimming may remove nothing; but then the lowest row is the pivot, and the
\* next row that is inserted moves the pivot up.  Requests that remove rows
\* between the steps of a trimming do not change that.
THEOREM TableBounded ==
    ASSUME Steady
    PROVE  Spec => []HistoryBounded
<1>1. Init => BoundInv
    <2> SUFFICES ASSUME Init PROVE BoundInv
        OBVIOUS
    <2>1. Rows = {} /\ pc = "idle"
        BY DEF Init, Rows, NoRow
    <2>2. Size = 0
        BY <2>1, FS_EmptySet DEF Size
    <2> QED BY <2>1, <2>2, OffsetType DEF BoundInv, TimeInv, RestInv
<1>2. BaseInv /\ BaseInv' /\ BoundInv /\ [Next]_vars => BoundInv'
    BY BoundStep
<1>3. BaseInv /\ BoundInv => HistoryBounded
    <2> SUFFICES ASSUME BaseInv, BoundInv PROVE HistoryBounded
        OBVIOUS
    <2>1. pc \in {"count", "trim", "delete"} => Size <= Max + 1
        BY DEF BoundInv, CountInv, DeleteInv
    <2>2. pc \notin {"count", "trim", "delete"} => Size <= Max
        BY DEF BoundInv, RestInv
    <2> QED BY <2>1, <2>2 DEF HistoryBounded, Size
<1> QED BY <1>1, <1>2, <1>3, BaseInvariant, PTL DEF Spec

==============================================================================
