------------------------------ MODULE DoneTable ------------------------------
(***************************************************************************)
(* The table DONE of web_api.c, what was downloaded, and the two uses the  *)
(* program makes of it: the list it shows, and the files on the disk that  *)
(* it copies instead of downloading another one with the same MD5.  The    *)
(* control thread works on the table and on the disk without a lock, one   *)
(* statement after the other; requests and the user come in between.       *)
(* The download itself is module MultiDown, the queue module DownTask.     *)
(***************************************************************************)
EXTENDS Integers, FiniteSets

CONSTANTS
    Path,       \* local paths of files of the cloud
    NoPath,     \* the path of no row
    Twins,      \* paths of files with one and the same MD5; others have their own
    Max,        \* PCS_DONE_RECORD_MAX: 150
    Shown,      \* PCS_DONE_RECORD, rows that Donelist shows: 100
    MaxId,      \* bound on the IDs that AUTOINCREMENT hands out
    MaxWrites,  \* bound on the downloads recorded
    MaxOps,     \* bound on what requests and the user do
    Faults      \* "edit": the user changes a file and keeps its size, or
                \* exchanges it after the size was looked at, or writes to it
                \* or cuts it in place while it is copied; "userfile": the
                \* user puts a file of the very size where none is; "sql": a
                \* statement fails; "burst": two writes in one second

ASSUME PathAssumption  == NoPath \notin Path /\ Twins \subseteq Path
ASSUME MaxAssumption   == Max \in Nat /\ Shown \in 1 .. Max - 1
ASSUME BoundAssumption == MaxId \in Nat \ {0} /\ MaxWrites \in Nat /\ MaxOps \in Nat
ASSUME FaultAssumption == Faults \subseteq {"edit", "userfile", "sql", "burst"}

VARIABLES
    done,       \* DONE: the row with each ID
    nextId,     \* the next ID of AUTOINCREMENT
    now,        \* time(NULL), as far as writes can tell
    disk,       \* the file at each path: of the cloud ("good"), of the user,
                \* alike in size ("user") or not ("cut"), or none
    tmp,        \* the copy in progress, <path>.bd
    pc,         \* where the control thread stands
    task,       \* the path of its record
    source,     \* the path to copy from, and what is read through sfd
    qrecord,    \* the ID found, 0 for none, of pcs_update_done_table
    writes, ops,
    condemned,  \* the file that a request has yet to remove
    fresh       \* the paths recorded for the first time, by a row that is theirs
                \* until a request, or a later trimming, removes it

vars == <<done, nextId, now, disk, tmp, pc, task, source, qrecord, writes, ops,
          condemned, fresh>>
table == <<done, nextId, now>>
files == <<disk, tmp>>
local == <<task, source, qrecord>>
web == <<ops, condemned>>

Id == 1 .. MaxId
NoRow == [path |-> NoPath, ltime |-> 0]
NoSource == [path |-> NoPath, sfd |-> "none"]
File == {"none", "good", "user", "cut"}

Rows == {i \in Id : done[i].path # NoPath}
RowsOf(p) == {i \in Rows : done[i].path = p}
First(S) == CHOOSE i \in S : \A j \in S : i <= j

SameMd5(p, q) == p = q \/ {p, q} \subseteq Twins

Init ==
    /\ done = [i \in Id |-> NoRow] /\ nextId = 1 /\ now = 0
    /\ disk = [p \in Path |-> "none"] /\ tmp = "none"
    /\ pc = "idle" /\ task = NoPath /\ source = NoSource /\ qrecord = 0
    /\ writes = 0 /\ ops = 0 /\ condemned = NoPath /\ fresh = {}

-----------------------------------------------------------------------------
(***************************************************************************)
(* pcs_download_handle: a copy, or a download.                             *)
(***************************************************************************)
\* Mutant of RightSize: a file that is there is taken, whatever its size.
AnySize(p) == disk[p] # "none"

\* lstat(lpath, &st) == 0 && st.st_size == atoll(rectp->size)
RightSize(p) == disk[p] \in {"good", "user"}

\* The control thread takes up a record; sql_get_same_md5_record looks at the
\* first row with its MD5 and no further.
pcs_download_chk_same_md5(p) ==
    /\ pc = "idle" /\ writes < MaxWrites
    /\ task' = p
    /\ LET same == {i \in Rows : SameMd5(done[i].path, p)}
       IN  IF same # {} /\ RightSize(done[First(same)].path)
           THEN pc' = "open" /\ source' = [NoSource EXCEPT !.path = done[First(same)].path]
           ELSE pc' = "download" /\ UNCHANGED source
    /\ UNCHANGED <<table, files, qrecord, writes, web, fresh>>

\* The source and the cache file are opened, the latter cut to nothing.
OpenBoth ==
    /\ pc = "open"
    /\ IF disk[source.path] # "none"
       THEN /\ source' = [source EXCEPT !.sfd = disk[source.path]]
            /\ tmp' = "cut" /\ pc' = "copy"
       ELSE UNCHANGED <<source, tmp>> /\ pc' = "download"
    /\ UNCHANGED <<table, disk, task, qrecord, writes, web, fresh>>

\* All that can be read has been written, which is less than the size when the
\* source was cut in place: a read of 0 bytes ends the copy as a good one.  Or
\* reading or writing fails, and the file is downloaded; or the conditions or
\* the disk space are gone.
CopyFile ==
    /\ pc = "copy"
    /\ \/ /\ tmp' = IF tmp = "none" THEN "none" ELSE source.sfd
          /\ pc' = "aside"
       \/ pc' \in {"download", "idle"} /\ UNCHANGED tmp
    /\ source' = [source EXCEPT !.sfd = "none"]
    /\ UNCHANGED <<table, disk, task, qrecord, writes, web, fresh>>

\* Whatever is at the path gets another name, with the time in it.
MoveAside ==
    /\ pc = "aside" /\ pc' = "rename"
    /\ disk' = [disk EXCEPT ![task] = "none"]
    /\ UNCHANGED <<table, tmp, local, writes, web, fresh>>

\* rename(tmpfile, lpath), whose failure is not noticed
RenameTmp ==
    /\ pc = "rename" /\ pc' = "select"
    /\ disk' = [disk EXCEPT ![task] = IF tmp = "none" THEN @ ELSE tmp]
    /\ tmp' = "none"
    /\ UNCHANGED <<table, local, writes, web, fresh>>

\* pcs_multi_download_file and pcs_chk_downfile_size: a file at the path counts
\* when it has the size.  Any other ends the attempts without success.
Download ==
    /\ pc = "download"
    /\ \/ /\ disk[task] \in {"none", "good", "user"}
          /\ disk' = [disk EXCEPT ![task] = IF @ = "none" THEN "good" ELSE @]
          /\ pc' = "select"
       \/ pc' = "idle" /\ UNCHANGED disk
    /\ tmp' = "none"
    /\ UNCHANGED <<table, local, writes, web, fresh>>

-----------------------------------------------------------------------------
(***************************************************************************)
(* pcs_update_done_table.  A statement that fails ends it.                 *)
(***************************************************************************)
Then(next) == pc' \in {next} \union (IF "sql" \in Faults THEN {"idle"} ELSE {})

\* Mutant of sql_get_done_record: the row is looked for by the path in the cloud.
FindsNoRow ==
    /\ pc = "select" /\ Then("write") /\ qrecord' = 0
    /\ UNCHANGED <<table, files, task, source, writes, web, fresh>>

sql_get_done_record ==
    /\ pc = "select" /\ Then("write")
    /\ qrecord' = IF RowsOf(task) = {} THEN 0 ELSE First(RowsOf(task))
    /\ UNCHANGED <<table, files, task, source, writes, web, fresh>>

\* INSERT, or UPDATE of a row that may be gone by now
WriteRow ==
    /\ pc = "write"
    /\ qrecord = 0 => nextId <= MaxId
    /\ \E t \in {now + 1} \union (IF "burst" \in Faults THEN {now} ELSE {}) :
          /\ now' = t
          /\ done' = IF qrecord = 0 THEN [done EXCEPT ![nextId] = [path |-> task, ltime |-> t]]
                     ELSE IF qrecord \in Rows THEN [done EXCEPT ![qrecord].ltime = t] ELSE done
    /\ nextId' = IF qrecord = 0 THEN nextId + 1 ELSE nextId
    /\ fresh' = IF qrecord = 0 THEN {task} ELSE {}
    /\ writes' = writes + 1 /\ pc' = "count"
    /\ UNCHANGED <<files, local, web>>

\* The table is trimmed from Max rows on.
Full(n) == n >= Max

CountRows ==
    /\ pc = "count"
    /\ Then(IF Full(Cardinality(Rows)) THEN "trim" ELSE "idle")
    /\ UNCHANGED <<table, files, local, writes, web, fresh>>

\* Mutant of Pivot: the first row to go rather than the last to stay, in an
\* order the other way round.
PivotAscending(i) ==
    /\ Cardinality({j \in Rows : done[j].ltime < done[i].ltime}) <= Max - Shown
    /\ Cardinality({j \in Rows : done[j].ltime <= done[i].ltime}) > Max - Shown

\* ORDER BY LTIME desc LIMIT 1 OFFSET Max - Shown: rows of one second come in
\* any order.
Pivot(i) ==
    /\ Cardinality({j \in Rows : done[j].ltime > done[i].ltime}) <= Max - Shown
    /\ Cardinality({j \in Rows : done[j].ltime >= done[i].ltime}) > Max - Shown

\* DELETE FROM DONE WHERE ID < the one found, by another statement
FindPivot ==
    /\ pc = "trim"
    /\ \/ \E i \in Rows : Pivot(i) /\ qrecord' = i /\ Then("delete")
       \/ (\A i \in Rows : ~ Pivot(i)) /\ pc' = "idle" /\ UNCHANGED qrecord
    /\ UNCHANGED <<table, files, task, source, writes, web, fresh>>

\* Mutant of DeleteOld: the wrong side goes.
DeleteNewer ==
    /\ pc = "delete" /\ pc' = "idle"
    /\ done' = [i \in Id |-> IF i > qrecord THEN NoRow ELSE done[i]]
    /\ UNCHANGED <<nextId, now, files, local, writes, web, fresh>>

DeleteOld ==
    /\ pc = "delete" /\ pc' = "idle"
    /\ done' = [i \in Id |-> IF i < qrecord THEN NoRow ELSE done[i]]
    /\ UNCHANGED <<nextId, now, files, local, writes, web, fresh>>

-----------------------------------------------------------------------------
(***************************************************************************)
(* Requests, and the user.                                                 *)
(***************************************************************************)
Op == ops < MaxOps /\ ops' = ops + 1

\* Requests are served one at a time.
Request == Op /\ condemned = NoPath

\* Delrecord act=all
DelrecordAll ==
    /\ Request
    /\ done' = [i \in Id |-> NoRow] /\ fresh' = {}
    /\ UNCHANGED <<nextId, now, files, pc, local, writes, condemned>>

\* Delrecord act=single, and a path of Doneoperation
DelrecordSingle(p, truedel) ==
    /\ Request
    /\ done' = [i \in Id |-> IF done[i].path = p THEN NoRow ELSE done[i]]
    /\ condemned' = IF truedel = 1 THEN p ELSE NoPath
    /\ fresh' = fresh \ {p}
    /\ UNCHANGED <<nextId, now, files, pc, local, writes>>

\* Doneoperation with action=1 removes the file after the row.
RemoveDone ==
    /\ condemned # NoPath /\ condemned' = NoPath
    /\ disk' = [disk EXCEPT ![condemned] = "none"]
    /\ UNCHANGED <<table, tmp, pc, local, writes, ops, fresh>>

\* pcs_web_api_update_deletedb: the copy goes on, for interp is not looked at.
DeleteTmp ==
    /\ Request /\ pc \in {"copy", "aside", "rename"}
    /\ tmp' = "none"
    /\ UNCHANGED <<table, disk, pc, local, writes, condemned, fresh>>

\* The descriptor of the copy, when the file it was opened on is now f.
InPlace(p, f) ==
    IF source.path = p /\ source.sfd # "none" THEN [source EXCEPT !.sfd = f] ELSE source

\* The user removes a file or puts another in its place, and who has the old
\* one open still reads it; or writes to the file that is there, or cuts it,
\* and who has it open reads what is left.
UserFile(p, f) ==
    /\ Op
    /\ disk' = [disk EXCEPT ![p] = f]
    /\ source' \in {source} \union (IF "edit" \in Faults /\ "none" \notin {f, disk[p]}
                                    THEN {InPlace(p, f)} ELSE {})
    /\ UNCHANGED <<table, tmp, pc, task, qrecord, writes, condemned, fresh>>

\* Without "edit" the file whose size was looked at is not exchanged before it
\* is opened, neither at once nor by removing it first.
Exchange(p) == "edit" \in Faults \/ pc # "open" \/ p # source.path

UserMay(p) ==
    (   {"none"}
        \union (IF Exchange(p) THEN {"cut"} ELSE {})
        \union (IF \/ "userfile" \in Faults /\ disk[p] = "none"
                   \/ "edit" \in Faults /\ disk[p] # "none"
                THEN {"user"} ELSE {})
    ) \ {disk[p]}

Control ==
    \/ \E p \in Path : pcs_download_chk_same_md5(p)
    \/ OpenBoth \/ CopyFile \/ MoveAside \/ RenameTmp \/ Download
    \/ sql_get_done_record \/ WriteRow \/ CountRows \/ FindPivot \/ DeleteOld

Next ==
    \/ Control
    \/ DelrecordAll
    \/ \E p \in Path, truedel \in 0 .. 1 : DelrecordSingle(p, truedel)
    \/ RemoveDone
    \/ DeleteTmp
    \/ \E p \in Path : \E f \in UserMay(p) : UserFile(p, f)

Spec == Init /\ [][Next]_vars

-----------------------------------------------------------------------------
\* The type invariant; a file has one row, whose ID was handed out.
TypeOK ==
    /\ done \in [Id -> [path : Path \union {NoPath}, ltime : 0 .. MaxWrites]]
    /\ nextId \in 1 .. MaxId + 1 /\ now \in 0 .. MaxWrites
    /\ disk \in [Path -> File] /\ tmp \in File
    /\ pc \in {"idle", "open", "copy", "aside", "rename", "download",
               "select", "write", "count", "trim", "delete"}
    /\ task \in Path \union {NoPath}
    /\ source \in [path : Path \union {NoPath}, sfd : File]
    /\ qrecord \in 0 .. MaxId /\ writes \in 0 .. MaxWrites /\ ops \in 0 .. MaxOps
    /\ fresh \subseteq Path /\ condemned \in Path \union {NoPath}
    /\ \A i \in Rows : i < nextId /\ RowsOf(done[i].path) = {i}

\* What is copied is the file of the cloud: rows outlive their files, and the
\* user removes files at any moment, and replaces or cuts them before they are
\* looked at or puts others in their place during a copy, yet nothing but the
\* cloud's content gets under the name of another file with the same MD5.
CopyGood == pc \in {"aside", "rename"} => tmp \in {"none", "good"}

\* Donelist: the newest Shown rows, by ID.
Donelist == {i \in Rows : Cardinality({j \in Rows : j > i}) < Shown}

\* A file downloaded for the first time is in the list that is shown from then
\* on until the next write, unless a request removes it, though the table is
\* trimmed by the ID of a row found in another order.
FirstShown == \A p \in fresh : RowsOf(p) # {} /\ RowsOf(p) \subseteq Donelist

\* Trimming bounds the table: a row that is written again keeps its ID and can
\* shield the rows above it from one trimming, never from two in a row.
HistoryBounded ==
    Cardinality(Rows) <= IF pc \in {"count", "trim", "delete"} THEN Max + 1 ELSE Max

=============================================================================
