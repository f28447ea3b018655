------------------------------ MODULE DownTask ------------------------------
(***************************************************************************)
(* The download queue of web_api.c: the SQLite tables DOWN (what is to be  *)
(* downloaded) and DETABLE (what the user deleted), and the three threads  *)
(* that work on them, each in short critical sections under m_down:        *)
(*   - the control thread (thread_down_control) takes a record, downloads  *)
(*     it outside of any lock and writes the outcome back by record ID;    *)
(*   - a web request (one at a time, m_mutexWeb) starts, pauses or deletes *)
(*     records, in several critical sections;                              *)
(*   - the listing thread (thread_server) queues the files of the cloud.   *)
(* The transfer itself, with the cache file, is module MultiDown.          *)
(***************************************************************************)
EXTENDS Integers

CONSTANTS
    Path,      \* files of the cloud directory
    NoPath,    \* the empty path of a record after memset
    MaxId,     \* bound on the IDs that AUTOINCREMENT hands out
    MaxOps     \* bound on web requests and crashes together

ASSUME PathAssumption  == NoPath \notin Path
ASSUME MaxIdAssumption == MaxId \in Nat \ {0}
ASSUME MaxOpsAssumption == MaxOps \in Nat

Id == 1 .. MaxId

VARIABLES
    down,      \* DOWN: the row with each ID; path NoPath where there is none
    nextId,    \* the next ID of AUTOINCREMENT
    detable,   \* DETABLE: paths deleted by the user
    local,     \* files at their final local path
    dp,        \* downprogress: the path shown, and interp
    pc,        \* where the control thread stands
    task,      \* its local record: ID, path and status
    ret,       \* what pcs_download_handle returned
    web,       \* the web request being handled, and its next section
    list,      \* the file the listing thread is about to queue
    ops,       \* disturbances so far
    owed       \* paths queued and since then neither fetched, deleted nor gone

tables  == <<down, nextId, detable>>
control == <<pc, task, ret>>
vars == <<down, nextId, detable, local, dp, pc, task, ret, web, list, ops, owed>>

AnyPath == Path \cup {NoPath}
Status  == {"wait", "ing", "susp", "fail"}
Row     == [path : AnyPath, st : Status]
NoRow   == [path |-> NoPath, st |-> "wait"]
NoTask  == [id |-> 1, path |-> NoPath, st |-> "wait"]
NoWeb   == [op |-> "none", path |-> NoPath]
Idle    == [path |-> NoPath, interp |-> FALSE]    \* downprogress after memset

TypeOK ==
    /\ down \in [Id -> Row]
    /\ nextId \in 1 .. MaxId + 1
    /\ detable \subseteq Path
    /\ local \subseteq Path
    /\ dp \in [path : AnyPath, interp : BOOLEAN]
    /\ pc \in {"get", "clean", "set", "down", "write"}
    /\ task \in [id : Id, path : AnyPath, st : Status]
    /\ ret \in {"ok", "gone", "stop"}
    /\ web \in [op : {"none", "pause", "pausing", "wait", "pauseall", "delete", "mark"},
                path : AnyPath]
    /\ list \in AnyPath
    /\ ops \in 0 .. MaxOps
    /\ owed \subseteq Path

Init ==
    /\ down = [i \in Id |-> NoRow]
    /\ nextId = 1
    /\ detable = {}
    /\ local = {}
    /\ dp = Idle
    /\ pc = "get"
    /\ task = NoTask
    /\ ret = "stop"
    /\ web = NoWeb
    /\ list = NoPath
    /\ ops = 0
    /\ owed = {}

-----------------------------------------------------------------------------
Rows     == {i \in Id : down[i].path # NoPath}
RowsOf(p) == {i \in Rows : down[i].path = p}

\* LIMIT 1 without ORDER BY: a scan in the order of the IDs.
IsFirst(i, S) == i \in S /\ \A j \in S : i <= j

\* UPDATE DOWN SET STATUS=st WHERE PATH=p.
UpdatePath(p, st) ==
    [i \in Id |-> IF i \in RowsOf(p) THEN [down[i] EXCEPT !.st = st] ELSE down[i]]

Disturb == ops < MaxOps /\ ops' = ops + 1

(***************************************************************************)
(* The control thread.                                                     *)
(***************************************************************************)

\* Mutant of Candidates: a failed record is as good as a waiting one.
CandidatesAlike == {i \in Rows : down[i].st \in {"ing", "wait", "fail"}}

\* ING or WAITING before FAILED.
Candidates ==
    LET due == {i \in Rows : down[i].st \in {"ing", "wait"}}
    IN  IF due # {} THEN due ELSE {i \in Rows : down[i].st = "fail"}

\* The record keeps the status the row had before it became ING.
get_download_task ==
    /\ pc = "get"
    /\ \E i \in Id :
          /\ IsFirst(i, Candidates)
          /\ down' = [down EXCEPT ![i].st = "ing"]
          /\ task' = [id |-> i, path |-> down[i].path, st |-> down[i].st]
    /\ pc' = "set"
    /\ UNCHANGED <<nextId, detable, local, dp, ret, web, list, ops, owed>>

NoTaskFound ==
    /\ pc = "get" /\ Candidates = {}
    /\ pc' = "clean"
    /\ UNCHANGED <<tables, local, dp, task, ret, web, list, ops, owed>>

cloud_clean_downprogress ==
    /\ pc = "clean"
    /\ dp' = Idle
    /\ pc' = "get"
    /\ UNCHANGED <<tables, local, task, ret, web, list, ops, owed>>

cloud_set_downprogress ==
    /\ pc = "set"
    /\ dp' = [path |-> task.path, interp |-> FALSE]
    /\ pc' = "down"
    /\ UNCHANGED <<tables, local, task, ret, web, list, ops, owed>>

\* pcs_download_handle has the file in place: copied, fetched, or it was there.
Fetched ==
    /\ pc = "down"
    /\ local' = local \cup {task.path}
    /\ ret' = "ok" /\ pc' = "write"
    /\ owed' = owed \ {task.path}
    /\ UNCHANGED <<tables, dp, task, web, list, ops>>

\* The cloud does not have it any more (return 2).
NotInCloud ==
    /\ pc = "down"
    /\ ret' = "gone" /\ pc' = "write"
    /\ owed' = owed \ {task.path}
    /\ UNCHANGED <<tables, local, dp, task, web, list, ops>>

Interrupted ==
    /\ pc = "down" /\ dp.interp
    /\ ret' = "stop" /\ pc' = "write"
    /\ UNCHANGED <<tables, local, dp, task, web, list, ops, owed>>

\* FAILURE at once, as often as it happens: the login, the synchronisation, the
\* network or the storage went away, the record has no local path, or the disk
\* has no room for the copy of a file that is there (2 of
\* pcs_download_chk_same_md5, which sets no storageStatus).
GivenUp ==
    /\ pc = "down"
    /\ ret' = "stop" /\ pc' = "write"
    /\ UNCHANGED <<tables, local, dp, task, web, list, ops, owed>>

\* Ten attempts have failed.
TriedOut ==
    /\ pc = "down"
    /\ task' = [task EXCEPT !.st = "fail"]
    /\ ret' = "stop" /\ pc' = "write"
    /\ UNCHANGED <<tables, local, dp, web, list, ops, owed>>

\* Mutant of Unfinished: a pause that came during the download is overwritten.
UnfinishedNotPaused(st) == IF task.st = "fail" THEN "fail" ELSE "wait"

\* Mutant of Unfinished: whoever interrupted the download has paused it.
UnfinishedInterrupted(st) == IF st = "susp" \/ dp.interp THEN "susp"
                             ELSE IF task.st = "fail" THEN "fail" ELSE "wait"

\* The status of a record that was not finished.  (RELOAD and MYDELETE, which
\* the code also tests for, are never set.)
Unfinished(st) == IF st = "susp" THEN "susp"
                  ELSE IF task.st = "fail" THEN "fail" ELSE "wait"

\* Mutants of WrittenBack: the row is deleted whatever the outcome is; the
\* return value is stored as the status.
AlwaysDeleted(row) == NoRow
RetAsStatus(row) ==
    IF ret \in {"ok", "gone"} \/ row.path = NoPath THEN NoRow
    ELSE [path |-> task.path, st |-> ret]

\* DELETE or UPDATE, both WHERE ID; without effect when the row is gone.
WrittenBack(row) ==
    IF ret \in {"ok", "gone"} \/ row.path = NoPath THEN NoRow
    ELSE [path |-> task.path, st |-> Unfinished(row.st)]

set_download_task ==
    /\ pc = "write"
    /\ down' = [down EXCEPT ![task.id] = WrittenBack(@)]
    /\ pc' = "get" /\ task' = NoTask
    /\ UNCHANGED <<nextId, detable, local, dp, ret, web, list, ops, owed>>

(***************************************************************************)
(* Web requests.  A request on several records is a sequence of requests.  *)
(***************************************************************************)

\* Pause with act=start, and Operation with action=start.
StartRecord(p) ==
    /\ web = NoWeb /\ Disturb
    /\ down' = UpdatePath(p, "wait")
    /\ UNCHANGED <<nextId, detable, local, dp, control, web, list, owed>>

\* Operation with action=pause: a running download is not interrupted.
OperationPause(p) ==
    /\ web = NoWeb /\ Disturb
    /\ down' = UpdatePath(p, "susp")
    /\ UNCHANGED <<nextId, detable, local, dp, control, web, list, owed>>

\* Allact with act=start.
StartAll ==
    /\ web = NoWeb /\ Disturb
    /\ down' = [i \in Id |-> IF i \in Rows /\ down[i].st \in {"susp", "fail"}
                             THEN [down[i] EXCEPT !.st = "wait"] ELSE down[i]]
    /\ UNCHANGED <<nextId, detable, local, dp, control, web, list, owed>>

\* cloud_set_dlprogress_interp(p): the request starts with it.
InterpPath(p) == dp' = [dp EXCEPT !.interp = @ \/ dp.path = p]

\* Pause with act=pause: interrupt, set the record to SUSPEND, and, if the
\* record was shown as running, wait until it is not, 15 s at most.
PauseInterp(p) ==
    /\ web = NoWeb /\ Disturb
    /\ InterpPath(p)
    /\ web' = [op |-> IF dp.path = p THEN "pausing" ELSE "pause", path |-> p]
    /\ UNCHANGED <<tables, local, control, list, owed>>

PauseUpdate ==
    /\ web.op \in {"pause", "pausing"}
    /\ down' = UpdatePath(web.path, "susp")
    /\ web' = IF web.op = "pause" THEN NoWeb ELSE [web EXCEPT !.op = "wait"]
    /\ UNCHANGED <<nextId, detable, local, dp, control, list, ops, owed>>

PauseWaited ==
    /\ web.op = "wait"
    /\ web' = NoWeb
    /\ UNCHANGED <<tables, local, dp, control, list, ops, owed>>

\* Allact with act=pause.
PauseAllInterp ==
    /\ web = NoWeb /\ Disturb
    /\ dp' = [dp EXCEPT !.interp = TRUE]
    /\ web' = [op |-> "pauseall", path |-> NoPath]
    /\ UNCHANGED <<tables, local, control, list, owed>>

PauseAllUpdate ==
    /\ web.op = "pauseall"
    /\ down' = [i \in Id |-> IF i \in Rows THEN [down[i] EXCEPT !.st = "susp"]
                                           ELSE down[i]]
    /\ web' = NoWeb
    /\ UNCHANGED <<nextId, detable, local, dp, control, list, ops, owed>>

\* pcs_web_api_update_deletedb: interrupt; DELETE FROM DOWN; remove the cache
\* file (in MultiDown); note the path in DETABLE.
DeleteInterp(p) ==
    /\ web = NoWeb /\ Disturb
    /\ InterpPath(p)
    /\ web' = [op |-> "delete", path |-> p]
    /\ UNCHANGED <<tables, local, control, list, owed>>

DeleteRow ==
    /\ web.op = "delete"
    /\ down' = [i \in Id |-> IF i \in RowsOf(web.path) THEN NoRow ELSE down[i]]
    /\ owed' = owed \ {web.path}
    /\ web' = [web EXCEPT !.op = "mark"]
    /\ UNCHANGED <<nextId, detable, local, dp, control, list, ops>>

DeleteMark ==
    /\ web.op = "mark"
    /\ detable' = detable \cup {web.path}
    /\ web' = NoWeb
    /\ UNCHANGED <<down, nextId, local, dp, control, list, ops, owed>>

\* Doneoperation with action=1 removes a downloaded file.
DoneOperation(p) ==
    /\ web = NoWeb /\ Disturb
    /\ p \in local /\ local' = local \ {p}
    /\ UNCHANGED <<tables, dp, control, web, list, owed>>

(***************************************************************************)
(* The listing thread: pcs_update_dbtable for a file of the cloud.         *)
(***************************************************************************)

\* pcs_check_local_file, without a lock.
ListFile(p) ==
    /\ list = NoPath
    /\ p \notin local
    /\ list' = p
    /\ UNCHANGED <<tables, local, dp, control, web, ops, owed>>

\* Mutant of NewId: without AUTOINCREMENT the ID of a deleted row comes back.
ReusedId == CHOOSE i \in 1 .. MaxId + 1 :
                IsFirst(i, {j \in 1 .. MaxId + 1 : j > MaxId \/ down[j].path = NoPath})

\* AUTOINCREMENT: an ID is never used again.
NewId == nextId

\* Mutant of pcs_update_down_table: DOWN is not asked for the path.
InsertUnchecked ==
    /\ list # NoPath
    /\ IF list \notin detable /\ NewId \in Id
       THEN /\ down' = [down EXCEPT ![NewId] = [path |-> list, st |-> "wait"]]
            /\ nextId' = NewId + 1
            /\ owed' = owed \cup {list}
       ELSE UNCHANGED <<down, nextId, owed>>
    /\ list' = NoPath
    /\ UNCHANGED <<detable, local, dp, control, web, ops>>

\* One critical section of m_down: DETABLE, DOWN, INSERT.
pcs_update_down_table ==
    /\ list # NoPath
    /\ IF list \notin detable /\ RowsOf(list) = {} /\ NewId \in Id
       THEN /\ down' = [down EXCEPT ![NewId] = [path |-> list, st |-> "wait"]]
            /\ nextId' = NewId + 1
            /\ owed' = owed \cup {list}
       ELSE UNCHANGED <<down, nextId, owed>>
    /\ list' = NoPath
    /\ UNCHANGED <<detable, local, dp, control, web, ops>>

\* The process dies; the tables and the files stay.
Crash ==
    /\ Disturb
    /\ dp' = Idle
    /\ pc' = "get" /\ task' = NoTask /\ ret' = "stop"
    /\ web' = NoWeb
    /\ list' = NoPath
    /\ UNCHANGED <<tables, local, owed>>

-----------------------------------------------------------------------------
Control ==
    \/ get_download_task \/ NoTaskFound \/ cloud_clean_downprogress
    \/ cloud_set_downprogress
    \/ Fetched \/ NotInCloud \/ Interrupted \/ GivenUp \/ TriedOut
    \/ set_download_task

Web ==
    \/ \E p \in Path : \/ StartRecord(p) \/ OperationPause(p)
                       \/ PauseInterp(p) \/ DeleteInterp(p) \/ DoneOperation(p)
    \/ StartAll
    \/ PauseUpdate \/ PauseWaited
    \/ PauseAllInterp \/ PauseAllUpdate
    \/ DeleteRow \/ DeleteMark

Listing == (\E p \in Path : ListFile(p)) \/ pcs_update_down_table

Next == Control \/ Web \/ Listing \/ Crash

Spec == Init /\ [][Next]_vars

\* The control thread is scheduled.  That a download ends is not taken for
\* granted; requests, listings and crashes may or may not come.
FairSpec == Spec /\ WF_vars(pc # "down" /\ Control)

-----------------------------------------------------------------------------
(***************************************************************************)
(* Properties.                                                             *)
(***************************************************************************)

\* The ID the control thread writes its outcome back to never names another
\* file's row, although the row may be deleted, and files queued, meanwhile.
IdNamesTask == pc \in {"set", "down", "write"} => down[task.id].path \in {task.path, NoPath}

\* A file that was queued and is neither fetched, nor deleted by the user, nor
\* gone from the cloud has a row: no race, interruption or crash drops it.
OwedIsQueued == \A p \in owed : RowsOf(p) # {}

\* A file is queued once.
NoDuplicateRows == \A i, j \in Rows : down[i].path = down[j].path => i = j

\* Only the user's start request takes a record out of SUSPEND; the outcome of
\* a download that was running may at most remove the row.
SuspendedStays ==
    [][\A i \in Rows :
          down[i].st = "susp" /\ down'[i].path # NoPath /\ down'[i].st # "susp"
          => StartAll \/ \E p \in Path : StartRecord(p)]_vars

\* Only the user's pause request suspends a record: a start that came after the
\* pause, while the download was still stopping, is not undone by the outcome.
StartedStays ==
    [][\A i \in Rows :
          down[i].st # "susp" /\ down'[i].st = "susp"
          => PauseUpdate \/ PauseAllUpdate \/ \E p \in Path : OperationPause(p)]_vars

\* A download that leaves its record as it was: the record is the first to be
\* taken again.
PutBack == pc = "write" /\ ret = "stop" /\ task.st # "fail"

\* A waiting record is taken up in the end, whatever becomes of the others,
\* unless downloads are given up before their tenth try without end, or one of
\* them does not end at all (Unending of MultiDown).
WaitingServed ==
    \/ \A i \in Id : (i \in Rows /\ down[i].st = "wait")
                     ~> ~(i \in Rows /\ down[i].st = "wait")
    \/ []<>PutBack
    \/ <>[](pc = "down")

\* web_api.c:1320, "User Delete %s Not insert DOWN": what the user deleted is
\* not queued.
DeletedNotQueued == \A p \in detable : RowsOf(p) = {}

\* http.c:1593, "Pause ING Record": after a pause request the record is not
\* downloaded on, unless the request asked to interrupt it and it will stop.
PausedStops ==
    web.op = "wait" => ~(pc = "down" /\ task.path = web.path /\ ~dp.interp)

(***************************************************************************)
(* The inductive invariant.                                                *)
(***************************************************************************)

\* AUTOINCREMENT: the IDs to come have no rows.
FreshIds == \A i \in Id : i >= nextId => down[i].path = NoPath

\* The record in hand has an ID that was handed out, to its own path.
TaskRow ==
    /\ pc \in {"set", "down", "write"} => task.path \in Path /\ task.id < nextId
    /\ IdNamesTask

\* What is about to be deleted from DOWN is not owed any more.
WritesPaid ==
    pc = "write" /\ ret \in {"ok", "gone"} /\ down[task.id].path = task.path
    => task.path \notin owed

WebPath == web.op \in {"delete", "mark"} => web.path \in Path

IInv == /\ TypeOK /\ FreshIds /\ TaskRow /\ WritesPaid /\ WebPath
        /\ OwedIsQueued /\ NoDuplicateRows
=============================================================================
