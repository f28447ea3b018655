--------------------------- MODULE DownTask_proofs ---------------------------
(***************************************************************************)
(* Proofs about DownTask, for any set of paths, any number of IDs and any  *)
(* number of requests, interruptions and crashes.                          *)
(***************************************************************************)
EXTENDS DownTask, TLAPS

-----------------------------------------------------------------------------
(***************************************************************************)
(* Rows of the table DOWN.                                                 *)
(***************************************************************************)

\* What SET STATUS does to a row.
LEMMA SetStatus ==
  ASSUME NEW row \in Row, NEW st \in Status
  PROVE  /\ [row EXCEPT !.st = st] \in Row
         /\ [row EXCEPT !.st = st].path = row.path
         /\ [row EXCEPT !.st = st].st = st
  BY DEF Row

\* The outcome of a download leaves the row its path, or deletes the row.
LEMMA WrittenRow ==
  ASSUME TypeOK, NEW row \in Row
  PROVE  /\ WrittenBack(row) \in Row
         /\ WrittenBack(row).path = IF ret \in {"ok", "gone"} \/ row.path = NoPath
                                    THEN NoPath ELSE task.path
  <1>1. NoRow \in Row /\ NoRow.path = NoPath
    BY DEF NoRow, Row, AnyPath, Status
  <1>2. Unfinished(row.st) \in Status /\ task.path \in AnyPath
    BY DEF Unfinished, Status, TypeOK
  <1>3. [path |-> task.path, st |-> Unfinished(row.st)] \in Row
    BY <1>2 DEF Row
  <1> QED  BY <1>1, <1>3 DEF WrittenBack

-----------------------------------------------------------------------------
(***************************************************************************)
(* Type correctness, together with the paths that the control thread and a *)
(* deletion carry from one section to the next.                            *)
(***************************************************************************)
TaskPath == pc \in {"set", "down", "write"} => task.path \in Path

Typed == TypeOK /\ WebPath /\ TaskPath

LEMMA TypedInit == Init => Typed
  <1> SUFFICES ASSUME Init PROVE Typed
    OBVIOUS
  <1> USE MaxIdAssumption, MaxOpsAssumption
  <1>1. NoRow \in Row /\ NoTask \in [id : Id, path : AnyPath, st : Status]
    BY DEF NoRow, Row, NoTask, AnyPath, Status, Id
  <1>2. down \in [Id -> Row]
    BY <1>1 DEF Init
  <1>3. nextId \in 1 .. MaxId + 1 /\ ops \in 0 .. MaxOps
    BY DEF Init
  <1> QED
    BY <1>1, <1>2, <1>3
       DEF Init, Typed, TypeOK, WebPath, TaskPath, NoWeb, Idle, AnyPath

LEMMA TypedGet == Typed /\ get_download_task => Typed'
  <1> SUFFICES ASSUME Typed, get_download_task PROVE Typed'
    OBVIOUS
  <1> USE DEF Typed, TypeOK
  <1>1. PICK i \in Id :
          /\ i \in Candidates
          /\ down' = [down EXCEPT ![i].st = "ing"]
          /\ task' = [id |-> i, path |-> down[i].path, st |-> down[i].st]
    BY DEF get_download_task, IsFirst
  <1>2. down[i] \in Row /\ [down[i] EXCEPT !.st = "ing"] \in Row
    BY SetStatus DEF Status
  <1>3. down' \in [Id -> Row]
    BY <1>1, <1>2
  <1>4. task' \in [id : Id, path : AnyPath, st : Status]
    BY <1>1, <1>2 DEF Row
  <1>5. task'.path \in Path
    BY <1>1, <1>2 DEF Candidates, Rows, Row, AnyPath
  <1> QED  BY <1>3, <1>4, <1>5 DEF get_download_task, WebPath, TaskPath

LEMMA TypedControl == Typed /\ Control => Typed'
  <1> SUFFICES ASSUME Typed, Control PROVE Typed'
    OBVIOUS
  <1> USE DEF Typed, TypeOK
  <1>1. CASE get_download_task
    BY <1>1, TypedGet
  <1>2. CASE NoTaskFound
    BY <1>2 DEF NoTaskFound, tables, WebPath, TaskPath
  <1>3. CASE cloud_clean_downprogress
    <2>1. Idle \in [path : AnyPath, interp : BOOLEAN]
      BY DEF Idle, AnyPath
    <2> QED  BY <1>3, <2>1 DEF cloud_clean_downprogress, tables, WebPath, TaskPath
  <1>4. CASE cloud_set_downprogress
    <2>1. dp' \in [path : AnyPath, interp : BOOLEAN]
      BY <1>4 DEF cloud_set_downprogress
    <2> QED  BY <1>4, <2>1 DEF cloud_set_downprogress, tables, WebPath, TaskPath
  <1>5. CASE Fetched \/ NotInCloud \/ Interrupted
    BY <1>5 DEF Fetched, NotInCloud, Interrupted, tables, WebPath, TaskPath
  <1>6. CASE GivenUp
    BY <1>6 DEF GivenUp, tables, WebPath, TaskPath
  <1>7. CASE TriedOut
    <2>1. task' \in [id : Id, path : AnyPath, st : Status] /\ task'.path = task.path
      BY <1>7 DEF TriedOut, Status
    <2> QED  BY <1>7, <2>1 DEF TriedOut, tables, WebPath, TaskPath
  <1>8. CASE set_download_task
    <2>1. WrittenBack(down[task.id]) \in Row
      BY WrittenRow
    <2>2. down' \in [Id -> Row]
      BY <1>8, <2>1 DEF set_download_task
    <2>3. NoTask \in [id : Id, path : AnyPath, st : Status]
      BY MaxIdAssumption DEF NoTask, AnyPath, Status, Id
    <2> QED  BY <1>8, <2>2, <2>3 DEF set_download_task, WebPath, TaskPath
  <1> QED
    BY <1>1, <1>2, <1>3, <1>4, <1>5, <1>6, <1>7, <1>8 DEF Control

\* The requests that write a status, and what they leave alone.
LEMMA UpdateStep ==
  ASSUME TypeOK,
         \/ \E p \in Path : StartRecord(p) \/ OperationPause(p)
         \/ StartAll \/ PauseUpdate \/ PauseAllUpdate
  PROVE  /\ down' \in [Id -> Row]
         /\ \A i \in Id : down'[i].path = down[i].path
  <1>1. \A i \in Id : down[i] \in Row
    BY DEF TypeOK
  <1>2. "wait" \in Status /\ "susp" \in Status
    BY DEF Status
  <1>3. ASSUME NEW p, NEW st \in Status, down' = UpdatePath(p, st)
        PROVE  down' \in [Id -> Row] /\ \A i \in Id : down'[i].path = down[i].path
    BY <1>1, <1>3, SetStatus DEF UpdatePath
  <1>4. CASE \E p \in Path : StartRecord(p) \/ OperationPause(p)
    BY <1>2, <1>3, <1>4 DEF StartRecord, OperationPause
  <1>5. CASE PauseUpdate
    BY <1>2, <1>3, <1>5 DEF PauseUpdate
  <1>6. CASE StartAll
    BY <1>1, <1>2, <1>6, SetStatus DEF StartAll
  <1>7. CASE PauseAllUpdate
    BY <1>1, <1>2, <1>7, SetStatus DEF PauseAllUpdate
  <1> QED  BY <1>4, <1>5, <1>6, <1>7

\* Interrupting a download sets a flag, and nothing else.
LEMMA InterpStep ==
  ASSUME TypeOK, NEW p \in Path, InterpPath(p)
  PROVE  dp' \in [path : AnyPath, interp : BOOLEAN]
  <1> DEFINE b == dp.interp \/ dp.path = p
  <1>1. dp' = [dp EXCEPT !.interp = b] /\ b \in BOOLEAN
    BY DEF InterpPath, TypeOK
  <1> HIDE DEF b
  <1> QED  BY <1>1 DEF TypeOK

LEMMA TypedWeb == Typed /\ Web => Typed'
  <1> SUFFICES ASSUME Typed, Web PROVE Typed'
    OBVIOUS
  <1> USE DEF Typed, TypeOK
  <1> DEFINE Ops == {"none", "pause", "pausing", "wait", "pauseall", "delete", "mark"}
  <1>1. ASSUME Disturb PROVE ops' \in 0 .. MaxOps
    BY <1>1, MaxOpsAssumption DEF Disturb
  <1>2. NoWeb \in [op : Ops, path : AnyPath] /\ NoWeb.op = "none"
    BY DEF NoWeb, AnyPath
  <1>3. ASSUME NEW p \in Path, StartRecord(p) \/ OperationPause(p) PROVE Typed'
    BY <1>1, <1>3, UpdateStep
       DEF StartRecord, OperationPause, control, WebPath, TaskPath
  <1>4. CASE StartAll
    BY <1>1, <1>4, UpdateStep DEF StartAll, control, WebPath, TaskPath
  <1>5. ASSUME NEW p \in Path, PauseInterp(p) \/ DeleteInterp(p) PROVE Typed'
    <2>1. dp' \in [path : AnyPath, interp : BOOLEAN]
      BY <1>5, InterpStep DEF PauseInterp, DeleteInterp
    <2>2. web' \in [op : Ops, path : AnyPath] /\ web'.path \in Path
      BY <1>5 DEF PauseInterp, DeleteInterp, AnyPath
    <2> QED
      BY <1>1, <1>5, <2>1, <2>2
         DEF PauseInterp, DeleteInterp, tables, control, WebPath, TaskPath
  <1>6. ASSUME NEW p \in Path, DoneOperation(p) PROVE Typed'
    BY <1>1, <1>6 DEF DoneOperation, tables, control, WebPath, TaskPath
  <1>7. CASE PauseUpdate
    <2>1. web' \in [op : Ops, path : AnyPath] /\ web'.op \notin {"delete", "mark"}
      BY <1>2, <1>7 DEF PauseUpdate
    <2> QED  BY <1>7, <2>1, UpdateStep DEF PauseUpdate, control, WebPath, TaskPath
  <1>8. CASE PauseWaited
    BY <1>2, <1>8 DEF PauseWaited, tables, control, WebPath, TaskPath
  <1>9. CASE PauseAllInterp
    <2>1. dp' \in [path : AnyPath, interp : BOOLEAN]
      BY <1>9 DEF PauseAllInterp
    <2>2. web' \in [op : Ops, path : AnyPath] /\ web'.op = "pauseall"
      BY <1>9 DEF PauseAllInterp, AnyPath
    <2> QED
      BY <1>1, <1>9, <2>1, <2>2 DEF PauseAllInterp, tables, control, WebPath, TaskPath
  <1>10. CASE PauseAllUpdate
    BY <1>2, <1>10, UpdateStep DEF PauseAllUpdate, control, WebPath, TaskPath
  <1>11. CASE DeleteRow
    <2>1. down' \in [Id -> Row]
      BY <1>11 DEF DeleteRow, NoRow, Row, AnyPath, Status
    <2>2. web' \in [op : Ops, path : AnyPath] /\ web'.path = web.path
      BY <1>11 DEF DeleteRow
    <2>3. web.path \in Path
      BY <1>11 DEF DeleteRow, WebPath
    <2> QED  BY <1>11, <2>1, <2>2, <2>3 DEF DeleteRow, control, WebPath, TaskPath
  <1>12. CASE DeleteMark
    BY <1>2, <1>12 DEF DeleteMark, control, WebPath, TaskPath
  <1> QED
    BY <1>3, <1>4, <1>5, <1>6, <1>7, <1>8, <1>9, <1>10, <1>11, <1>12 DEF Web

LEMMA TypedRest == Typed /\ (Listing \/ Crash \/ UNCHANGED vars) => Typed'
  <1> SUFFICES ASSUME Typed, Listing \/ Crash \/ UNCHANGED vars PROVE Typed'
    OBVIOUS
  <1> USE DEF Typed, TypeOK
  <1>1. ASSUME NEW p \in Path, ListFile(p) PROVE Typed'
    BY <1>1 DEF ListFile, tables, control, AnyPath, WebPath, TaskPath
  <1>2. CASE pcs_update_down_table
    <2>1. list \in Path
      BY <1>2 DEF pcs_update_down_table, AnyPath
    <2>2. [path |-> list, st |-> "wait"] \in Row
      BY <2>1 DEF Row, AnyPath, Status
    <2>3. down' \in [Id -> Row]
      BY <1>2, <2>2 DEF pcs_update_down_table
    <2>4. nextId' \in 1 .. MaxId + 1
      BY <1>2, MaxIdAssumption DEF pcs_update_down_table, NewId, Id
    <2>5. owed' \subseteq Path /\ list' \in AnyPath
      BY <1>2, <2>1 DEF pcs_update_down_table, AnyPath
    <2> QED
      BY <1>2, <2>3, <2>4, <2>5 DEF pcs_update_down_table, control, WebPath, TaskPath
  <1>3. CASE Crash
    <2>1. NoTask \in [id : Id, path : AnyPath, st : Status]
      BY MaxIdAssumption DEF NoTask, AnyPath, Status, Id
    <2>2. Idle \in [path : AnyPath, interp : BOOLEAN]
      BY DEF Idle, AnyPath
    <2>3. NoWeb \in [op : {"none", "pause", "pausing", "wait", "pauseall", "delete", "mark"},
                     path : AnyPath] /\ NoWeb.op = "none"
      BY DEF NoWeb, AnyPath
    <2>4. ops' \in 0 .. MaxOps
      BY <1>3, MaxOpsAssumption DEF Crash, Disturb
    <2> QED
      BY <1>3, <2>1, <2>2, <2>3, <2>4 DEF Crash, tables, AnyPath, WebPath, TaskPath
  <1>4. CASE UNCHANGED vars
    BY <1>4 DEF vars, WebPath, TaskPath
  <1> QED  BY <1>1, <1>2, <1>3, <1>4 DEF Listing

LEMMA TypedStep == Typed /\ [Next]_vars => Typed'
  BY TypedControl, TypedWeb, TypedRest DEF Next

\* The tables, the records of the threads and the requests keep their types;
\* no more IDs are used than the bound allows.
THEOREM TypeCorrect == Spec => []TypeOK
  <1>1. Typed => TypeOK
    BY DEF Typed
  <1> QED  BY <1>1, TypedInit, TypedStep, PTL DEF Spec

-----------------------------------------------------------------------------
(***************************************************************************)
(* The inductive invariant.                                                *)
(***************************************************************************)
LEMMA IInvTyped == IInv => Typed
  BY DEF IInv, Typed, TaskRow, TaskPath

LEMMA IInvInit == Init => IInv
  <1> SUFFICES ASSUME Init PROVE IInv
    OBVIOUS
  <1>1. Typed
    BY TypedInit
  <1>2. \A i \in Id : down[i].path = NoPath
    BY DEF Init, NoRow
  <1> QED
    BY <1>1, <1>2
       DEF Init, IInv, Typed, FreshIds, TaskRow, IdNamesTask, WritesPaid,
           OwedIsQueued, NoDuplicateRows, Rows

\* The part of the invariant that is about the tables depends on the paths in
\* DOWN, the next ID and the debt, and not on the status of any row.
Tables == FreshIds /\ OwedIsQueued /\ NoDuplicateRows

LEMMA TablesKept ==
  ASSUME Tables, \A i \in Id : down'[i].path = down[i].path,
         nextId' = nextId, owed' \subseteq owed
  PROVE  Tables'
  BY DEF Tables, FreshIds, OwedIsQueued, NoDuplicateRows, Rows, RowsOf

\* And the part about the control thread, on the paths in DOWN, its own
\* record and the debt.
LEMMA QuietStep ==
  ASSUME IInv, Typed', \A i \in Id : down'[i].path = down[i].path,
         UNCHANGED <<nextId, owed, pc, task, ret>>
  PROVE  IInv'
  <1>1. Tables'
    BY TablesKept DEF IInv, Tables
  <1>2. task.id \in Id
    BY DEF IInv, TypeOK
  <1>3. TaskRow' /\ WritesPaid'
    BY <1>2 DEF IInv, TaskRow, IdNamesTask, WritesPaid
  <1> QED  BY <1>1, <1>3 DEF IInv, Typed, Tables

\* A record taken, set up or given up keeps its ID and path.
LEMMA IInvGet ==
  ASSUME IInv, Typed', get_download_task PROVE IInv'
  <1> USE DEF IInv
  <1>1. PICK i \in Id :
          /\ i \in Candidates
          /\ down' = [down EXCEPT ![i].st = "ing"]
          /\ task' = [id |-> i, path |-> down[i].path, st |-> down[i].st]
    BY DEF get_download_task, IsFirst
  <1>2. task'.id = i /\ task'.path = down[i].path /\ down[i].path # NoPath
    BY <1>1 DEF Candidates, Rows
  <1>3. \A j \in Id : down'[j].path = down[j].path
    <2>1. \A j \in Id : down[j] \in Row
      BY DEF TypeOK
    <2> QED  BY <1>1, <2>1, SetStatus DEF Status, TypeOK
  <1>4. Tables'
    BY <1>3, TablesKept DEF get_download_task, Tables
  <1>5. TaskRow'
    <2>1. i < nextId
      BY <1>2 DEF FreshIds, Id, TypeOK
    <2>2. nextId' = nextId /\ pc' = "set"
      BY DEF get_download_task
    <2> QED  BY <1>2, <1>3, <2>1, <2>2 DEF TaskRow, IdNamesTask, Typed, TaskPath
  <1>6. WritesPaid'
    BY DEF get_download_task, WritesPaid
  <1> QED  BY <1>4, <1>5, <1>6 DEF Typed, Tables

LEMMA IInvControl ==
  ASSUME IInv, Typed', Control PROVE IInv'
  <1> USE DEF IInv
  <1>1. CASE get_download_task
    BY <1>1, IInvGet
  <1>2. CASE NoTaskFound \/ cloud_clean_downprogress \/ cloud_set_downprogress
    <2>1. UNCHANGED <<down, nextId, owed, task>>
      BY <1>2 DEF NoTaskFound, cloud_clean_downprogress, cloud_set_downprogress, tables
    <2>2. \/ pc' \in {"clean", "get"}
          \/ pc = "set" /\ pc' = "down"
      BY <1>2 DEF NoTaskFound, cloud_clean_downprogress, cloud_set_downprogress
    <2>3. Tables'
      BY <2>1, TablesKept DEF Tables
    <2> QED
      BY <2>1, <2>2, <2>3 DEF TaskRow, IdNamesTask, WritesPaid, Typed, Tables
  <1>3. CASE Fetched \/ NotInCloud
    <2>1. UNCHANGED <<down, nextId, task>> /\ owed' = owed \ {task.path}
          /\ pc = "down" /\ pc' = "write"
      BY <1>3 DEF Fetched, NotInCloud, tables
    <2>2. Tables'
      BY <2>1, TablesKept DEF Tables
    <2> QED  BY <2>1, <2>2 DEF TaskRow, IdNamesTask, WritesPaid, Typed, Tables
  <1>4. CASE Interrupted \/ GivenUp \/ TriedOut
    <2>1. UNCHANGED <<down, nextId, owed>> /\ pc = "down" /\ pc' = "write"
          /\ ret' = "stop" /\ task'.id = task.id /\ task'.path = task.path
      BY <1>4 DEF Interrupted, GivenUp, TriedOut, tables, TypeOK
    <2>2. Tables'
      BY <2>1, TablesKept DEF Tables
    <2> QED  BY <2>1, <2>2 DEF TaskRow, IdNamesTask, WritesPaid, Typed, Tables
  <1>5. CASE set_download_task
    <2> DEFINE k == task.id
    <2>1. k \in Id /\ down[k] \in Row /\ pc = "write" /\ pc' = "get"
          /\ UNCHANGED <<nextId, owed>>
      BY <1>5 DEF set_download_task, TypeOK
    <2>2. down'[k] = WrittenBack(down[k]) /\ \A j \in Id : j # k => down'[j] = down[j]
      BY <1>5, <2>1 DEF set_download_task, TypeOK
    <2>3. down'[k].path = IF ret \in {"ok", "gone"} \/ down[k].path = NoPath
                          THEN NoPath ELSE task.path
      BY <2>1, <2>2, WrittenRow
    <2>4. down[k].path \in {task.path, NoPath}
      BY <2>1 DEF TaskRow, IdNamesTask
    <2> HIDE DEF k
    <2>5. down'[k].path \in {down[k].path, NoPath}
      BY <2>3, <2>4
    <2>6. FreshIds'
      BY <2>1, <2>2, <2>5 DEF FreshIds
    <2>7. NoDuplicateRows'
      BY <2>1, <2>2, <2>5 DEF NoDuplicateRows, Rows
    <2>8. OwedIsQueued'
      <3>1. SUFFICES ASSUME NEW p \in owed PROVE \E j \in Id : down'[j].path = p /\ p # NoPath
        BY <2>1 DEF OwedIsQueued, RowsOf, Rows
      <3>2. PICK j \in Id : down[j].path = p /\ p # NoPath
        BY DEF OwedIsQueued, RowsOf, Rows
      <3>3. CASE j # k
        BY <3>2, <3>3, <2>2
      <3>4. CASE j = k
        <4>1. p = task.path
          BY <2>4, <3>2, <3>4
        <4>2. ret \notin {"ok", "gone"}
          BY <2>1, <3>2, <3>4, <4>1 DEF WritesPaid, k
        <4> QED  BY <2>3, <3>2, <3>4, <4>1, <4>2
      <3> QED  BY <3>3, <3>4
    <2>9. TaskRow' /\ WritesPaid'
      BY <2>1 DEF TaskRow, IdNamesTask, WritesPaid
    <2> QED  BY <2>6, <2>7, <2>8, <2>9 DEF Typed
  <1> QED  BY <1>1, <1>2, <1>3, <1>4, <1>5 DEF Control

LEMMA IInvDeleteRow ==
  ASSUME IInv, Typed', DeleteRow PROVE IInv'
  <1> USE DEF IInv
  <1>1. UNCHANGED <<nextId, pc, task, ret>> /\ owed' = owed \ {web.path}
    BY DEF DeleteRow, control
  <1>2. \A i \in Id : down'[i].path = IF down[i].path = web.path THEN NoPath
                                      ELSE down[i].path
    BY DEF DeleteRow, RowsOf, Rows, NoRow
  <1>3. FreshIds' /\ NoDuplicateRows'
    BY <1>1, <1>2 DEF FreshIds, NoDuplicateRows, Rows
  <1>4. OwedIsQueued'
    BY <1>1, <1>2 DEF OwedIsQueued, RowsOf, Rows
  <1>5. task.id \in Id
    BY DEF TypeOK
  <1>6. TaskRow' /\ WritesPaid'
    BY <1>1, <1>2, <1>5 DEF TaskRow, IdNamesTask, WritesPaid
  <1> QED  BY <1>3, <1>4, <1>6 DEF Typed

LEMMA IInvInsert ==
  ASSUME IInv, Typed', pcs_update_down_table PROVE IInv'
  <1> USE DEF IInv
  <1>1. UNCHANGED <<pc, task, ret>> /\ list \in Path /\ list # NoPath
    BY PathAssumption DEF pcs_update_down_table, control, TypeOK, AnyPath
  <1>2. CASE list \notin detable /\ RowsOf(list) = {} /\ nextId \in Id
    <2>1. /\ down'[nextId].path = list
          /\ \A i \in Id : i # nextId => down'[i] = down[i]
          /\ nextId' = nextId + 1 /\ owed' = owed \cup {list}
      BY <1>2 DEF pcs_update_down_table, NewId, TypeOK
    <2>2. \A i \in Id : down[i].path # list
      BY <1>1, <1>2 DEF RowsOf, Rows
    <2>3. down[nextId].path = NoPath
      BY <1>2 DEF FreshIds, Id
    <2>4. FreshIds'
      BY <1>2, <2>1 DEF FreshIds, Id
    <2>5. NoDuplicateRows'
      BY <2>1, <2>2 DEF NoDuplicateRows, Rows
    <2>6. OwedIsQueued'
      <3>1. SUFFICES ASSUME NEW p \in owed'
                     PROVE  \E j \in Id : down'[j].path = p /\ p # NoPath
        BY DEF OwedIsQueued, RowsOf, Rows
      <3>2. CASE p = list
        BY <3>2, <1>1, <1>2, <2>1
      <3>3. CASE p \in owed
        BY <3>3, <2>1, <2>3 DEF OwedIsQueued, RowsOf, Rows
      <3> QED  BY <3>1, <3>2, <3>3, <2>1
    <2>7. TaskRow'
      <3>1. CASE pc \in {"set", "down", "write"}
        <4>1. task.id # nextId /\ task.id < nextId'
          BY <3>1, <1>2, <2>1 DEF TaskRow, TypeOK, Id
        <4> QED  BY <3>1, <4>1, <1>1, <2>1 DEF TaskRow, IdNamesTask, TypeOK
      <3>2. CASE pc \notin {"set", "down", "write"}
        BY <3>2, <1>1 DEF TaskRow, IdNamesTask
      <3> QED  BY <3>1, <3>2
    <2>8. WritesPaid'
      <3>1. SUFFICES ASSUME pc = "write", ret \in {"ok", "gone"},
                            down'[task.id].path = task.path
                     PROVE  task.path \notin owed'
        BY <1>1 DEF WritesPaid
      <3>2. task.id \in Id /\ task.id # nextId
        BY <3>1, <1>2 DEF TaskRow, TypeOK, Id
      <3>3. down[task.id].path = task.path
        BY <3>1, <3>2, <2>1
      <3> QED  BY <3>1, <3>2, <3>3, <2>1, <2>2 DEF WritesPaid
    <2> QED  BY <2>4, <2>5, <2>6, <2>7, <2>8 DEF Typed
  <1>3. CASE ~(list \notin detable /\ RowsOf(list) = {} /\ nextId \in Id)
    BY <1>1, <1>3, QuietStep DEF pcs_update_down_table, NewId
  <1> QED  BY <1>2, <1>3

LEMMA IInvCrash ==
  ASSUME IInv, Typed', Crash PROVE IInv'
  <1> USE DEF IInv
  <1>1. UNCHANGED <<down, nextId, owed>> /\ pc' = "get"
    BY DEF Crash, tables
  <1>2. Tables'
    BY <1>1, TablesKept DEF Tables
  <1>3. TaskRow' /\ WritesPaid'
    BY <1>1 DEF TaskRow, IdNamesTask, WritesPaid
  <1> QED  BY <1>2, <1>3 DEF Typed, Tables

LEMMA IInvWeb ==
  ASSUME IInv, Typed', Web PROVE IInv'
  <1>1. CASE DeleteRow
    BY <1>1, IInvDeleteRow
  <1>2. CASE \/ \E p \in Path : StartRecord(p) \/ OperationPause(p)
             \/ StartAll \/ PauseUpdate \/ PauseAllUpdate
    <2>1. UNCHANGED <<nextId, owed, pc, task, ret>>
      BY <1>2 DEF StartRecord, OperationPause, StartAll, PauseUpdate,
                  PauseAllUpdate, control
    <2>2. TypeOK
      BY DEF IInv
    <2> QED  BY <1>2, <2>1, <2>2, UpdateStep, QuietStep
  <1>3. CASE \/ \E p \in Path : PauseInterp(p) \/ DeleteInterp(p) \/ DoneOperation(p)
             \/ PauseWaited \/ PauseAllInterp \/ DeleteMark
    <2>1. UNCHANGED <<down, nextId, owed, pc, task, ret>>
      BY <1>3 DEF PauseInterp, DeleteInterp, DoneOperation, PauseWaited,
                  PauseAllInterp, DeleteMark, tables, control
    <2> QED  BY <2>1, QuietStep
  <1> QED  BY <1>1, <1>2, <1>3 DEF Web

LEMMA IInvStep == IInv /\ [Next]_vars => IInv'
  <1> SUFFICES ASSUME IInv, [Next]_vars PROVE IInv'
    OBVIOUS
  <1>1. Typed'
    BY IInvTyped, TypedStep
  <1>2. CASE (\E p \in Path : ListFile(p)) \/ UNCHANGED vars
    <2>1. UNCHANGED <<down, nextId, owed, pc, task, ret>>
      BY <1>2 DEF ListFile, tables, control, vars
    <2> QED  BY <1>1, <2>1, QuietStep
  <1> QED
    BY <1>1, <1>2, IInvControl, IInvWeb, IInvInsert, IInvCrash DEF Next, Listing

LEMMA Invariance == Spec => []IInv
  BY IInvInit, IInvStep, PTL DEF Spec

\* The outcome of a download is never written to another file's row, whatever
\* was deleted and queued while it ran.
THEOREM IdsNameTheirTask == Spec => []IdNamesTask
  <1>1. IInv => IdNamesTask
    BY DEF IInv, TaskRow
  <1> QED  BY <1>1, Invariance, PTL

\* No file that is still to be fetched drops out of the queue.
THEOREM NothingForgotten == Spec => []OwedIsQueued
  <1>1. IInv => OwedIsQueued
    BY DEF IInv
  <1> QED  BY <1>1, Invariance, PTL

\* A file is in the queue once, so it is not downloaded twice.
THEOREM QueuedOnce == Spec => []NoDuplicateRows
  <1>1. IInv => NoDuplicateRows
    BY DEF IInv
  <1> QED  BY <1>1, Invariance, PTL

-----------------------------------------------------------------------------
(***************************************************************************)
(* A suspended record stays suspended.                                     *)
(***************************************************************************)
Resumed(i) == down[i].st = "susp" /\ down'[i].path # NoPath /\ down'[i].st # "susp"

UserStarts == StartAll \/ \E p \in Path : StartRecord(p)

\* Steps that leave the row of ID i as it is, suspend it or remove it.
LEMMA NotResumed ==
  ASSUME NEW i \in Id,
         \/ down'[i] = down[i]
         \/ down'[i].st = "susp"
         \/ down'[i].path = NoPath
  PROVE  ~Resumed(i)
  BY DEF Resumed

LEMMA SuspendedStep ==
  ASSUME IInv, Next, ~UserStarts, NEW i \in Rows PROVE ~Resumed(i)
  <1> USE DEF IInv
  <1>1. i \in Id /\ down[i] \in Row /\ down[i].path # NoPath
    BY DEF Rows, TypeOK
  <1>2. CASE get_download_task
    <2>1. PICK k \in Id : k \in Candidates /\ down' = [down EXCEPT ![k].st = "ing"]
      BY <1>2 DEF get_download_task, IsFirst
    <2>2. CASE k = i
      BY <2>1, <2>2 DEF Candidates, Resumed
    <2>3. CASE k # i
      BY <2>1, <2>3, <1>1, NotResumed DEF TypeOK
    <2> QED  BY <2>2, <2>3
  <1>3. CASE set_download_task
    <2>1. down' = [down EXCEPT ![task.id] = WrittenBack(@)]
      BY <1>3 DEF set_download_task
    <2>2. CASE task.id = i
      <3>1. down'[i] = WrittenBack(down[i])
        BY <2>1, <2>2, <1>1 DEF TypeOK
      <3>2. down[i].st = "susp" => \/ WrittenBack(down[i]).path = NoPath
                                   \/ WrittenBack(down[i]).st = "susp"
        BY DEF WrittenBack, Unfinished, NoRow
      <3> QED  BY <3>1, <3>2 DEF Resumed
    <2>3. CASE task.id # i
      BY <2>1, <2>3, <1>1, NotResumed DEF TypeOK
    <2> QED  BY <2>2, <2>3
  <1>4. CASE pcs_update_down_table
    <2>1. nextId \in Id => i # nextId
      BY <1>1 DEF FreshIds, TypeOK, Id
    <2>2. down'[i] = down[i]
      BY <1>1, <1>4, <2>1 DEF pcs_update_down_table, NewId, TypeOK
    <2> QED  BY <1>1, <2>2, NotResumed
  <1>5. CASE DeleteRow
    <2>1. down'[i] = NoRow \/ down'[i] = down[i]
      BY <1>1, <1>5 DEF DeleteRow
    <2> QED  BY <1>1, <2>1, NotResumed DEF NoRow
  <1>6. CASE (\E p \in Path : OperationPause(p)) \/ PauseUpdate
    <2>1. PICK p : down' = UpdatePath(p, "susp")
      BY <1>6 DEF OperationPause, PauseUpdate
    <2>2. down'[i] = down[i] \/ down'[i].st = "susp"
      BY <1>1, <2>1, SetStatus DEF UpdatePath, Status
    <2> QED  BY <1>1, <2>2, NotResumed
  <1>7. CASE PauseAllUpdate
    <2>1. down'[i].st = "susp"
      BY <1>1, <1>7, SetStatus DEF PauseAllUpdate, Status
    <2> QED  BY <1>1, <2>1, NotResumed
  <1>8. ASSUME UNCHANGED down PROVE ~Resumed(i)
    BY <1>1, <1>8, NotResumed
  <1>9. CASE \/ NoTaskFound \/ cloud_clean_downprogress \/ cloud_set_downprogress
             \/ Fetched \/ NotInCloud \/ Interrupted \/ GivenUp \/ TriedOut
             \/ (\E p \in Path : PauseInterp(p) \/ DeleteInterp(p) \/ DoneOperation(p))
             \/ PauseWaited \/ PauseAllInterp \/ DeleteMark
             \/ (\E p \in Path : ListFile(p)) \/ Crash
    <2>1. UNCHANGED down
      BY <1>9 DEF NoTaskFound, cloud_clean_downprogress, cloud_set_downprogress,
           Fetched, NotInCloud, Interrupted, GivenUp, TriedOut, PauseInterp,
           DeleteInterp, DoneOperation, PauseWaited, PauseAllInterp, DeleteMark,
           ListFile, Crash, tables
    <2> QED  BY <1>8, <2>1
  <1> QED
    BY <1>2, <1>3, <1>4, <1>5, <1>6, <1>7, <1>9
       DEF Next, Control, Web, Listing, UserStarts

\* Only the user's start request takes a record out of SUSPEND: not the outcome
\* of the download that was running, not the listing, not a crash.
THEOREM OnlyTheUserResumes == Spec => SuspendedStays
  <1>1. IInv /\ [Next]_vars =>
          [\A i \in Rows :
             down[i].st = "susp" /\ down'[i].path # NoPath /\ down'[i].st # "susp"
             => StartAll \/ \E p \in Path : StartRecord(p)]_vars
    BY SuspendedStep DEF Resumed, UserStarts
  <1> QED  BY <1>1, Invariance, PTL DEF Spec, SuspendedStays

-----------------------------------------------------------------------------
(***************************************************************************)
(* And a record is suspended by the user alone.                            *)
(***************************************************************************)
Suspended(i) == down[i].st # "susp" /\ down'[i].st = "susp"

UserPauses == PauseUpdate \/ PauseAllUpdate \/ \E p \in Path : OperationPause(p)

LEMMA StartedStep ==
  ASSUME IInv, Next, ~UserPauses, NEW i \in Rows PROVE ~Suspended(i)
  <1> USE DEF IInv, Suspended
  <1>1. i \in Id /\ down[i] \in Row /\ down[i].path # NoPath
    BY DEF Rows, TypeOK
  <1>2. CASE get_download_task
    <2>1. PICK k \in Id : down' = [down EXCEPT ![k].st = "ing"]
      BY <1>2 DEF get_download_task
    <2>2. CASE k = i
      BY <1>1, <2>1, <2>2, SetStatus DEF TypeOK, Status
    <2>3. CASE k # i
      BY <1>1, <2>1, <2>3 DEF TypeOK
    <2> QED  BY <2>2, <2>3
  <1>3. CASE set_download_task
    <2>1. down' = [down EXCEPT ![task.id] = WrittenBack(@)]
      BY <1>3 DEF set_download_task
    <2>2. CASE task.id = i
      <3>1. down'[i] = WrittenBack(down[i])
        BY <1>1, <2>1, <2>2 DEF TypeOK
      <3>2. down[i].st # "susp" => WrittenBack(down[i]).st # "susp"
        BY DEF WrittenBack, Unfinished, NoRow
      <3> QED  BY <3>1, <3>2
    <2>3. CASE task.id # i
      BY <1>1, <2>1, <2>3 DEF TypeOK
    <2> QED  BY <2>2, <2>3
  <1>4. CASE pcs_update_down_table
    <2>1. nextId \in Id => i # nextId
      BY <1>1 DEF FreshIds, TypeOK, Id
    <2>2. down'[i] = down[i]
      BY <1>1, <1>4, <2>1 DEF pcs_update_down_table, NewId, TypeOK
    <2> QED  BY <2>2
  <1>5. CASE DeleteRow
    <2>1. down'[i] = NoRow \/ down'[i] = down[i]
      BY <1>1, <1>5 DEF DeleteRow
    <2> QED  BY <2>1 DEF NoRow
  <1>6. CASE \E p \in Path : StartRecord(p)
    <2>1. PICK p : down' = UpdatePath(p, "wait")
      BY <1>6 DEF StartRecord
    <2>2. down'[i] = down[i] \/ down'[i].st = "wait"
      BY <1>1, <2>1, SetStatus DEF UpdatePath, Status
    <2> QED  BY <2>2
  <1>7. CASE StartAll
    <2>1. down'[i] = down[i] \/ down'[i].st = "wait"
      BY <1>1, <1>7, SetStatus DEF StartAll, Status
    <2> QED  BY <2>1
  <1>8. CASE \/ NoTaskFound \/ cloud_clean_downprogress \/ cloud_set_downprogress
             \/ Fetched \/ NotInCloud \/ Interrupted \/ GivenUp \/ TriedOut
             \/ (\E p \in Path : PauseInterp(p) \/ DeleteInterp(p) \/ DoneOperation(p))
             \/ PauseWaited \/ PauseAllInterp \/ DeleteMark
             \/ (\E p \in Path : ListFile(p)) \/ Crash
    <2>1. UNCHANGED down
      BY <1>8 DEF NoTaskFound, cloud_clean_downprogress, cloud_set_downprogress,
           Fetched, NotInCloud, Interrupted, GivenUp, TriedOut, PauseInterp,
           DeleteInterp, DoneOperation, PauseWaited, PauseAllInterp, DeleteMark,
           ListFile, Crash, tables
    <2> QED  BY <2>1
  <1> QED
    BY <1>2, <1>3, <1>4, <1>5, <1>6, <1>7, <1>8
       DEF Next, Control, Web, Listing, UserPauses

\* Only the user's pause request suspends a record: a start that came while the
\* download was stopping is not undone by its outcome.
THEOREM OnlyThePauseSuspends == Spec => StartedStays
  <1>1. IInv /\ [Next]_vars =>
          [\A i \in Rows :
             down[i].st # "susp" /\ down'[i].st = "susp"
             => PauseUpdate \/ PauseAllUpdate \/ \E p \in Path : OperationPause(p)]_vars
    BY StartedStep DEF Suspended, UserPauses
  <1> QED  BY <1>1, Invariance, PTL DEF Spec, StartedStays
=============================================================================
