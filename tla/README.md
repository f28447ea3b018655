# i4_BaiduPCS in TLA+

`baidupcs` is a daemon that downloads the contents of a Baidu cloud directory to
a disk and is driven by a web client.  This directory holds a formal model of
its concurrent core: TLA+ modules translated from the C source, the
configurations TLC checks them with, and theorems that TLAPS proves for every
value of the parameters.

Paths below are relative to `src/`.

## 1. The system

One process, these threads:

| thread | code | what it does |
|---|---|---|
| main | `main.c` | accepts a connection on port 8400, reads one request, hands it to an idle HTTP worker |
| 2 HTTP workers | `main.c` thread_http, `http.c` | run the handler of the request (`opt=...`), answer, close |
| thread_server | `web_api.c:2261` | lists the cloud directory, queues what is missing, watches quota, network, disk |
| thread_down_control | `web_api.c:2341` | takes one record of the queue at a time, downloads it, writes the outcome back |
| 4 x thread_down_task | `web_api.c:2382` | each downloads one segment of the current file |
| thread_login | `web_api.c:2204` | started by a login request, may ask for a verification code |

Shared state and what protects it:

| state | protected by | used by |
|---|---|---|
| `mutiServer[2]` | `m_thread`, `m_condthr` | main, HTTP workers |
| the handlers' own data | `m_mutexWeb`, except Login | HTTP workers |
| `contexWeb` (login, sync, database handle), `networkStatus`, `storageStatus` | `m_mutex`, `m_cond`; many reads without it | all |
| tables DOWN, DETABLE (SQLite), `downprogress` | `m_down`, one short section per statement | control, listing, HTTP workers |
| `mTask[4]` | nothing (the workers take `m_down` for their last writes, the control thread does not) | control, segment workers |
| the cache file `<name>.bd` with the trailer behind the data | nothing | control, segment workers, delete requests |
| `loginState`, two FIFOs | `m_login` for the word only | HTTP workers, thread_login |
| table DONE | nothing of its own | control, HTTP workers |

### Components

**Segmented download engine** (`web_api.c:395-680, 818-854, 1539-1707,
1846-2061, 2382-2485`).  State: `mTask` (per worker: segment, run flag,
interrupt flag, result), the cache file and its trailer, the attempt counter.
Operations: split a file into segments or load them from the trailer, start
the workers, poll them every half second, save the trailer, stop on interrupt
or error, publish by renaming; up to ten attempts.  Correct when a published
file is complete, when nothing that is missing is skipped by a resume, when
segments never overlap, and when every attempt ends.  Hard: the workers talk to
the control thread without a lock, the wait for them is bounded, the process
may die between any two writes, another thread may remove the file.

**Download queue** (`web_api.c:708-783, 1301-1537, 3526-3761`, `http.c`
Pause, Allact, Operation, Doneoperation).  State: rows of DOWN with a status,
DETABLE, `downprogress`.  Correct when an outcome goes to the row it belongs
to, nothing queued is lost or doubled, a pause lasts until the user resumes, a
deleted file stays deleted, and waiting records are served.  Hard: each request
is several critical sections, and the control thread holds its copy of a row
for minutes.

**HTTP front end** (`main.c`, `http.c:268-334`, `common.c:125-151`).  State:
descriptors, two slots, a condition variable, `m_mutexWeb`.  Correct when each
connection is served by one worker, answered at most once and with its own
answer, and closed.  Hard: descriptor numbers are used again at once; a worker
may be in a login that lasts for ever.

**Login** (`http.c:336-437`, `web_api.c:2204-2259, 2511-2587, 3159-3437`).
State: `loginState`, `tlogin`, two FIFOs.  Correct when a request gets the
answer of its own login, a thread is joined once, nothing of a login stays
behind, and requests return.  Hard: it is the only handler that runs beside
others, it blocks on FIFOs and joins, and one login spans several requests.

**Synchronisation and conditions** (`web_api.c:2103-2202, 2261-2380,
334-376, 682-706, 2970-3157, 3422-3525`).  State: `islogin`, `syncon`,
`networkStatus`, `storageStatus`, `m_cond`, the database handle, the PCS handle
that all threads share.  Correct when the database is open while the conditions
hold, is not closed under who uses it, a failed listing is not taken for an
empty directory, and a condition that is back is noticed.  Hard: many reads
without `m_mutex`; logout waits one second and hopes; the error message of the
shared handle is a result.

**DONE table and local copies** (`web_api.c:856-990, 1101-1299, 1710-1844`,
`http.c` Donelist, Delrecord, Doneoperation).  State: the rows with ID and
time, the files of the user's disk.  Correct when a copy has the content that
was asked for, what was just downloaded is shown, and the table stays bounded.
Hard: rows outlive files, the user changes files, two orders of one table.

**PCS library: handle, login and calls** (`pcs/pcs.c`).  State: the strings of
`struct pcs` and of a login, the error message, the session cookie.  Correct
when NULL and the error message tell the caller what happened, a login is
believed only when confirmed, ends, and frees what it owns once.  Hard: some
sixty exits of five nested functions share the freeing of a dozen strings.

**PCS library: HTTP** (`pcs/pcs_http.c`, `pcs/pcs_utils.c:78-103`).  State:
one curl handle with its options, the parsing state of the write callback, what
it collected, hand-sized buffers.  Correct when a call returns the body of the
last answer, whole.  Hard: one callback for the header lines and bodies of all
answers of a request; options that outlive requests.

**SQLite helpers, configuration, request parsing and XML, other listings for
the client, the passport cryptography, path and file helpers, vendored JSON and
UTF-8 code, daemon start**: sequential; see section 7 for what is left out and
why.

### Interaction

The queue hands one record at a time to the engine (`pcs_download_handle`) and
gets back *fetched*, *not in cloud*, *stopped* or *failed*; `DownTask` models
the engine by these outcomes and `MultiDown` models the engine in detail; what
the queue may rely on is `FileFetch`, which `MultiDown` implements.  The
front end runs one web handler at a time (`WebSerial` of `HttpPool`), which is
why `DownTask` has one web request in progress.  A delete request reaches into
the engine by removing the cache file (`WebDelete` of `MultiDown`), and into a
local copy in the same way (`DeleteTmp` of `DoneTable`).  `Sync` decides when the
queue is worked at all, and makes the calls of the PCS library; what such a call
does to the handle and its message, taken there in outline, is `PcsClient` in
detail.  `PcsLogin` is what `Login` has as one call with a result.  `PcsHttp` is
below all calls of the library; the header parsing and write path that
`MultiDown` takes for granted in a download are there.

## 2. The modules

### MultiDown and FileFetch: the download engine

One cloud file of `Size` blocks, `N` workers, `MaxTry` attempts.  A *block* is
what one write callback of libcurl stores; a block is in the `data` of a file
when the right content is at its place.  The variables `cond`, `intr`, `re`, `seg` are the
fields `CondThread`, `StatusRun`, `reCode`, `seginfo` of `mTask`; `tmp` is the
cache file with its trailer (`hdr`, `segnum`, `segs`), `local` the file at the
final path, `pc`, `why`, `try` the control thread, `res` what its last call of
`pcs_download_handle` returned, `job` the worker threads and
their transfers.  Actions have the name of the function they model; an action
with another name is an error path or a branch of the function named in its
comment (the map in `PROJECT.json` has the lines).

Where the control thread takes locks nobody else needs, or takes none, each
function is one step: `mTask` is read by it and written by a worker only in
`SetReCode`, `Leave` and the progress callback, and those are steps of their
own between any two functions of the control thread.  The end of a worker is
two steps (`Leave`, then `SetReCode`), in the order of the code.

`Faults` chooses what the environment may do beyond pauses, crashes and
connections that break: outlive the wait (`straggler`), 404 (`notfound`), error
answers with a body (`errorbody`), a crash between two writes of a trailer
(`torn`), a foreign file at the final path (`userfile`), removal of the cache
file by a web request (`delete`), a `truncate` that fails though the file is there
(`truncate`), a name made up for a second file that the file system refuses
(`longname`).

A save writes header and segments over what is on the disk and cuts nothing
(`web_api.c:467-470`, `575-578`): the segments of a longer trailer stay behind a
shorter one, and `Saved` keeps them.  With `torn` the process may die between the
two writes of a save, whatever the counts of the old and the new trailer.
The publication is as many steps as the code has calls: what `access` (631) found
may have changed when `rename` (649) is called.

`FileFetch` has what the queue sees of a download in three variables: whether
one runs, what it returned, and what is at the final path.  The file appears
there at once and whole, what is there is left alone unless it comes so late that
nobody looks again (between `access` and `rename`: file `"late"`), and a success
says that there is a file.  `FetchSpec` is the refinement mapping.

### DownTask: the queue

`down`, `nextId`, `detable` are the tables, `dp` is `downprogress`, `pc`,
`task`, `ret` the control thread, `web` the request in progress with its next
section, `list` the file `thread_server` is about to queue, `local` the files
on the disk.  `owed` is a history variable: files that were queued and since
then neither fetched, nor deleted by the user, nor found to be gone from the
cloud.  Each action is one critical section of `m_down`.  `MaxOps` counts web
requests and crashes.  A download may be given up any number of times
(`GivenUp`: the conditions went, there is no local path, or the local copy met a
full disk, `web_api.c:1756`, `1801`); its record is then put back as it was
(`PutBack`) and is the first to be taken again.

### HttpPool and WebService: the front end

`WebService` is what a client sees: a connection waits, a free worker takes it,
it is answered at most once, to its own request, and closed.  `HttpPool` has the
descriptor table (`table`; the lowest free number is handed out), the main
thread, the slots, `m_mutexWeb` and the workers' places at the condition
variable.  `ServiceSpec` instantiates `WebService` with a refinement mapping.

### Login: login and verification code

`hnd` has for each handler (an HTTP worker in Login or LogOut) where it is, its
request, and its local variables; `thr` the login threads; `login` and `code`
the two FIFOs (of the verify FIFO it matters only whether it is empty: a read
takes all of it); `session` stands for the cookies, that is, for what
`pcs_islogin` finds.  A handler's step ends where it takes `m_login`, calls the
network, reads or writes a FIFO, or joins.  `pthread_join` is two steps, the
reading of `tlogin` and the return; `tlogin = 0` is a third.  One round of the
polling loop of `verifycode` is one step, as it is one section of `m_login`.
`Waits` and `Dangles` are the outcomes of two pieces of undefined behaviour:
`fderr` is not initialised, so that `select` may fail in every round
(`"deaf"`), and `tlogin` is unspecified after a failed `pthread_create`.

### Sync: conditions, listing thread, logout

`islogin`, `syncon`, `networkStatus`, `storageStatus` are the code's own; `net`
and `disk` the world, which changes at any moment; `localdir` whether
`contexWeb.localdir` names a directory; `session` the cookies; `db`
the handle in `contexWeb` and `held` the copy of it the control thread passed to
the download; `errmsg` whether the shared PCS handle has a message; `m` the
holder of `m_mutex`.  `pc` has `thread_server`, `thread_down_control`, the worker
that holds `m_mutexWeb` and the one that runs a Login, which does without.  A
step ends where a thread takes or gives up `m_mutex`, waits, or calls the
network with others running.  `count` counts rounds modulo `Period`, which is
100 in the code.  `todo` says that DOWN has a record to take: a listing, a
request and the end of a download change it.  Between the two halves of a logout
the code has `sleep(1)` (`web_api.c:3428`) and nothing that waits for the other
threads, so the second half may come at any moment; `hasty`, a history variable,
remembers that it came before the control thread and the listing thread had seen
`islogin` gone.

### PcsHandle, PcsLogin, PanApi, PcsClient: the library

`PcsHandle` has `struct pcs`: for each string that is a field or a local of a
login whether it is NULL, live or freed (`ptr`), what was lost without being
freed (`lost`), and what was freed or read after it was freed (`bad`).
`PcsLogin` goes through `pcs_login` exit by exit, `PanApi` has the calls that
ask pan.baidu.com, by how they end and which message they leave, `PcsClient`
puts them together in any order.  `ret` is what the last call returned, with
`said`, the truth about it, as a history variable.  `Faults` admits answers of a
site that changed its pages (`layout`), a library used without a callback
(`nohook`), a page that does not name the user (`nouser`), cookies without
BDUSS (`nobduss`), and a page with a key that no value follows, or an answer
without the address to go to (`odd`).  The searches for such a key go round
without advancing (`pcs/pcs.c:235`, `237`, `339`, `364`) and never end: the call
is `"hung"` (`SearchHangs`).  Without the address a NULL is read (`pcs/pcs.c:1616`)
and the process is `"crashed"` (`JumpCrashes`).

### PcsHttp and PcsUrl: requests

`PcsHttp` delivers answers line by line and block by block to `pcs_http_write`;
`http` is `struct pcs_http`, `opt` what the curl handle remembers, `wire` what
libcurl is about to deliver, `given` what the write function of a download got.
`PcsUrl` builds addresses, bodies and formatted texts by length.

### DoneTable: history and local copies

`done` is the table, one row per ID, with the time of its last write; `disk` the
file at each path: of the cloud, of the user, alike in size or not, or none;
`tmp` the copy in progress; `source` what is read.  One action per statement,
file operation, request, and act of the user.  `fresh` is a history variable:
what was recorded for the first time by the last write.  Faults are a user who
changes a file and keeps its size, exchanges it between the `lstat` and the
`open` of the code, or writes to it or cuts it in place while it is copied (`edit`;
`InPlace`, which the open source sees), or has a file of the very size at a final path
(`userfile`), statements that fail (`sql`), and downloads that end in the same second
(`burst`).

### Proof modules

`MultiDown_proofs`, `DownTask_proofs`, `HttpPool_proofs`, `Login_proofs`,
`Sync_proofs`, `PcsClient_proofs`, `PcsHttp_proofs` and `DoneTable_proofs` extend
the module they are about; the modules themselves need no TLAPS library.

## 3. What TLC checks

| run | bounds | properties | result |
|---|---|---|---|
| MultiDown_resume | 4 blocks, 2 workers, 2 attempts, faults userfile, delete | PublishedComplete, ResumeCovers, FetchSpec | hold |
| MultiDown_chaos | 2 blocks, 2 workers, 1 attempt, faults straggler, errorbody, torn, userfile, longname, delete | TypeOK | holds |
| MultiDown_ends | 2 blocks, 2 workers, 2 attempts, faults notfound, errorbody, truncate, delete, fairness | SegmentsDisjoint, TaskEnds | hold |
| MultiDown_straggler | 3 blocks, straggler | PublishedComplete | violated |
| DownTask_queue | 2 files, 3 IDs, 2 requests or crashes, fairness | TypeOK, IdNamesTask, OwedIsQueued, NoDuplicateRows, SuspendedStays, StartedStays, WaitingServed | hold |
| HttpPool_pool | 2 workers, 3 descriptors, 4 connections, 2 logins of which 1 is stuck, fairness | NoLeak, WebSerial, ServiceSpec, AllClosed | hold |
| Login_serial | 1 handler, 2 threads, 2 codes per login, fairness | Quiet, JoinSound, OwnAnswer, LoginReturns | hold |
| Sync_ready | 2 requests (setsync, link, logout), failing calls, period 2 | DbReady, LiveDb, EmptyMeansEmpty | hold |
| Sync_live | 1 request of any kind, failing calls, a database that does not open, period 2, fairness | NetworkNoticed, DownloadsGoOn | hold |
| PcsClient_calls | one handle, any calls, faults layout, nohook, odd, fairness | TypeOK, Explained, LoginConfirmed, LoginFreesAll, NoDanglingUse, LoginEnds | hold |
| PcsHttp_handle | 3 blocks, 2 interim answers; strings to 6, 2 parameters | TypeOK, AnswerWhole, Explained, BufferFits | hold |
| DoneTable_history | 4 files, 2 alike, 5 IDs, 5 writes, table of 3, 2 shown, 2 acts | TypeOK, CopyGood, FirstShown, HistoryBounded | hold |

*Bounds.*  Two workers suffice for the interactions of the engine: every action
is about one slot and the control thread, and the two slots differ (the last
segment takes the remainder).  `Size` 4 with `Limit` 3 gives segments of two
blocks, so that a segment can be half done; `Size` 2 keeps the runs with many
faults small and still has a resumed, a torn and a shifted trailer.  Two
attempts show what one leaves to the next; an idle control thread starts
again any number of times, and crashes are not bounded at all.  In the queue
two files give races between a record in hand and another one; three IDs let a
file be deleted and queued again; `MaxOps` 2 bounds requests and crashes
together, and every race found needs two at most; listings and downloads that are
given up are not bounded.  In
the pool four connections over two slots and three descriptors make every
descriptor be used again, fill both slots and leave one connection in main's
hand.  In the login one handler is the discipline of a client that waits for
its answer; a second thread exists so that what an earlier login left behind
can be told from the present one, and two codes show the first and a repeated
one.  Requests are not bounded.

In Sync two requests are a logout and one before or after it; the system starts
logged in or out, so that what a third could prepare is there at the start.  A
period of 2 has rounds that ask for the quota and rounds that do not, and `Again`
puts the counter one round before the next.  The liveness run has one request,
because what must go on then must do so by the threads alone; it admits logins and
databases that do not open, which the other run leaves out.

A handle of the library forgets all but its
strings between calls, so `PcsClient` needs no bound at all: each call is
explored from each state of the strings.  Three blocks give ranges with a block
on each side, two interim answers a redirection after a redirection or after
100 Continue.  In `DoneTable` the table is trimmed at 3 rows to 2; the fourth
new row is the first to be trimmed, and with five writes one of them can have
rewritten a row before, which is what makes the two orders differ.  Two requests
or acts let the user put a file in the place of one that he, or a request, has
removed; with one of them nothing was ever exchanged in the middle of a copy.

*Deadlock* is checked in every run but two: in `DoneTable` writes and acts are
used up, and in `PcsClient` a call may hang or crash for good, which `LoginEnds`
tells from any other stop.

### Fairness

- `MultiDown!FairSpec`: the control thread is scheduled once a task has
  started (`WF(Advance)`), each worker is, and each transfer ends.  The last is
  what libcurl is asked for: a connect timeout and the low-speed limit.  Pauses,
  crashes and faults have no fairness.  `TaskEnds` names its one exception,
  `Unending`: all workers are through and `truncate` goes on failing.  Its run has
  no late workers; with the faults straggler, truncate and delete and one attempt
  it holds as well (three minutes of TLC).
- `DownTask!FairSpec`: the control thread is scheduled.  That a download ends is
  not assumed: `WaitingServed` has one that does not as an exception (it is
  `Unending`), and another one for a record that is put back for ever.  Requests
  and crashes need not happen, and are finitely many: only then can a waiting
  record be promised anything.
- `HttpPool!FairSpec`: main and each worker are scheduled; a handler in `Stuck`
  never returns.  Clients need not come and `pthread_cond_wait` need not wake up
  spontaneously.  Only weak fairness is assumed of `m_mutexWeb`, which is enough because
  the connections are finitely many.  `AllClosed` needs `|Stuck| < Workers`: with two stuck logins
  the daemon serves nobody, which the model does not hide (the configuration
  says one).

- `Login!FairSpec`: every handler and login thread is scheduled, and every call
  to the passport server ends (connect timeout and low-speed limit of libcurl).
  No request need come: a thread that waits for a code may wait for ever.
  `LoginReturns` leaves out two requests that never return, the code `cancel` and
  an empty code, and takes `Waits` to be `{"park"}`.

- `Sync!FairSpec`: the listing thread, the control thread and both workers are
  scheduled and every call ends.  Requests, the network and the disk owe nothing.
- `PcsClient!FairSpec`: a login that has begun goes on; the callbacks that ask the
  user return, in the end with a number that was offered.  The server may ask
  for verification for ever, which `LoginEnds` admits, for each time the user has
  to choose how.  It also admits a call that hangs or crashes on an `odd` page.

### What was found

The run that ends in a violation states what a comment of the code says:

**MultiDown_straggler** (`web_api.c:427`): the wait for the workers ends after
5 s (its log says 30 s).  A worker still in `pcs_download` later reports into the
`mTask` of the next attempt, which then counts a segment as done that was not
transferred.

The modules state further properties that TLC finds violated; the list says
with which constants.  They are kept as definitions and have no run of their own.

| property | constants | what happens |
|---|---|---|
| MultiDown PublishedComplete | `Size = 3`, `Limit = 2`, faults `errorbody` | bodies of error answers are written into the file and counted as progress (`pcs/pcs_http.c:413`); a resume skips them |
| the same | `Size = 3`, `Limit = 2`, faults `notfound`, or `torn` | a 404 counts as a finished segment when the trailer is saved; a new segment count over old segments |
| MultiDown WorkerStaysInSegment | `Size = 3`, no faults | a segment saved when it was all there is resumed with length 0, "to the end of the file" (`web_api.c:2456`) |
| MultiDown SegmentsDisjoint | faults `torn` | a save that dies after its header shows the old segments behind it, one of them twice (`web_api.c:467-470`) |
| MultiDown TaskEnds without `Unending` | faults `truncate`, or `delete` | all workers are through and `truncate` fails, for one because the cache file was removed; the loop goes on until it is interrupted (`web_api.c:626`, `1955`) |
| MultiDown FetchSpec | faults `userfile`, `longname` | the rename to the name made up for a second file fails unnoticed, and the rename behind it goes over the user's file (`web_api.c:646-649`) |
| MultiDown FetchSpec without `"late"` | faults `userfile` | a file that comes between `access` (631) and `rename` (649) is overwritten |
| DownTask WaitingServed without `PutBack` | those of DownTask_queue | a local copy that meets a full disk is a failure without `storageStatus`: the record goes back and is taken first again, for ever (`web_api.c:1756`, `1801`, `2023`) |
| DownTask DeletedNotQueued | those of DownTask_queue | a listing in the middle of a delete request queues the file again (`web_api.c:3720`) |
| DownTask PausedStops | the same | an interruption is erased before the download has looked at it (`web_api.c:719`) |
| Login CancelReturns | those of Login_serial | `cancel` goes to `pthread_join` without clearing `loginState`, for which alone the login thread looks (`web_api.c:3379`) |
| Login Quiet, JoinSound, OwnAnswer | `Handlers = {h1, h2}` | the second login sees `loginState` set and `tlogin` still 0 and joins nothing, or takes the status meant for the first |
| Sync ListRetried | those of Sync_live | after a failed listing `count` is set to 90, but `flag` keeps the listing from being made again ("Try after 5s", `web_api.c:2307`) |
| Sync StorageNoticed | the same | `storageStatus` is reset where `thread_server` does not get while it is set (`web_api.c:2327`); of what the daemon itself does only a restart resets it |
| Sync LiveDb, DbReady, EmptyMeansEmpty | those of Sync_ready, requests with `login` | a Login, which takes neither `m_mutexWeb` nor, for its checks, `m_mutex`, undoes a logout, opens the database anew under a download, and clears the message a listing is judged by |
| Sync LiveDb without `hasty` | those of Sync_ready | logout closes the database under a download that took more than a second to notice (`web_api.c:3428-3431`) |
| Sync EmptyMeansEmpty without `hasty` | the same | `pcs_logout`, called during a listing that takes more than a second, clears the message the listing is judged by (`web_api.c:3430`) |
| PcsClient LoginEnds without `Stopped` | those of PcsClient_calls | the search for a key that no value follows never ends (`pcs/pcs.c:235`, `237`, `339`, `364`); a jump without an address reads NULL (`pcs/pcs.c:1616`) |
| PcsClient SysUidSound | faults `nouser` | `pcs->sysUID` is freed and then set only if the page names the user (`pcs/pcs.c:1440`) |
| PcsClient NoDanglingUse | faults `nobduss` | `pcs->bduss` is what `pcs_http_get_cookie` freed |
| PcsHttp Explained | faults `nocookie` | without the named cookie the freed value of the last one is returned (`pcs/pcs_http.c:763`; the header promises NULL) |
| PcsHttp AnswerWhole | faults `http2`, `whole`, `close`, or `Like = {1}` | header lines of HTTP/2 redirections are taken for a body; a server ignores the range; an answer is cut without a length; a block of the file begins like a status line |
| PcsHttp deadlock | faults `bare` | Content-Length without a colon is searched for ever (`pcs/pcs_http.c:206`) |
| DoneTable CopyGood | faults `edit`, or `userfile` | a file that the user changed, or had, with the right size is recorded and copied as the cloud's; one of another size is copied when it comes between the `lstat` and the `open`; one that is cut while it is copied ends the copy early, and the short file is renamed and recorded (`web_api.c:1784-1787`) |
| DoneTable HistoryBounded | faults `sql`, or `burst` | a trimming fails; rows of one second come in any order |

Found while reading for the modules, and true of the code though no property is
about them:

- Trimming leaves 51 rows of 150, not the 100 that are shown: the offset is
  `PCS_DONE_RECORD_MAX - PCS_DONE_RECORD` (`web_api.c:1283`).
- A delete request during a local copy removes the cache file; the rename
  fails unnoticed and DONE records a file that is not there (`web_api.c:1841`).
  The copy does not look at `interp` either, so that a pause has no effect.
- `Getlist2` calls `sql_get_data_record` without the database (`http.c:1291`), and
  never shows the record in progress.
- `pcs_utils_vsprintf` ends a text exactly as long as its buffer one byte
  past it (`pcs/pcs_utils.c:94-101`).
- `CURLOPT_RANGE` and `CURLOPT_RESUME_FROM_LARGE` outlive a request, and one
  does not reset the other; no handle of this program makes two such requests.
- `pcs_create_superfile` keeps the message of an earlier call; refusals of
  `pcs_mkdir`, aborted `pcs_md5_s` and a 404 of rapid upload leave none.
- The message of a failed jump is made from the freed address
  (`pcs/pcs.c:1723`); the list of ways to verify is lost when it comes with a
  failure; `pcs.h:209` says that a login returns PCS_LOGIN, it returns PCS_OK.

- `init_database` looks for another disk with `maxsize`, which it never sets
  (`web_api.c:3002`): none is ever found, and `localdir` is forgotten.
- `restore_context` never sets `dbdir`, for which `pcs_web_api_init` asks
  (`web_api.c:3197`): every start removes the saved configuration and begins
  with the defaults, so that a synchronisation switched off is on again.
- `Getlist` reads `downprogress` and then the table (`http.c:1093`, `1122`):
  a record that changes in between is shown twice or not at all.
- The progress of a download is read from a cache file that may be in the
  middle of a save (`web_api.c:3558`).

Each property of a passing run has a mutant in `PROJECT.json`: a plausible bug
in one definition with which TLC finds the property violated.  The mutants
stand before the definitions they replace and are used by nothing else.

## 4. What is proved

All proofs are for arbitrary constants that satisfy the named assumptions
(`SizeAssumption`, ... which every run evaluates).

**MultiDown_proofs.**
`TypeCorrect`: `Spec => []TypeOK`, for every set of faults.  `TypeOK` is not
inductive, since a 404 or an error body writes at the position of a transfer:
`TypeInv` adds that no segment and no transfer goes past the file.
`NoHolePublished` and `ResumeLosesNothing`: for `Tame` faults
(`Faults \subseteq {"userfile", "delete"}`), `Spec => []PublishedComplete` and
`Spec => []ResumeCovers`.  The violations of section 3 show that `Tame` cannot
be dropped.  The invariant `IInv` says: what the trailer skips is in the file
(`TrailerInv`), what `mTask` skips is (`SlotInv`), a worker with the result OK
has its segment in the file (`ResultInv`), and transfers run only in an attempt, each
inside what is left of its slot's segment or in the empty-range case up to the end of the
file (`JobInv`).  A save is the step where the parts meet: the segments that are
left out are covered by `ResultInv`, those that stay by `SlotInv`.  The lemmas on
`Partition` (it covers every block exactly, for every `Size` and `N`) and on
`Nth` (the k-th element of a set of slots exists and is unique) carry the arithmetic.
`EngineImplementsFetch`: under the same assumption `Spec => FetchSpec`; that the file
is renamed whole is `IInv`, the rest is a step by step comparison.  A file that
comes between `access` and `rename` is overwritten, which `FileFetch` says.
`NoOverlap`: `Spec => []SegmentsDisjoint`, for every set of faults without `torn`
(`Whole`), which cannot be dropped.  It needs an invariant of its own, since the
property speaks of two places at once: segments of different slots have different
numbers and lie apart (`SlotsApart`), and so do those of the trailer as far as its
header counts (`TrailerApart`), whatever older segments lie behind it.  A step either fills all slots from `Partition`, or from the trailer, or
leaves every part where it is (`SegChanges`); a save picks by `Nth`, which takes
no slot twice.

**DownTask_proofs.**  `IInv` adds to the properties that IDs to come have no
row (`FreshIds`), that the record in hand has an ID that was handed out and
names its own path (`TaskRow`), and that what is about to be deleted is not
owed (`WritesPaid`).  From it `TypeCorrect`, `IdsNameTheirTask`,
`NothingForgotten`, `QueuedOnce`, and the action properties
`OnlyTheUserResumes` and `OnlyThePauseSuspends`.

**HttpPool_proofs.**  `IInv` (owner of each descriptor, holder of the lock,
which connections have had an answer) gives `TypeCorrect`, `NoDescriptorLost`,
`OneWebHandler`, and `PoolImplementsService`: every step of the pool is a step
of `WebService` or leaves its variables unchanged.

**Login_proofs.**  `TypeCorrect` for any number of handlers.  For one handler,
and a `pthread_create` that leaves `tlogin` alone when it fails: `IInv` names the
situations the login thread, the FIFOs, `loginState` and `tlogin` can be in
together (`Free`, `Spawning`, `Awaited`, `Parked`, `Ended`, `Cancelling`,
`IsJoined`) and says at which place of the handler each of them occurs.  Each
step of the thread keeps its situation, each step of the handler goes from one
to another.  `NothingLeftOver`, `JoinsAreSound` and `AnswersAreOwn` follow; they
hold for the code `cancel`, the empty code and a deaf thread too.

**Sync_proofs.**  `TypeCorrect` for any number of requests, any period and all
faults (no run has it, since little could break it).
When nobody logs in beside other requests (`Alone`) `DownloadKeepsDatabase` and
`NoFalseEmpty`; `ReadyHasDatabase` needs besides that no database fails to open
(`Opens`).  What a logout does whose second was too short is an exception in the
properties themselves, not an assumption.  `IInv` adds who has `m_mutex`
(`LockInv`), that a logout runs without `islogin` (`LogoutInv`) and that without it
both threads are at their conditions, but in the first second of a logout and after
a hasty one (`AwayInv`), which is why the database is closed under nobody; that a
login without a database has its disk error, which only a thread past the
conditions can take away (`DbInv`); and that the listing has the message of the
handle to itself (`ListInv`).  Section 3 has the violations without `Alone`.

**PcsHttp_proofs.**  `StringsFit` and `SizesExact`, for names, values and numbers
of parameters of any size: the buffer fits because the size kept by hand is exact
at each turn of the loops.  For the handle, `TypeCorrect` for all faults: what is
stored comes from a response that ends within the file.  `ExplainedTheorem` needs
that no cookie is missing among others.  `AnswersWhole` is about `Clean` runs
(HTTP/1 header lines, no server that ignores ranges, no answer cut without a
length, no data that begins like a status line; section 3 has the violation
without each).  Its invariant `WholeInv` relates the state of the parser in the
callback to what libcurl still has to deliver, by the place the transfer is at
(`AtStatus`, `AtHead`, `AtBody`): before a status line and in a head nothing has been
collected, and the length that was seen is of this very response; in the body what
was collected and what is left make up what was asked for.

**DoneTable_proofs.**  `TypeCorrect` and `FirstsShown` for all faults; the former
is that a path has one row, and that none has come when the search found none and
the insertion is next (`RowInv`).  `CopiesGood` when nobody writes to a file or cuts it in place, exchanges it
between `lstat` and `open`, or puts one at a final path (`Untampered`): a file that
has the size of its row is the cloud's, and so is what was opened after the `lstat`,
whether its name is removed or given to another file (`CopyInv`).  `TableBounded` for every `Max` and `Shown < Max`, when statements succeed and two downloads do not end in the same
second.  That the count is bounded is far from inductive: a row written again
keeps its ID but gets a new time, so that the pivot may have the lowest ID of
all, and then the trimming removes nothing.  `BoundInv` says what saves it
(`Exposed`): when a full table is at rest, at least as many rows are newer than the
one with the lowest ID as the pivot has newer rows.  An insertion makes it one
more, the pivot is another row, and the lowest one goes.  A row written again may
break this only until its own trimming, which removes the lowest row or finds
enough rows that are newer.  Requests delete rows between any two of these steps.  The
lemmas on the pivot (it exists, it has exactly so many rows after it by time, it
moves by one when a row is inserted) rest on cardinalities of sets of rows.

**PcsClient_proofs.**  For all faults `TypeCorrect`, `ExplainedTheorem`,
`LoginIsConfirmed` and `AllFreed`.  Their invariant `ClientInv` says, for each of
the nine strings of a login, at which step it is there, is NULL, or has been freed
and left behind (`OwnInv`, in nine parts), how many captchas were asked for
(`AskedInv`) and that what the home page has confirmed stays so until the login
returns (`AcceptInv`).  A call that hangs or has crashed goes nowhere from where
it stopped, and `OwnInv` exempts it.  `Loses(free)`, that what a way out does not free is not
there or is the list of ways to verify, is shown for each of them.
`NothingDangles` adds that no field of the handle is left behind freed, for which
a page must name its user and the cookie BDUSS be there (`Sure`; section 3 has the
violations without).

All safety properties and action properties that runs check are proved, under the
assumptions named here.

Model-checked only: everything under fairness (`TaskEnds`, `WaitingServed`,
`AllClosed`, `LoginReturns`, `LoginEnds`, `NetworkNoticed`, `DownloadsGoOn`),
which is beyond the prover.

## 5. Hazards

`PROJECT.json` lists what in this code is hard to test, at its line, with the
property that covers it or the reason why none does.

## 6. Plan

Done: the engine with `FileFetch`, the queue, the front end with `WebService`,
login, conditions and synchronisation, the history with its local copies, the
PCS library's handle, login, calls and HTTP part; proofs of every safety property
that runs check.

Next, in this order:

1. **Proofs**: action properties of the engine and the queue that are now seen
   only through invariants, for one that a list of suspended downloads changes by
   requests alone; `LoginConfirmed` for `Login` with `PcsLogin` in place of its call.
2. **The queue over FileFetch**: DownTask with `FileFetch` in place of its own
   choice of outcomes, and `DoneTable`'s local copy as another implementation.
3. **Progress and listings** (`web_api.c:3526-3664`, `http.c:1050-1300`):
   what a client sees while a save or a write-back is in progress.
4. **Start-up and configuration** (`web_api.c:2660-2939, 3159-3262`): what a
   restart restores.
5. **Pure code** against reference definitions over bounded inputs: URL decoding
   and `get_value_from_url`, the paths of `dir.c`, `utils.c`, the containers of the
   PCS library.

## 7. Not modelled

- *Sizes and MD5 sums in the queue*: `DownTask` has paths only; `DoneTable`
  has what a copy depends on.
- *Files of length 0*: never queued (`pcs_check_local_file`, the listing skips
  them).
- *Failures of SQLite* in the queue and when a database is created: statements
  are taken to succeed there.  `DoneTable` has them as fault `sql`, `Sync` a
  database that does not open.
- *Integer widths*: positions are small.  Sizes of strings are unbounded in
  the proofs.
- *Listings other than Donelist, and progress*: read-only; see the plan.
- *Configuration*: read once at the start; its outcome is `Sync!Init`.
- *Formatting and parsing* (XML, JSON, requests), *paths and directories*,
  *daemon start*: sequential code without shared state.
- *The cryptography of the passport protocol* (`pcs/pcs_passport_dv.c`) and
  *vendored code* (JSON, UTF-8): computations on strings.
- *Uploads* beyond how the calls of the library end: the daemon makes none.
- *RELOAD and MYDELETE*: two statuses the code tests for and never sets.

## 8. Running it

    tlc -workers 2 -config MultiDown_resume.cfg MultiDown
    tlapm HttpPool_proofs.tla

`PROJECT.json` lists which configuration belongs to which module and what it is
expected to show.
