----------------------------- MODULE MultiDown -----------------------------
(***************************************************************************)
(* The segmented download engine of web_api.c: the control thread          *)
(* (thread_down_control inside pcs_download_handle and                     *)
(* pcs_multi_download_file), the segment workers (thread_down_task), the   *)
(* shared table mTask[] through which they talk without a lock, and the    *)
(* ".bd" cache file whose tail (the "trailer", saveDownloadState) is what  *)
(* an interrupted or crashed download resumes from.                        *)
(*                                                                         *)
(* One cloud file is downloaded.  Bytes are grouped in blocks: a block is  *)
(* what one write callback of libcurl stores.  A block is in the data of a *)
(* file when the file holds the right content at that place; sparse holes  *)
(* and stored error pages are not.                                         *)
(***************************************************************************)
EXTENDS Integers, FiniteSets

CONSTANTS
    Size,     \* length of the cloud file, in blocks
    Limit,    \* PCS_MULTI_DOWNLIMIT: below it one worker downloads the file
    N,        \* PCS_MULTI_DOWNNUM: number of workers, and of slots of mTask
    MaxTry,   \* attempts pcs_download_handle makes before CLOUD_FAILED
    Faults    \* what the environment may do beyond pauses, crashes and
              \* broken connections: a subset of KnownFaults

(***************************************************************************)
(* "straggler": the 10 * 0.5 s wait for the workers can run out while a    *)
(*              worker still sits inside pcs_download.                     *)
(* "notfound" : the cloud can answer 404 (the file is gone).               *)
(* "errorbody": an answer other than 2xx carries a body with a length.     *)
(* "torn"     : the process can die between the two write() calls of the   *)
(*              trailer, header and segments.                              *)
(* "truncate" : truncate() can fail though the cache file is there.        *)
(* "userfile" : somebody else can create a file at the final path.         *)
(* "longname" : the name made up for a second file is not accepted.        *)
(* "delete"   : a web request can remove the cache file at any moment      *)
(*              (pcs_web_api_update_deletedb does, without a lock).        *)
(***************************************************************************)
KnownFaults == {"straggler", "notfound", "errorbody", "torn", "truncate",
                "userfile", "longname", "delete"}

ASSUME SizeAssumption   == Size \in Nat \ {0}
ASSUME LimitAssumption  == Limit \in Nat /\ Limit >= N   \* 10 MB, and 4
ASSUME NAssumption      == N \in Nat \ {0}
ASSUME MaxTryAssumption == MaxTry \in Nat \ {0}
ASSUME FaultsAssumption == Faults \subseteq KnownFaults

Slot  == 0 .. N - 1
Block == 0 .. Size - 1

VARIABLES
    cond,     \* mTask[s].CondThread: "stop" or "run" (nothing sets WAIT)
    intr,     \* mTask[s].StatusRun # 0: the worker is asked to abort
    re,       \* mTask[s].reCode, "none" being the zero that memset leaves
    seg,      \* mTask[s].seginfo
    job,      \* what worker s is doing: its program point and its transfer
    tmp,      \* the cache file <lpath>.bd
    local,    \* the file at the final path lpath; by "late" is a user's that
              \* came between the look at lpath and the rename
    pc,       \* where the control thread stands
    why,      \* why it stops the workers: "interp", "err" or "nfound"
    try,      \* count, the attempts made by pcs_download_handle
    res       \* what its last call returned: SUCCESS, 2 ("gone"), FAILURE with
              \* or without CLOUD_FAILED ("failed", "stop")

mTask == <<cond, intr, re, seg>>
ctl   == <<pc, why, try, res>>
files == <<tmp, local>>
vars  == <<cond, intr, re, seg, job, tmp, local, pc, why, try, res>>

Seg == [threadNum : 0 .. N, sp : Int, ep : Int, ds : Int]

Job == [at  : {"idle", "ask", "get", "code"},  \* code: only reCode is left
        pos : Int, end : Int,                  \* next block, first not asked
        ret : {"ok", "err", "nfound"},
        fd  : {"none", "tmp", "local"}]        \* where its descriptor leads

CacheFile == [there : BOOLEAN, data : SUBSET Block,
              hdr : {"none", "short", "ok"},   \* the magic of the trailer
              segnum : 0 .. N, segs : [1 .. N -> Seg]]

NoSeg == [threadNum |-> 0, sp |-> 0, ep |-> 0, ds |-> 0]
NoJob == [at |-> "idle", pos |-> 0, end |-> 0, ret |-> "err", fd |-> "none"]
NoTmp == [there |-> FALSE, data |-> {}, hdr |-> "none",
          segnum |-> 0, segs |-> [k \in 1 .. N |-> NoSeg]]

\* A slot takes part in the download when its threadNum is not 0.
Active(s) == seg[s].threadNum # 0

\* mTask[s].downSzie: set from the segment wherever the segment is set.
DownSize(g) == IF g.threadNum = 0 THEN 0 ELSE g.ep - g.sp + 1

\* What is left of a segment according to its ds.
Rest(g) == g.sp + g.ds .. g.ep

TypeOK ==
    /\ cond \in [Slot -> {"stop", "run"}]
    /\ intr \in [Slot -> BOOLEAN]
    /\ re \in [Slot -> {"none", "ok", "err", "nfound"}]
    /\ seg \in [Slot -> Seg]
    /\ job \in [Slot -> Job]
    /\ tmp \in CacheFile
    /\ local \in [by : {"nobody", "user", "late", "download"}, data : SUBSET Block]
    /\ pc \in {"idle", "try", "check", "init", "setstart", "loop", "cond",
               "update", "finish", "aside", "rename", "stop", "size"}
    /\ why \in {"interp", "err", "nfound"}
    /\ try \in 0 .. MaxTry
    /\ res \in {"none", "ok", "gone", "failed", "stop"}

Zeroed ==                   \* memset(mTask, 0, ...)
    /\ cond = [s \in Slot |-> "stop"]
    /\ intr = [s \in Slot |-> FALSE]
    /\ re = [s \in Slot |-> "none"]
    /\ seg = [s \in Slot |-> NoSeg]

Init ==
    /\ Zeroed
    /\ job = [s \in Slot |-> NoJob]
    /\ tmp = NoTmp
    /\ local = [by |-> "nobody", data |-> {}]
    /\ pc = "idle"
    /\ why = "interp"
    /\ try = 0
    /\ res = "none"

(***************************************************************************)
(* Helpers of the control thread.                                          *)
(***************************************************************************)

\* No worker holds a job.  Between two attempts the code only sleeps; unless
\* stragglers are admitted, that is assumed to be long enough.
Quiet == "straggler" \in Faults \/ \A s \in Slot : job[s].at = "idle"

\* Mutant of Done: every slot that stopped is left out.
DoneWhenStopped(s) == cond[s] = "stop"

\* The slots a saved trailer leaves out: stopped with OK or OK_NFOUND.
Done(s) == cond[s] = "stop" /\ re[s] \in {"ok", "nfound"}

Unfinished == {s \in Slot : Active(s) /\ ~Done(s)}

\* The k-th smallest member of a set of slots.
Nth(S, k) == CHOOSE s \in S : Cardinality({t \in S : t < s}) = k - 1

\* The cache file after the header and the segments of S have been written
\* over the old ones: behind them what was there before stays.
Saved(S) == [tmp EXCEPT !.hdr = "ok",
                        !.segnum = Cardinality(S),
                        !.segs = [k \in 1 .. N |->
                                    IF k <= Cardinality(S) THEN seg[Nth(S, k)]
                                                           ELSE tmp.segs[k]]]

\* remove(mdinfo): who has the file open keeps an unlinked one.
Orphaned(j) == [s \in Slot |-> IF j[s].fd = "tmp" THEN [j[s] EXCEPT !.fd = "none"]
                                                  ELSE j[s]]
RemoveTmp == tmp' = NoTmp /\ job' = Orphaned(job)

Clear ==
    /\ cond' = [s \in Slot |-> "stop"]
    /\ intr' = [s \in Slot |-> FALSE]
    /\ re' = [s \in Slot |-> "none"]
    /\ seg' = [s \in Slot |-> NoSeg]

Goto(p) == pc' = p /\ UNCHANGED <<why, try, res>>

\* pcs_download_handle returns: its locals are gone.
Return(r) == pc' = "idle" /\ why' = "interp" /\ try' = 0 /\ res' = r

(***************************************************************************)
(* pcs_download_handle: up to MaxTry attempts, then CLOUD_FAILED.          *)
(***************************************************************************)
StartTask ==
    /\ pc = "idle"
    /\ pc' = "try" /\ res' = "none"
    /\ UNCHANGED <<mTask, job, files, why, try>>

\* Mutant of NextTry: the attempts are counted but not limited.
RetryForEver ==
    /\ pc = "try"
    /\ pc' = "check" /\ try' = try + 1
    /\ UNCHANGED <<mTask, job, files, why, res>>

NextTry ==
    /\ pc = "try" /\ try < MaxTry
    /\ pc' = "check" /\ try' = try + 1
    /\ UNCHANGED <<mTask, job, files, why, res>>

\* All attempts used (record->status = CLOUD_FAILED), or the network, the
\* storage or the login is gone (cloud_check_condition).
GiveUp ==
    /\ pc = "try"
    /\ Return(IF try = MaxTry THEN "failed" ELSE "stop")
    /\ UNCHANGED <<mTask, job, files>>

\* pcs_chk_downfile_size after an attempt that returned SUCCESS.  It fails when
\* the path cannot be converted, lstat fails, or the size is another.
pcs_chk_downfile_size ==
    /\ pc = "size"
    /\ \/ local.by # "nobody" /\ Return("ok")
       \/ Goto("try")
    /\ UNCHANGED <<mTask, job, files>>

(***************************************************************************)
(* The head of pcs_multi_download_file: find or make the cache file.       *)
(***************************************************************************)

\* Whatever is at lpath, of any size, ends the attempt with SUCCESS.
LocalExists ==
    /\ pc = "check" /\ local.by # "nobody"
    /\ Goto("size")
    /\ UNCHANGED <<mTask, job, files>>

\* The cache file is missing, no longer than the file, or has no magic.
NeedsInit == ~tmp.there \/ tmp.hdr = "none"

\* The file is opened without O_TRUNC and cut to size: data it held stays.
pcs_create_tmp_down_file ==
    /\ pc = "check" /\ local.by = "nobody" /\ NeedsInit
    /\ tmp' = [NoTmp EXCEPT !.there = TRUE, !.data = tmp.data]
    /\ Goto("init")
    /\ UNCHANGED <<mTask, job, local>>

\* open fails (nothing changes), or ftruncate64 fails and the file is removed.
CreateTmpFails ==
    /\ pc = "check" /\ local.by = "nobody" /\ NeedsInit
    /\ \/ UNCHANGED <<tmp, job>>
       \/ RemoveTmp
    /\ Goto("try")
    /\ UNCHANGED <<mTask, local>>

ThreadNum == IF Size < Limit THEN 1 ELSE N
PerSize   == IF Size < Limit THEN Size ELSE Size \div N

\* Mutant of Partition: the end position is one past the segment.
PartitionOverlaps(s) ==
    IF s >= ThreadNum THEN NoSeg
    ELSE [threadNum |-> s + 1,
          sp |-> s * PerSize,
          ep |-> IF s + 1 = ThreadNum THEN Size - 1 ELSE s * PerSize + PerSize,
          ds |-> 0]

\* Segment s of a fresh download; the last one takes the remainder.
Partition(s) ==
    IF s >= ThreadNum THEN NoSeg
    ELSE [threadNum |-> s + 1,
          sp |-> s * PerSize,
          ep |-> IF s + 1 = ThreadNum THEN Size - 1 ELSE s * PerSize + PerSize - 1,
          ds |-> 0]

pcs_multi_down_initinfo ==
    /\ pc = "init" /\ Quiet /\ tmp.there
    /\ cond' = [s \in Slot |-> "stop"]
    /\ intr' = [s \in Slot |-> FALSE]
    /\ re' = [s \in Slot |-> "none"]
    /\ seg' = [s \in Slot |-> Partition(s)]
    /\ tmp' = [tmp EXCEPT !.hdr = "ok",
                          !.segnum = ThreadNum,
                          !.segs = [k \in 1 .. N |-> Partition(k - 1)]]
    /\ Goto("setstart")
    /\ UNCHANGED <<job, local>>

\* mTask is cleared: the file cannot be opened, or it cannot be written to and
\* is removed.
InitInfoFails ==
    /\ pc = "init" /\ Quiet
    /\ Clear
    /\ \/ UNCHANGED <<tmp, job>>
       \/ RemoveTmp
    /\ Goto("try")
    /\ UNCHANGED local

\* The loop of pcs_multi_initinfo_from_file runs to N whatever segnum is: past
\* segnum it tests memory behind the array, so only a full trailer is accepted
\* for sure.  A negative ds is refused where size_t is as wide as long long and
\* reset to 0 where it is narrower.
NegativeDs == \E k \in 1 .. tmp.segnum : tmp.segs[k].ds < 0
MayAccept  == tmp.hdr = "ok"
MayRefuse  == tmp.hdr = "short" \/ tmp.segnum < N \/ NegativeDs

Loaded(g) == IF g.ds < 0 THEN [g EXCEPT !.ds = 0] ELSE g

pcs_multi_initinfo_from_file ==
    /\ pc = "check" /\ local.by = "nobody" /\ ~NeedsInit /\ Quiet
    /\ MayAccept
    /\ cond' = [s \in Slot |-> "stop"]
    /\ intr' = [s \in Slot |-> FALSE]
    /\ re' = [s \in Slot |-> "none"]
    /\ seg' = [s \in Slot |-> IF s < tmp.segnum THEN Loaded(tmp.segs[s + 1])
                                                ELSE NoSeg]
    /\ Goto("setstart")
    /\ UNCHANGED <<job, files>>

\* Refused: the file is removed, and initinfo, which is called next, cannot
\* open it: the attempt fails with mTask cleared.
FromFileFails ==
    /\ pc = "check" /\ local.by = "nobody" /\ ~NeedsInit /\ Quiet
    /\ MayRefuse
    /\ Clear /\ RemoveTmp
    /\ Goto("try")
    /\ UNCHANGED local

\* The file cannot be opened for reading, or calloc fails: it stays, and
\* initinfo starts it anew.
FromFileUnread ==
    /\ pc = "check" /\ local.by = "nobody" /\ ~NeedsInit
    /\ Goto("init")
    /\ UNCHANGED <<mTask, job, files>>

(***************************************************************************)
(* The loop of pcs_multi_download_file.                                    *)
(***************************************************************************)
pcs_multi_down_setstart ==
    /\ pc = "setstart"
    /\ cond' = [s \in Slot |-> IF Active(s) THEN "run" ELSE cond[s]]
    /\ Goto("loop")
    /\ UNCHANGED <<intr, re, seg, job, files>>

Stop(reason) ==             \* the head of pcs_multi_down_set_interupte
    /\ intr' = [s \in Slot |-> Active(s) \/ intr[s]]
    /\ pc' = "stop" /\ why' = reason
    /\ UNCHANGED <<cond, re, seg, job, files, try, res>>

\* downprogress.interp was set by a web request, or a condition is gone.
Interrupted == pc = "loop" /\ Stop("interp")

GoOn ==
    /\ pc = "loop"
    /\ Goto("cond")
    /\ UNCHANGED <<mTask, job, files>>

Failed(s) == Active(s) /\ cond[s] = "stop" /\ re[s] = "err"

pcs_multi_down_chk_condition ==
    /\ pc = "cond"
    /\ IF \E s \in Slot : Failed(s)
       THEN Stop("err")
       ELSE Goto("update") /\ UNCHANGED <<mTask, job, files>>

\* A refresh of the trailer also leaves out segments that are all there.
Pending == {s \in Unfinished : seg[s].ds < DownSize(seg[s])}

\* Every tenth second the trailer is refreshed, unless nothing is left.
pcs_multi_down_update_mdinfo ==
    /\ pc = "update"
    /\ tmp.there /\ Pending # {}
    /\ tmp' = Saved(Pending)
    /\ Goto("finish")
    /\ UNCHANGED <<mTask, job, local>>

\* The other seconds, and when the cache file cannot be opened or written.
NoUpdate ==
    /\ pc = "update"
    /\ Goto("finish")
    /\ UNCHANGED <<mTask, job, files>>

\* The scan stops at the first slot that runs, or that got a 404.
NotFoundFirst ==
    \E s \in Slot : /\ Active(s) /\ cond[s] = "stop" /\ re[s] = "nfound"
                    /\ \A t \in 0 .. s - 1 : ~(Active(t) /\ cond[t] = "run")

\* Mutant of AllOk: the results are not looked at.
AllStopped == \A s \in Slot : Active(s) => cond[s] = "stop"

AllOk == \A s \in Slot : Active(s) => cond[s] = "stop" /\ re[s] = "ok"

\* The truncate of chk_finish cuts the trailer off.
Truncated == [NoTmp EXCEPT !.there = TRUE, !.data = tmp.data]

\* Mutant of Look: nobody looks whether lpath is taken.
LookAway == Goto("rename")

\* access(lpath): is there a file of that name already?
Look == Goto(IF local.by = "nobody" THEN "rename" ELSE "aside")

pcs_multi_down_chk_finish ==
    /\ pc = "finish"
    /\ \/ NotFoundFirst /\ Stop("nfound")
       \/ /\ ~NotFoundFirst /\ AllOk /\ tmp.there
          /\ tmp' = Truncated
          /\ Look
          /\ UNCHANGED <<mTask, job, local>>
       \/ /\ ~NotFoundFirst /\ ~AllOk
          /\ Goto("loop")
          /\ UNCHANGED <<mTask, job, files>>

\* A truncate that fails is answered like a worker that still runs: the loop
\* goes on, with nothing left in it that could change.
TruncateFails ==
    /\ pc = "finish" /\ ~NotFoundFirst /\ AllOk
    /\ tmp.there => "truncate" \in Faults
    /\ Goto("loop")
    /\ UNCHANGED <<mTask, job, files>>

\* lpath was taken: the cache file goes to the name meant for the old one.
RenameAside ==
    /\ pc = "aside"
    /\ \/ RemoveTmp
       \/ "longname" \in Faults /\ UNCHANGED <<tmp, job>>
    /\ Goto("rename")
    /\ UNCHANGED <<mTask, local>>

\* rename(mdinfo, lpath), over whatever is there by now.
RenameToFinal ==
    /\ pc = "rename" /\ tmp.there
    /\ tmp' = NoTmp
    /\ local' = [by |-> "download", data |-> tmp.data]
    /\ job' = [s \in Slot |-> IF job[s].fd = "tmp" THEN [job[s] EXCEPT !.fd = "local"]
                                                  ELSE job[s]]
    /\ Goto("size")
    /\ UNCHANGED mTask

\* A rename that fails, at the latest because the cache file is gone by now, is
\* not noticed: SUCCESS is returned.
RenameFails ==
    /\ pc = "rename"
    /\ Goto("size")
    /\ UNCHANGED <<mTask, job, files>>

\* The wait of pcs_multi_down_set_interupte is over.
Stopped == "straggler" \in Faults \/ \A s \in Slot : cond[s] # "run"

\* Where pcs_multi_download_file and pcs_download_handle go after the stop.
AfterStop ==
    IF why = "err" THEN pc' = "try" /\ why' = "interp" /\ UNCHANGED <<try, res>>
                   ELSE Return(IF why = "nfound" THEN "gone" ELSE "stop")

\* The rest of pcs_multi_down_set_interupte: write what is left.
pcs_multi_down_set_interupte ==
    /\ pc = "stop" /\ Stopped /\ why # "nfound"
    /\ tmp.there
    /\ tmp' = Saved(Unfinished)
    /\ AfterStop
    /\ UNCHANGED <<mTask, job, local>>

\* The cache file cannot be opened or written.
SaveFails ==
    /\ pc = "stop" /\ Stopped /\ why # "nfound"
    /\ AfterStop
    /\ UNCHANGED <<mTask, job, files>>

\* "Not in cloud": the cache file is removed right after it was saved.
DropNotFound ==
    /\ pc = "stop" /\ Stopped /\ why = "nfound"
    /\ RemoveTmp
    /\ AfterStop
    /\ UNCHANGED <<mTask, local>>

(***************************************************************************)
(* thread_down_task: worker s and the libcurl transfer it runs.            *)
(***************************************************************************)

\* finish_dw, first half: CondThread = STOP, the result still in a local.
Leave(s, r) ==
    /\ cond' = [cond EXCEPT ![s] = "stop"]
    /\ job' = [job EXCEPT ![s] = [at |-> "code", pos |-> 0, end |-> 0,
                                  ret |-> r, fd |-> "none"]]

\* pcs_download is called for sp+ds .. ep.  A length of 0 asks for no range:
\* the transfer then runs from sp+ds to the end of the file.
thread_down_task(s) ==
    /\ job[s].at = "idle" /\ cond[s] = "run" /\ Active(s)
    /\ tmp.there /\ seg[s].sp + seg[s].ds >= 0
    /\ job' = [job EXCEPT ![s] =
                 [at |-> "ask", ret |-> "err", fd |-> "tmp",
                  pos |-> seg[s].sp + seg[s].ds,
                  end |-> IF seg[s].ds = DownSize(seg[s]) THEN Size
                                                          ELSE seg[s].ep + 1]]
    /\ UNCHANGED <<mTask, files, ctl>>

\* The cache file cannot be opened or positioned, or create_pcs fails.
TaskFails(s) ==
    /\ job[s].at = "idle" /\ cond[s] = "run" /\ Active(s)
    /\ Leave(s, "err")
    /\ UNCHANGED <<intr, re, seg, files, ctl>>

\* 200 or 206; past the end of the file the server has nothing to send.
Answered(s) ==
    /\ job[s].at = "ask" /\ job[s].pos < Size
    /\ job' = [job EXCEPT ![s].at = "get"]
    /\ UNCHANGED <<mTask, files, ctl>>

\* write_callback_multi_down stores a block at the offset of the descriptor.
write_callback_multi_down(s) ==
    /\ job[s].at = "get" /\ job[s].pos < job[s].end
    /\ job' = [job EXCEPT ![s].pos = @ + 1]
    /\ tmp' = IF job[s].fd = "tmp"
              THEN [tmp EXCEPT !.data = @ \cup {job[s].pos}] ELSE tmp
    /\ local' = IF job[s].fd = "local"
                THEN [local EXCEPT !.data = @ \cup {job[s].pos}] ELSE local
    /\ UNCHANGED <<mTask, ctl>>

\* The progress callback: ds = downSzie - (dltotal - dlnow).
trans_callback_multi_down(s) ==
    /\ job[s].at = "get" /\ ~intr[s]
    /\ seg' = [seg EXCEPT ![s].ds = DownSize(seg[s]) - (job[s].end - job[s].pos)]
    /\ UNCHANGED <<cond, intr, re, job, files, ctl>>

\* The progress callback sees StatusRun and aborts the transfer.
Abort(s) ==
    /\ job[s].at \in {"ask", "get"} /\ intr[s]
    /\ Leave(s, "err")
    /\ UNCHANGED <<intr, re, seg, files, ctl>>

\* Connection refused, reset, or too slow for CURLOPT_LOW_SPEED_TIME.
NetworkError(s) ==
    /\ job[s].at \in {"ask", "get"}
    /\ Leave(s, "err")
    /\ UNCHANGED <<intr, re, seg, files, ctl>>

\* The whole range has arrived: pcs_download returns PCS_OK.
Complete(s) ==
    /\ job[s].at = "get" /\ job[s].pos = job[s].end
    /\ Leave(s, "ok")
    /\ UNCHANGED <<intr, re, seg, files, ctl>>

\* An answer other than 2xx.  pcs_http_write hands its body to the write
\* callback whatever the status is, and the progress callback counts it.
Refused(s, r) ==
    /\ job[s].at = "ask"
    /\ r = "nfound" => "notfound" \in Faults
    /\ Leave(s, r)
    /\ IF "errorbody" \in Faults
       THEN /\ seg' = [seg EXCEPT ![s].ds = DownSize(seg[s])]
            /\ tmp' = IF job[s].fd = "tmp"
                      THEN [tmp EXCEPT !.data = @ \ {job[s].pos},
                                       !.hdr = IF job[s].pos >= Size THEN "none"
                                                                     ELSE @]
                      ELSE tmp
            /\ local' = IF job[s].fd = "local"
                        THEN [local EXCEPT !.data = @ \ {job[s].pos}] ELSE local
       ELSE UNCHANGED <<seg, files>>
    /\ UNCHANGED <<intr, re, ctl>>

\* Mutant of SetReCode: only a success is reported.
SetReCodeIfOk(s) ==
    /\ job[s].at = "code"
    /\ re' = [re EXCEPT ![s] = IF job[s].ret = "ok" THEN "ok" ELSE @]
    /\ job' = [job EXCEPT ![s] = NoJob]
    /\ UNCHANGED <<cond, intr, seg, files, ctl>>

\* finish_dw, second half: reCode.
SetReCode(s) ==
    /\ job[s].at = "code"
    /\ re' = [re EXCEPT ![s] = job[s].ret]
    /\ job' = [job EXCEPT ![s] = NoJob]
    /\ UNCHANGED <<cond, intr, seg, files, ctl>>

(***************************************************************************)
(* The process dies; mTask is static memory, the files stay.               *)
(***************************************************************************)
Restart ==
    /\ Clear
    /\ job' = [s \in Slot |-> NoJob]
    /\ Return("none")

Crash == Restart /\ UNCHANGED files

\* In the middle of a save: the new header over the old segments.  A file that
\* is saved to holds as many segments as were ever active at once.
CrashInSave ==
    /\ "torn" \in Faults
    /\ \/ pc = "update" /\ Pending # {}
       \/ pc = "stop" /\ Stopped
    /\ tmp.there
    /\ tmp' = [tmp EXCEPT !.hdr = "ok",
                          !.segnum = Cardinality(IF pc = "update" THEN Pending
                                                                  ELSE Unfinished)]
    /\ Restart /\ UNCHANGED local

\* In the middle of initinfo: a header that promises more than there is.
CrashInInit ==
    /\ "torn" \in Faults
    /\ pc = "init"
    /\ tmp' = [tmp EXCEPT !.hdr = "short"]
    /\ Restart /\ UNCHANGED local

\* pcs_web_api_update_deletedb, in the thread of a web request.
WebDelete ==
    /\ "delete" \in Faults
    /\ RemoveTmp
    /\ UNCHANGED <<mTask, local, ctl>>

\* Another program (the disk is shared) puts a file of that name there.
UserFile ==
    /\ "userfile" \in Faults
    /\ local.by = "nobody"
    /\ local' = [local EXCEPT !.by = IF pc = "rename" THEN "late" ELSE "user"]
    /\ UNCHANGED <<mTask, job, tmp, ctl>>

-----------------------------------------------------------------------------
Control ==
    \/ StartTask \/ NextTry \/ GiveUp \/ pcs_chk_downfile_size
    \/ LocalExists \/ pcs_create_tmp_down_file \/ CreateTmpFails
    \/ pcs_multi_down_initinfo \/ InitInfoFails
    \/ pcs_multi_initinfo_from_file \/ FromFileFails \/ FromFileUnread
    \/ pcs_multi_down_setstart \/ Interrupted \/ GoOn
    \/ pcs_multi_down_chk_condition
    \/ pcs_multi_down_update_mdinfo \/ NoUpdate
    \/ pcs_multi_down_chk_finish \/ TruncateFails
    \/ RenameAside \/ RenameToFinal \/ RenameFails
    \/ pcs_multi_down_set_interupte \/ SaveFails \/ DropNotFound

Worker(s) ==
    \/ thread_down_task(s) \/ TaskFails(s)
    \/ Answered(s) \/ write_callback_multi_down(s)
    \/ trans_callback_multi_down(s)
    \/ Abort(s) \/ NetworkError(s) \/ Complete(s)
    \/ \E r \in {"err", "nfound"} : Refused(s, r)
    \/ SetReCode(s)

Environment ==
    \/ Crash \/ CrashInSave \/ CrashInInit
    \/ WebDelete \/ UserFile

Next == Control \/ (\E s \in Slot : Worker(s)) \/ Environment

Spec == Init /\ [][Next]_vars

(***************************************************************************)
(* Fairness: the control thread is scheduled; every worker is, and libcurl *)
(* ends every transfer one way or another (data, error, or the low speed   *)
(* limit of 60 s).                                                         *)
(***************************************************************************)
Transfer(s) == \/ Answered(s) \/ write_callback_multi_down(s)
               \/ Abort(s) \/ NetworkError(s) \/ Complete(s)

Advance == Control /\ pc # "idle"

Fairness ==
    /\ WF_vars(Advance)
    /\ \A s \in Slot : /\ WF_vars(thread_down_task(s) \/ TaskFails(s))
                       /\ WF_vars(Transfer(s))
                       /\ WF_vars(SetReCode(s))

FairSpec == Spec /\ Fairness

-----------------------------------------------------------------------------
(***************************************************************************)
(* Properties.                                                             *)
(***************************************************************************)

\* A file renamed to its final path holds every block of the cloud file,
\* however often the download was paused, failed, crashed and was resumed
\* (web_api.c:630, "we think it download finish").
PublishedComplete == local.by = "download" => local.data = Block

\* Seen from the queue the engine is a FileFetch: the file appears whole, is not
\* touched again, replaces no file but one put there in the instant between
\* access(lpath) and rename (web_api.c:631, 649), and is there when a download
\* succeeds, also when a rename failed without anybody looking.
Fetch == INSTANCE FileFetch WITH
    phase  <- IF pc = "idle" THEN "off" ELSE "on",
    result <- res,
    file   <- CASE local.by = "nobody" -> "none"
                [] local.by = "user" -> "user"
                [] local.by = "late" -> "late"
                [] OTHER -> IF local.data = Block THEN "whole" ELSE "broken"

FetchSpec == Fetch!Spec

\* Whatever the trailer of a cache file lets a later attempt skip is in the
\* file: each missing block lies in the rest of a segment of the trailer.
ResumeCovers ==
    tmp.there /\ tmp.hdr = "ok" =>
        \A b \in Block \ tmp.data :
            \E k \in 1 .. tmp.segnum : b \in Rest(tmp.segs[k])

\* The segments of mTask lie in the file, share no block, and have no slot of
\* their own twice, also after slots were saved over longer trailers, dropped and
\* loaded elsewhere; a save that is torn breaks it (web_api.c:469).
SegmentsDisjoint ==
    \A s \in Slot : Active(s) =>
        /\ seg[s].sp \in Block /\ seg[s].ep \in Block
        /\ seg[s].sp <= seg[s].ep
        /\ \A t \in Slot \ {s} : Active(t) =>
              /\ seg[t].threadNum # seg[s].threadNum
              /\ seg[t].ep < seg[s].sp \/ seg[s].ep < seg[t].sp

-----------------------------------------------------------------------------
\* What TypeOK needs to be inductive: no transfer leaves the file.
TypeInv ==
    /\ TypeOK
    /\ \A s \in Slot : /\ seg[s].ep < Size
                       /\ job[s].pos >= 0 /\ job[s].end <= Size
    /\ \A k \in 1 .. N : tmp.segs[k].ep < Size

(***************************************************************************)
(* The inductive invariant behind PublishedComplete and ResumeCovers, for  *)
(* an environment without the faults that break them (Tame).               *)
(***************************************************************************)
Tame == Faults \subseteq {"userfile", "delete"}

\* The control thread is between setstart and the end of the attempt.
InAttempt == pc \in {"setstart", "loop", "cond", "update", "finish", "stop"}

Covers(g, b) == g.sp <= b /\ b <= g.ep

\* A segment inside the file whose ds counts only blocks the file holds.
Sound(g, data) ==
    /\ g.threadNum # 0
    /\ g.sp >= 0 /\ g.sp <= g.ep /\ g.ep < Size
    /\ g.sp + g.ds <= g.ep + 1
    /\ \A b \in Block : g.sp <= b /\ b < g.sp + g.ds => b \in data

TrailerInv ==
    tmp.there /\ tmp.hdr # "none" =>
        /\ tmp.hdr = "ok"
        /\ \A k \in 1 .. tmp.segnum : Sound(tmp.segs[k], tmp.data)
        /\ \A b \in Block \ tmp.data :
              \E k \in 1 .. tmp.segnum : Covers(tmp.segs[k], b)

SlotInv ==
    InAttempt /\ tmp.there =>
        /\ tmp.hdr = "ok"
        /\ \A s \in Slot : Active(s) => Sound(seg[s], tmp.data)
        /\ \A b \in Block \ tmp.data :
              \E s \in Slot : Active(s) /\ Covers(seg[s], b)

\* A segment whose worker reports, or has reported, success is all there.
ResultInv ==
    /\ why # "nfound"
    /\ \A s \in Slot :
          /\ re[s] # "nfound" /\ job[s].ret # "nfound"
          /\ InAttempt /\ tmp.there /\ Active(s) /\ (re[s] = "ok" \/ job[s].ret = "ok") =>
                \A b \in Block : Covers(seg[s], b) => b \in tmp.data

\* Transfers run only inside an attempt, each on behalf of its own slot.
JobInv ==
    /\ \A s \in Slot :
          /\ ~InAttempt => job[s].at \in {"idle", "code"} /\ cond[s] = "stop"
          /\ pc = "setstart" => /\ cond[s] = "stop" /\ job[s].at = "idle"
                                /\ re[s] = "none" /\ seg[s].ds >= 0
          /\ job[s].at = "idle" => job[s].ret = "err"
          /\ job[s].at \in {"idle", "code"} => job[s].fd = "none"
          /\ cond[s] = "run" /\ job[s].at = "idle" => seg[s].ds >= 0
          /\ cond[s] = "run" =>
                /\ Active(s) /\ re[s] = "none"
                /\ job[s].at \in {"idle", "ask", "get"} /\ job[s].ret = "err"
          /\ job[s].at \in {"ask", "get"} =>
                /\ cond[s] = "run" /\ job[s].fd # "local"
                /\ seg[s].sp <= job[s].pos
                /\ job[s].pos <= job[s].end /\ job[s].end <= Size
                /\ \/ job[s].end = seg[s].ep + 1
                   \/ job[s].end = Size /\ seg[s].ep < job[s].pos
                /\ tmp.there =>
                      /\ job[s].fd = "tmp"
                      /\ \A b \in Block :
                            seg[s].sp <= b /\ b < job[s].pos => b \in tmp.data

\* What is about to be renamed is whole, and lpath was free when it was looked at.
RenameInv ==
    pc \in {"aside", "rename"} /\ tmp.there =>
        /\ tmp.data = Block /\ tmp.hdr = "none"
        /\ pc = "rename" => local.by \in {"nobody", "late"}

IInv == /\ TypeInv
        /\ TrailerInv /\ SlotInv /\ ResultInv /\ JobInv /\ RenameInv
        /\ PublishedComplete

-----------------------------------------------------------------------------
\* A worker transfers its own segment and nothing behind its ep (web_api.c:103,
\* "end position").
WorkerStaysInSegment ==
    \A s \in Slot : job[s].at \in {"ask", "get"} => job[s].end = seg[s].ep + 1

\* All workers are through with success and truncate is asked again and again.
Unending == pc \in {"loop", "cond", "update", "finish"} /\ AllOk

\* Every download that starts ends, with the file, a failure, or an interruption:
\* the control thread never waits for a worker for ever, whatever the workers
\* report and in which order.  The one way not to end is a truncate that goes on
\* failing when all is there (web_api.c:626).
TaskEnds == (pc # "idle" ~> pc = "idle") \/ <>[]Unending
=============================================================================
