------------------------------- MODULE PanApi -------------------------------
(***************************************************************************)
(* The calls of the PCS library on files of the cloud and of the disk      *)
(* (pcs/pcs.c): one request each, at most, and one of the answers named    *)
(* here.  What a caller can tell them apart by is the returned value and   *)
(* the error message, which is shared by all calls on a handle.            *)
(***************************************************************************)
EXTENDS PcsHandle

\* An answer of pan.baidu.com: no body; not JSON; no errno; errno # 0; the
\* part that is asked for is missing; it is there, and empty or not.
Reply == {"nobody", "nojson", "noerrno", "refused", "nopart", "empty", "items"}
Broken == {"nobody", "nojson", "noerrno"}

\* A call ends with a result; said is "failed" when what was asked for was
\* not done or is not known, else "done", "empty", "refused" or "stopped".
Call(op, res, said) ==
    /\ Idle
    /\ Answer(op, res, said) /\ NewCall
    /\ UNCHANGED <<alive, ptr, cookie, locals>>

\* The message is cleared first: afterwards there is one exactly if n = 1.
Plain(op, res, said, n) == Call(op, res, said) /\ Say(n)

-----------------------------------------------------------------------------
pcs_quota ==
    \E r \in Reply \ {"empty"} :
        CASE r = "nobody"  -> Plain("quota", "NETWORK_ERROR", "failed", 1)
          [] r = "refused" -> Plain("quota", "FAIL", "failed", 1)
          [] r = "items"   -> Plain("quota", "OK", "done", 0)
          [] OTHER         -> Plain("quota", "WRONG_RESPONSE", "failed", 1)

\* A request that is refused (pcs_get_errno_from_api_res) leaves no message.
pcs_mkdir ==
    \E r \in Broken \union {"refused", "items"} :
        CASE r = "nobody"  -> Plain("mkdir", "NETWORK_ERROR", "failed", 1)
          [] r = "refused" -> Plain("mkdir", "FAIL", "refused", 0)
          [] r = "items"   -> Plain("mkdir", "OK", "done", 0)
          [] OTHER         -> Plain("mkdir", "FAIL", "failed", 1)

\* Mutant of pcs_pan_api_1: an answer without a list is an empty list.
NoListIsEmpty(op) ==
    \E r \in Reply :
        CASE r = "items"  -> Plain(op, "value", "done", 0)
          [] r = "empty"  -> Plain(op, "null", "empty", 0)
          [] r = "nopart" -> Plain(op, "null", "failed", 0)
          [] OTHER        -> Plain(op, "null", "failed", 1)

\* pcs_list, pcs_search
pcs_pan_api_1(op) ==
    \E r \in Reply :
        CASE r = "items" -> Plain(op, "value", "done", 0)
          [] r = "empty" -> Plain(op, "null", "empty", 0)
          [] OTHER       -> Plain(op, "null", "failed", 1)

\* A search for the name; the path is among what was found, or is not.
\* pcs_get_download_filesize is -1 for what is not a file.
pcs_meta ==
    \E r \in Reply, found \in 0 .. 1, op \in {"meta", "filesize"} :
        CASE r = "items" /\ found = 1 -> Plain(op, "value", "done", 0)
          [] r = "items" /\ found = 0 -> Plain(op, "null", "empty", 1)
          [] r = "empty"              -> Plain(op, "null", "empty", 0)
          [] OTHER                    -> Plain(op, "null", "failed", 1)

\* delete, rename, move and copy: each item has an error of its own, and the
\* request has one; a message goes with the latter.
pcs_pan_api_filemanager(op) ==
    \/ Plain(op, "null", "failed", 1)
    \/ Plain(op, "value", "done", 0)
    \/ Plain(op, "value", "failed", 1)

-----------------------------------------------------------------------------
\* Mutant of pcs_download: the message is not cleared.
DownloadKeepsMessage ==
    \/ Plain("download", "FAIL", "failed", 1)
    \/ Call("download", "OK", "done") /\ UNCHANGED errmsg

\* Without a function for the data, or a transfer, the download fails.
pcs_download ==
    \/ Plain("download", "FAIL", "failed", 1)
    \/ Plain("download", "OK", "done", 0)

\* pcs_cat collects the data in pcs->buffer, which the next call frees; parts
\* of a transfer that breaks off stay there.  No data is no buffer.
pcs_cat ==
    /\ Idle
    /\ \E ok, data \in 0 .. 1 :
          /\ Strings({"buffer"}, [n \in {"buffer"} |-> IF data = 1 THEN "live" ELSE "null"])
          /\ Say(1 - ok)
          /\ Answer("cat", IF ok = 1 /\ data = 1 THEN "value" ELSE "null",
                    IF ok = 0 THEN "failed" ELSE IF data = 1 THEN "done" ELSE "empty")
    /\ UNCHANGED <<alive, cookie, locals>>

\* pcs_upload, pcs_upload_buffer, pcs_upload_s (pcs_upload_form), and
\* pcs_upload_slice, pcs_upload_slicefile (pcs_upload_slice_form)
pcs_upload ==
    \/ Plain("upload", "null", "failed", 1)
    \/ Plain("upload", "value", "done", 0)

\* It does not clear the message: one of an earlier call survives a success.
pcs_create_superfile ==
    \/ Call("superfile", "null", "failed") /\ Say(1)
    \/ Call("superfile", "value", "done") /\ UNCHANGED errmsg

\* The size and the MD5 of a file on the disk, or of a part of it
pcs_md5_file ==
    \E op \in {"local_filesize", "md5"} :
        \/ Plain(op, "null", "failed", 1)
        \/ Plain(op, "value", "done", 0)

\* The MD5 of what a function reads, unless the function gives up
pcs_md5_s ==
    \/ Plain("md5_s", "null", "stopped", 0)
    \/ Plain("md5_s", "value", "done", 0)

\* The size, the MD5s and the request of pcs_rapid_upload_r; 404 says that the
\* cloud has no such file.
pcs_rapid_upload ==
    \/ Plain("rapid_upload", "null", "failed", 1)
    \/ Plain("rapid_upload", "null", "refused", 0)
    \/ Plain("rapid_upload", "value", "done", 0)

PanApiCall ==
    \/ pcs_quota \/ pcs_mkdir
    \/ \E op \in {"list", "search"} : pcs_pan_api_1(op)
    \/ pcs_meta
    \/ \E op \in {"delete", "rename", "move", "copy"} : pcs_pan_api_filemanager(op)
    \/ pcs_download \/ pcs_cat \/ pcs_upload \/ pcs_create_superfile
    \/ pcs_md5_file \/ pcs_md5_s \/ pcs_rapid_upload

=============================================================================
