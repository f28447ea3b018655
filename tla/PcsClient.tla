----------------------------- MODULE PcsClient -----------------------------
(***************************************************************************)
(* Any sequence of calls on one handle of the PCS library, what a caller   *)
(* learns from them, and the strings they own.                             *)
(***************************************************************************)
EXTENDS PcsLogin, PanApi

Calls == {"none", "create", "destroy", "clone", "setopt", "islogin", "logout", "login",
          "quota", "mkdir", "list", "search", "meta", "filesize", "delete", "rename",
          "move", "copy", "download", "cat", "upload", "superfile", "local_filesize",
          "md5", "md5_s", "rapid_upload"}
\* The codes of PcsRes that are used, and what the other calls return
Results == {"none", "value", "null", "OK", "FAIL", "LOGIN", "NOT_LOGIN", "UNKNOWN_OPT",
            "NETWORK_ERROR", "WRONG_RESPONSE", "GET_CAPTCHA_FAIL", "NO_CAPTCHA_FUNC",
            "BUILD_POST_DATA", "GET_INPUT_FAIL", "NO_INPUT_FUNC"}
\* What really happened in a call
Outcomes == {"none", "done", "empty", "failed", "refused", "stopped"}

\* asked: captchas of a login, since it began or since the last verification
TypeOK ==
    /\ alive \in 0 .. 1 /\ errmsg \in 0 .. 1 /\ cookie \in 0 .. 1
    /\ ptr \in [Field \union Local -> Pointer]
    /\ lost \subseteq Local /\ bad \subseteq Field \union Local
    /\ ret \in [op : Calls, res : Results, said : Outcomes]
    /\ pc \in LoginPc /\ retry_times \in 0 .. 3 /\ asked \in 0 .. 4
    /\ error \in Errors \union {"none"}

\* The server ends a login.
Expire ==
    /\ cookie = 1 /\ cookie' = 0
    /\ UNCHANGED <<alive, memory, errmsg, ret, locals>>

Next ==
    \/ pcs_create \/ pcs_destroy \/ pcs_clone_userinfo \/ pcs_setopt
    \/ pcs_islogin \/ pcs_logout \/ pcs_login
    \/ LoginStep \/ PanApiCall \/ Expire \/ SearchHangs \/ JumpCrashes

Init == HandleInit
Spec == Init /\ [][Next]_hvars

\* A login goes on: requests have time limits, and the callbacks that ask the
\* user return, in the end with a number that was offered.
FairSpec == Spec /\ WF_hvars(LoginStep)

-----------------------------------------------------------------------------
\* The message of the handle tells what a result means (pcs.h:244): NULL from
\* pcs_list or pcs_search without one is an empty answer, and with one a
\* failure; and but for pcs_create_superfile no call fails without a message,
\* nor leaves one of an earlier call after a success.
Explained ==
    /\ Idle /\ ret.op \in {"list", "search"} /\ ret.res = "null" =>
           (ret.said = "empty" <=> errmsg = 0)
    /\ Idle /\ ret.op # "superfile" =>
           /\ ret.said = "failed" => errmsg = 1
           /\ ret.said = "done" => errmsg = 0

\* pcs_login succeeds only when the home page has confirmed it: there is a
\* token for the calls to come.
LoginConfirmed ==
    Idle /\ ret.op = "login" /\ ret.res = "OK" => ptr["bdstoken"] = "live" /\ errmsg = 0

\* A login has freed its strings when it returns, but for the list of ways to
\* verify, which is lost when it comes with a failure.
LoginFreesAll == lost \subseteq {"verify_api_list"}

\* Whatever is freed or read has not been freed before, but for the address of
\* the page in the message of a failed jump (pcs.c:1723).
NoDanglingUse ==
    /\ bad \subseteq {"jump_url"}
    /\ pc \in {"dologin", "jump", "jumped", "judge"} =>
           ptr["token"] = "live" /\ ptr["code_string"] # "freed"
    /\ pc = "judge" => ptr["html"] = "live"
    /\ pc \in {"pick", "send", "sent", "check"} => ptr["verify_api_list"] = "live"
    /\ pc = "thaw" => ptr["gotourl"] # "freed" /\ ptr["authsid"] # "freed"

\* A login returns, unless the server asks for verification for ever, or sends
\* a page whose search for a key never ends (pcs.c:235, 237, 339, 365) or whose
\* address is read without being there (pcs.c:1616-1617).
LoginEnds == []<>(pc = "idle") \/ []<>(pc = "verify") \/ <>[](pc \in Stopped)

\* pcs_sysUID is NULL or the name of the user (pcs.h:155-156).
SysUidSound == ptr["sysUID"] # "freed"

=============================================================================
