------------------------------ MODULE PcsLogin ------------------------------
(***************************************************************************)
(* pcs_login (pcs/pcs.c): the conversation with the passport server, in    *)
(* which the server may ask for captchas and for a verification by mail or *)
(* telephone, and the strings the conversation owns.  One action is one    *)
(* request, one question to the user, or one way out.                      *)
(***************************************************************************)
EXTENDS PcsHandle

LoginPc == {"idle", "home", "getapi", "prefail", "logincheck", "dologin", "jump",
            "jumped", "judge", "accept", "refuse", "verify", "noapi", "api", "pick", "send",
            "nosuccess", "sent", "check", "checked", "thaw", "hung", "crashed"}
\* No call on the handle ever returns from these.
Stopped == {"hung", "crashed"}
\* What the answer to a login says: 3, 6, 257, 200010; 0, 18, 4000xx;
\* 120019, 120021; anything else.
Errors  == {"captcha", "ok", "verify", "other"}
\* No body; a body that is not what it should be.
BadReply == {"NETWORK_ERROR", "WRONG_RESPONSE"}

Names       == {"token", "code_string"}
Credentials == {"token", "code_string", "html"}
Secrets     == {"authtoken", "gotourl", "authsid"}
Verifying   == Credentials \union Secrets

At(l)       == alive = 1 /\ pc = l
Goto(l)     == pc' = l /\ UNCHANGED <<alive, ret>>
Keep        == UNCHANGED <<retry_times, error, asked>>
Set(n, v)   == [k \in {n} |-> v]

\* A page that the library is not ready for
StopsAt(l) ==
    /\ "odd" \in Faults
    /\ Goto(l) /\ Keep /\ UNCHANGED <<memory, errmsg, cookie>>

Leave == pc' = "idle" /\ retry_times' = 0 /\ error' = "none" /\ asked' = 0

\* pcs_login returns with an error message.
FailWith(res, free) ==
    /\ Return(free) /\ Say(1)
    /\ Answer("login", res, "failed")
    /\ Leave /\ UNCHANGED <<alive, cookie>>

-----------------------------------------------------------------------------
(***************************************************************************)
(* pcs_prelogin                                                            *)
(***************************************************************************)
pcs_login ==
    /\ Idle
    /\ Say(0) /\ pc' = "home"
    /\ Answer("login", "none", "none")
    /\ Keep /\ NewCall /\ UNCHANGED <<alive, ptr, cookie>>

Home ==
    /\ At("home")
    /\ \/ FailWith("NETWORK_ERROR", Names)
       \/ Goto("getapi") /\ Keep /\ UNCHANGED <<memory, errmsg, cookie>>

\* The token is copied, then codeString; without it, and when the token is not
\* hexadecimal, the copies are pcs_login's to free.
GetApi ==
    /\ At("getapi")
    /\ \/ \E res \in BadReply : FailWith(res, Names)
       \/ \E c \in {"null", "empty", "live"}, l \in {"prefail", "logincheck"} :
             /\ c = "null" => l = "prefail"
             /\ Strings({}, [n \in Names |-> IF n = "token" THEN "live" ELSE c])
             /\ Goto(l) /\ Keep /\ UNCHANGED <<errmsg, cookie>>

PreloginFails == At("prefail") /\ FailWith("WRONG_RESPONSE", Names)

LoginCheck ==
    /\ At("logincheck")
    /\ \/ \E res \in BadReply : FailWith(res, Names)
       \/ \E c \in {"empty", "live"} :
             /\ Strings({"code_string"}, Set("code_string", c))
             /\ Goto("dologin") /\ Keep /\ UNCHANGED <<errmsg, cookie>>

-----------------------------------------------------------------------------
(***************************************************************************)
(* pcs_dologin                                                             *)
(***************************************************************************)
\* Why there is no captcha
CaptchaFails == {"NETWORK_ERROR", "GET_CAPTCHA_FAIL"} \union
                (IF "nohook" \in Faults THEN {"NO_CAPTCHA_FUNC"} ELSE {})

\* try_login: html is freed; a code_string that is not empty needs a captcha;
\* the login is sent, and its answer copied when it has an error number.
DoLogin ==
    /\ At("dologin")
    /\ \/ \E res \in {"NETWORK_ERROR", "BUILD_POST_DATA"} \union
                     (IF ptr["code_string"] = "live" THEN CaptchaFails ELSE {}) :
             FailWith(res, Credentials)
       \/ /\ asked' = IF ptr["code_string"] = "live" THEN asked + 1 ELSE asked
          /\ error' \in Errors
          /\ Strings({"html"}, [n \in {"html", "jump_url"} |-> "live"])
          /\ cookie' \in {cookie, IF error' = "ok" THEN 1 ELSE cookie}
          /\ Goto("jump") /\ UNCHANGED <<retry_times, errmsg>>

\* The page that the answer redirects to is fetched, and its address freed.
Jump ==
    /\ At("jump")
    /\ Strings({"jump_url"}, Nulls({}))
    /\ Goto("jumped") /\ Keep /\ UNCHANGED <<errmsg, cookie>>

\* The page must be there; the message says which one is not.
Jumped ==
    /\ At("jumped")
    /\ \/ FailWith("NETWORK_ERROR", Credentials \union {"jump_url"})
       \/ /\ Strings({}, Nulls({"jump_url"}))
          /\ Goto("judge") /\ Keep /\ UNCHANGED <<errmsg, cookie>>

\* The answer names no address: a pointer that is NULL is read.
JumpCrashes == At("dologin") /\ StopsAt("crashed")

-----------------------------------------------------------------------------
(***************************************************************************)
(* pcs_login, after pcs_dologin                                            *)
(***************************************************************************)
\* Mutant of AskAgain: captchas are asked for without end.
AskForEver == error = "captcha"

AskAgain == error = "captcha" /\ retry_times < 3

\* Another captcha: its name is in the answer, or the login fails.
Captcha ==
    /\ At("judge") /\ AskAgain
    /\ \/ /\ Strings({"code_string"}, Set("code_string", "null"))
          /\ Goto("refuse") /\ Keep /\ UNCHANGED <<errmsg, cookie>>
       \/ /\ Strings({"code_string"}, Set("code_string", "live"))
          /\ Say(1) /\ retry_times' = retry_times + 1
          /\ Goto("dologin") /\ UNCHANGED <<cookie, error, asked>>

\* Mutant of Confirm: the answer of the passport server is believed.
Believe ==
    /\ At("judge") /\ error = "ok"
    /\ Goto("accept") /\ Keep
    /\ Say(0) /\ UNCHANGED <<memory, cookie>>

\* Accepted: the home page must say so too.
Confirm ==
    /\ At("judge") /\ error = "ok"
    /\ \E res \in {"NETWORK_ERROR", "NOT_LOGIN", "LOGIN"} :
          /\ IsLogin(res)
          /\ Goto(IF res = "LOGIN" THEN "accept" ELSE "refuse")
    /\ Keep /\ UNCHANGED cookie

\* Mutant of Accept: the answer is not freed.
AcceptKeepsHtml ==
    /\ At("accept")
    /\ Return(Names)
    /\ Answer("login", "OK", "done")
    /\ Leave /\ UNCHANGED <<alive, errmsg, cookie>>

Accept ==
    /\ At("accept")
    /\ Return(Credentials)
    /\ Answer("login", "OK", "done")
    /\ Leave /\ UNCHANGED <<alive, errmsg, cookie>>

\* Mutant of Refuse: a login that was refused is sent again.
RefuseRetries ==
    /\ \/ At("refuse")
       \/ At("judge") /\ error \in {"captcha", "other"} /\ ~AskAgain
    /\ Strings({"code_string"}, Set("code_string", "null"))
    /\ Goto("dologin") /\ Keep /\ UNCHANGED <<errmsg, cookie>>

\* One captcha too many, another error, no confirmation, no name of a captcha
Refuse ==
    /\ \/ At("refuse")
       \/ At("judge") /\ error \in {"captcha", "other"} /\ ~AskAgain
    /\ FailWith("FAIL", Credentials)

-----------------------------------------------------------------------------
(***************************************************************************)
(* pcs_do_auth_verify and pcs_call_auththaw.  Its three requests are       *)
(* pcs_call_authwidgetverify, which copies msg and what else it is asked   *)
(* for whether or not the answer is a success.                             *)
(***************************************************************************)
Verify ==
    /\ At("judge") /\ error = "verify"
    /\ \E a, g \in {"null", "live"} :
          Strings({}, [n \in {"authtoken", "gotourl"} |-> IF n = "authtoken" THEN a ELSE g])
    /\ Goto("verify") /\ Keep /\ UNCHANGED <<errmsg, cookie>>

\* getapi: the ways to verify
GetVerifyApi ==
    /\ At("verify")
    /\ \/ \E res \in BadReply : FailWith(res, Verifying)
       \/ /\ \E l, t \in {"null", "live"} :
                Strings({}, [n \in {"verify_api_list", "msg"} |-> IF n = "msg" THEN t ELSE l])
          /\ \E l \in {"noapi", "api"} : Goto(l)
          /\ Keep /\ UNCHANGED <<errmsg, cookie>>

\* The answer is not a success: the list that came with it is not freed.
NoVerifyApi == At("noapi") /\ FailWith("FAIL", Verifying \union {"msg"})

VerifyApi ==
    /\ At("api")
    /\ IF ptr["verify_api_list"] = "null"
       THEN FailWith("FAIL", Verifying \union {"msg"})
       ELSE /\ Strings({"msg"}, Nulls({}))
            /\ Goto("pick") /\ Keep /\ UNCHANGED <<errmsg, cookie>>

InputFails == {"GET_INPUT_FAIL"} \union (IF "nohook" \in Faults THEN {"NO_INPUT_FUNC"} ELSE {})

\* The user is asked until the answer is the number of one of them.
Pick ==
    /\ At("pick")
    /\ \/ \E res \in InputFails : FailWith(res, Verifying \union {"verify_api_list"})
       \/ Goto("send") /\ Keep /\ UNCHANGED <<memory, errmsg, cookie>>

\* Mutant of SendCode: after a failure msg, freed long ago, is freed again.
SendFreesMsg ==
    /\ At("send")
    /\ \/ \E res \in BadReply : FailWith(res, Verifying \union {"verify_api_list", "msg"})
       \/ /\ \E t \in {"null", "live"} : Strings({}, Set("msg", t))
          /\ \E l \in {"nosuccess", "sent"} : Goto(l)
          /\ Keep /\ UNCHANGED <<errmsg, cookie>>

SendCode ==
    /\ At("send")
    /\ \/ \E res \in BadReply : FailWith(res, Verifying \union {"verify_api_list"})
       \/ /\ \E t \in {"null", "live"} : Strings({}, Set("msg", t))
          /\ \E l \in {"nosuccess", "sent"} : Goto(l)
          /\ Keep /\ UNCHANGED <<errmsg, cookie>>

NoSuccess ==
    /\ At("nosuccess")
    /\ FailWith("FAIL", Verifying \union {"verify_api_list", "msg"})

\* The user is asked for the code that was sent.
AskCode ==
    /\ At("sent")
    /\ \/ \E res \in InputFails : FailWith(res, Verifying \union {"verify_api_list", "msg"})
       \/ /\ Strings({"msg"}, Nulls({}))
          /\ Goto("check") /\ Keep /\ UNCHANGED <<errmsg, cookie>>

CheckCode ==
    /\ At("check")
    /\ \/ \E res \in BadReply : FailWith(res, Verifying \union {"verify_api_list"})
       \/ /\ \E s, t \in {"null", "live"} :
                Strings({}, [n \in {"authsid", "msg"} |-> IF n = "msg" THEN t ELSE s])
          /\ \E l \in {"nosuccess", "checked"} : Goto(l)
          /\ Keep /\ UNCHANGED <<errmsg, cookie>>

Checked ==
    /\ At("checked")
    /\ Strings({"msg", "verify_api_list", "authtoken"}, Nulls({}))
    /\ Goto("thaw") /\ Keep /\ UNCHANGED <<errmsg, cookie>>

\* pcs_call_auththaw when there is an address, then try_login without a
\* captcha and with three more retries.
Thaw ==
    /\ At("thaw")
    /\ \/ /\ ptr["gotourl"] = "live"
          /\ \E res \in BadReply \union {"FAIL"} :
                FailWith(res, Credentials \union {"gotourl", "authsid"})
       \/ /\ Strings({"gotourl", "authsid", "code_string"},
                     Nulls(Secrets \union {"verify_api_list", "msg", "code_string"}))
          /\ retry_times' = 0 /\ asked' = 0
          /\ Goto("dologin") /\ UNCHANGED <<error, errmsg, cookie>>

-----------------------------------------------------------------------------
\* Pages are searched for a key by pcs_islogin, in the answer to a login, for
\* another captcha and for a verification.
Searching ==
    \/ pc \in {"idle", "dologin"}
    \/ pc = "judge" /\ (error \in {"ok", "verify"} \/ AskAgain)

\* The key is there, but not what must follow it: the search stays where it is.
SearchHangs == alive = 1 /\ Searching /\ StopsAt("hung")

LoginStep ==
    \/ Home \/ GetApi \/ PreloginFails \/ LoginCheck \/ DoLogin \/ Jump \/ Jumped
    \/ Captcha \/ Confirm \/ Accept \/ Refuse
    \/ Verify \/ GetVerifyApi \/ NoVerifyApi \/ VerifyApi \/ Pick \/ SendCode
    \/ NoSuccess \/ AskCode \/ CheckCode \/ Checked \/ Thaw

=============================================================================
