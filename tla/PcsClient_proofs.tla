--------------------------- MODULE PcsClient_proofs ---------------------------
(***************************************************************************)
(* Theorems about calls on a handle of the PCS library, for every set of   *)
(* faults: which string of a login is there at which step of it, what the  *)
(* caller is told, and what is freed.                                      *)
(***************************************************************************)
EXTENDS PcsClient, TLAPS

USE FaultsAssumption

Slot == Field \union Local

\* Steps of a login before the token is there, and those of a verification
Before   == {"idle", "home", "getapi"}
Verifies == {"verify", "noapi", "api", "pick", "send", "nosuccess", "sent", "check", "checked"}

-----------------------------------------------------------------------------
(***************************************************************************)
(* Who is there at which step.                                             *)
(***************************************************************************)
TokenInv == ptr["token"] = IF pc \in Before THEN "null" ELSE "live"

CodeInv ==
    ptr["code_string"] \in IF pc \in Before THEN {"null"} ELSE {"null", "empty", "live"}

HtmlInv ==
    ptr["html"] \in IF pc \in Before \union {"prefail", "logincheck"} THEN {"null"}
                    ELSE IF pc = "dologin" THEN {"null", "live"} ELSE {"live"}

JumpInv ==
    ptr["jump_url"] = IF pc = "jump" THEN "live" ELSE IF pc = "jumped" THEN "freed" ELSE "null"

AuthtokenInv ==
    ptr["authtoken"] \in IF pc \in Verifies THEN {"null", "live"}
                         ELSE IF pc = "thaw" THEN {"null", "freed"} ELSE {"null"}

GotoInv ==
    ptr["gotourl"] \in IF pc \in Verifies \union {"thaw"} THEN {"null", "live"} ELSE {"null"}

AuthsidInv ==
    ptr["authsid"] \in IF pc \in {"nosuccess", "checked", "thaw"} THEN {"null", "live"}
                       ELSE {"null"}

ListInv ==
    ptr["verify_api_list"] \in IF pc \in {"noapi", "api"} THEN {"null", "live"}
                               ELSE IF pc \in Verifies \ {"verify"} THEN {"live"}
                               ELSE IF pc = "thaw" THEN {"freed"} ELSE {"null"}

MsgInv ==
    ptr["msg"] \in IF pc \in {"noapi", "api", "nosuccess", "sent", "checked"} THEN {"null", "live"}
                   ELSE IF pc \in {"pick", "send", "check", "thaw"} THEN {"null", "freed"}
                   ELSE {"null"}

OwnInv ==
    pc \notin Stopped =>
        /\ TokenInv /\ CodeInv /\ HtmlInv /\ JumpInv /\ AuthtokenInv /\ GotoInv
        /\ AuthsidInv /\ ListInv /\ MsgInv

\* A captcha asked for is one of the three retries, or the first.
AskedInv ==
    /\ pc \in Before \union {"prefail", "logincheck"} => asked = 0 /\ retry_times = 0
    /\ pc = "dologin" => asked <= retry_times
    /\ asked <= retry_times + 1

\* What is confirmed stays so until the login returns.
AcceptInv == pc = "accept" => ptr["bdstoken"] = "live" /\ errmsg = 0

Handle ==
    /\ alive \in 0 .. 1 /\ errmsg \in 0 .. 1 /\ cookie \in 0 .. 1
    /\ ptr \in [Slot -> Pointer]
    /\ bad \subseteq Slot
    /\ ret \in [op : Calls, res : Results, said : Outcomes]
    /\ pc \in LoginPc /\ retry_times \in 0 .. 3 /\ asked \in 0 .. 4
    /\ error \in Errors \union {"none"}

Told == Explained /\ LoginConfirmed /\ LoginFreesAll

ClientInv == Handle /\ OwnInv /\ AskedInv /\ AcceptInv /\ Told

LEMMA StringsFields ==
    ASSUME Handle, NEW free \in SUBSET Slot, NEW new, DOMAIN new \subseteq Slot,
           \A n \in DOMAIN new : new[n] \in Pointer, Strings(free, new)
    PROVE  /\ ptr' \in [Slot -> Pointer] /\ bad' \subseteq Slot
           /\ \A n \in Slot : ptr'[n] = IF n \in DOMAIN new THEN new[n]
                                        ELSE IF n \in free THEN Freed(n) ELSE ptr[n]
<1>1. \A n \in Slot : Freed(n) \in Pointer
    BY DEF Freed, Handle, Pointer
<1>2. ptr' = [n \in Slot |-> IF n \in DOMAIN new THEN new[n]
                             ELSE IF n \in free THEN Freed(n) ELSE ptr[n]]
    BY DEF Strings, Slot
<1>3. \A n \in Slot : (IF n \in DOMAIN new THEN new[n]
                       ELSE IF n \in free THEN Freed(n) ELSE ptr[n]) \in Pointer
    BY <1>1 DEF Handle
<1>4. bad' \subseteq Slot
    BY DEF Strings, Handle
<1> HIDE DEF Slot
<1> QED BY <1>2, <1>3, <1>4

\* A string that is there is either freed or found in its place, or it is lost.
Loses(free) == \A n \in Local : Held(n) => n \in free \union {"verify_api_list"}

\* A login that returns
LEMMA Returns ==
    ASSUME ClientInv, NEW free \in SUBSET Local, Loses(free), Return(free), Leave,
           UNCHANGED <<alive, cookie>>, errmsg' \in 0 .. 1,
           NEW res \in Results, NEW said \in Outcomes, Answer("login", res, said),
           res = "OK" => ptr["bdstoken"] = "live" /\ errmsg' = 0,
           said = "failed" => errmsg' = 1,
           said = "done" => errmsg' = 0
    PROVE  ClientInv'
<1>1. Handle /\ LoginFreesAll
    BY DEF ClientInv, Told
<1>2. ptr' = [n \in Slot |-> IF n \in Local THEN "null" ELSE ptr[n]]
    BY DEF Return, Slot
<1>3. ptr' \in [Slot -> Pointer]
    BY <1>1, <1>2 DEF Handle, Pointer
<1>4. bad' \subseteq Slot
    BY <1>1 DEF Return, Handle, Slot
<1>5. ret' = [op |-> "login", res |-> res, said |-> said]
    BY DEF Answer
<1>6. pc' = "idle" /\ retry_times' = 0 /\ asked' = 0 /\ error' = "none"
    BY DEF Leave
<1>7. ret' \in [op : Calls, res : Results, said : Outcomes]
    <2>1. "login" \in Calls
        BY DEF Calls
    <2> QED BY <1>5, <2>1
<1>71. Handle'
    BY <1>1, <1>3, <1>4, <1>6, <1>7 DEF Handle, LoginPc
<1>8. \A n \in Local : ptr'[n] = "null"
    BY <1>2 DEF Slot
<1>9. OwnInv'
    BY <1>6, <1>8 DEF OwnInv, TokenInv, CodeInv, HtmlInv, JumpInv, AuthtokenInv, GotoInv, AuthsidInv,
       ListInv, MsgInv, Before, Verifies, Local
<1>10. AskedInv' /\ AcceptInv'
    BY <1>6 DEF AskedInv, AcceptInv
<1>11. LoginFreesAll'
    BY <1>1 DEF LoginFreesAll, Return, Loses
<1>12. ptr'["bdstoken"] = ptr["bdstoken"]
    BY <1>2 DEF Slot, Field, Local
<1>13. Explained' /\ LoginConfirmed'
    BY <1>5, <1>12 DEF Explained, LoginConfirmed
<1> QED BY <1>71, <1>9, <1>10, <1>11, <1>13 DEF ClientInv, Told

LEMMA Fails ==
    ASSUME ClientInv, NEW free \in SUBSET Local, Loses(free),
           NEW res \in Results, res # "OK", FailWith(res, free)
    PROVE  ClientInv'
<1>1. Return(free) /\ Leave /\ UNCHANGED <<alive, cookie>> /\ errmsg' = 1
    BY DEF FailWith, Say
<1>2. Answer("login", res, "failed")
    BY DEF FailWith
<1>3. "failed" \in Outcomes /\ "failed" # "done"
    BY DEF Outcomes
<1>4. errmsg' \in 0 .. 1
    BY <1>1
<1> QED BY <1>1, <1>2, <1>3, <1>4, Returns

\* A login that goes on tells nothing yet.
LEMMA GoesOn ==
    ASSUME ClientInv, NEW l \in LoginPc \ {"idle"}, Goto(l),
           errmsg' \in 0 .. 1, cookie' \in 0 .. 1, ptr' \in [Slot -> Pointer], bad' \subseteq Slot,
           retry_times' \in 0 .. 3, asked' \in 0 .. 4, error' \in Errors \union {"none"},
           lost' \subseteq {"verify_api_list"}, OwnInv', AskedInv', AcceptInv'
    PROVE  ClientInv'
<1>1. pc' = l /\ UNCHANGED <<alive, ret>>
    BY DEF Goto
<1>2. Handle'
    BY <1>1 DEF ClientInv, Handle
<1>3. Told'
    BY <1>1 DEF Told, Explained, LoginConfirmed, LoginFreesAll, Idle
<1> QED BY <1>2, <1>3 DEF ClientInv


\* One of the failures of a step
LEMMA FailsSo ==
    ASSUME ClientInv, NEW free \in SUBSET Local, Loses(free),
           NEW all \in SUBSET (Results \ {"OK"}), \E res \in all : FailWith(res, free)
    PROVE  ClientInv'
<1>1. PICK res \in all : FailWith(res, free)
    OBVIOUS
<1> QED BY <1>1, Fails

\* A login that goes on with some strings freed and others assigned
LEMMA Moves ==
    ASSUME ClientInv, NEW free \in SUBSET Slot, NEW new, DOMAIN new \subseteq Slot,
           \A n \in DOMAIN new : new[n] \in Pointer, Strings(free, new),
           \A n \in DOMAIN new \intersect Local : Held(n) => n \in free,
           NEW l \in LoginPc \ {"idle"}, Goto(l),
           errmsg' \in 0 .. 1, cookie' \in 0 .. 1,
           retry_times' \in 0 .. 3, asked' \in 0 .. 4, error' \in Errors \union {"none"},
           OwnInv', AskedInv', AcceptInv'
    PROVE  ClientInv'
<1>1. ptr' \in [Slot -> Pointer] /\ bad' \subseteq Slot
    BY StringsFields DEF ClientInv
<1>2. lost' \subseteq {"verify_api_list"}
    BY DEF ClientInv, Told, LoginFreesAll, Strings
<1> QED BY <1>1, <1>2, GoesOn

\* Only strings of the login matter to who is there.
LEMMA SameLocals ==
    ASSUME OwnInv, \A n \in Local : ptr'[n] = ptr[n], pc' = pc
    PROVE  OwnInv'
BY DEF OwnInv, TokenInv, CodeInv, HtmlInv, JumpInv, AuthtokenInv, GotoInv, AuthsidInv,
   ListInv, MsgInv, Before, Verifies, Local

USE DEF Local, Field, Slot, Names, Credentials, Secrets, Verifying, Stopped

-----------------------------------------------------------------------------
(***************************************************************************)
(* The steps of a login.                                                   *)
(***************************************************************************)
LEMMA HomeKeeps == ClientInv /\ Home => ClientInv'
<1> SUFFICES ASSUME ClientInv, Home PROVE ClientInv'
    OBVIOUS
<1>1. pc = "home" /\ Handle /\ OwnInv /\ LoginFreesAll
    BY DEF Home, At, ClientInv, Told
<1>2. \A n \in Local : ptr[n] = "null"
    BY <1>1 DEF OwnInv, TokenInv, CodeInv, HtmlInv, JumpInv, AuthtokenInv, GotoInv,
       AuthsidInv, ListInv, MsgInv, Before, Verifies
<1>3. CASE FailWith("NETWORK_ERROR", Names)
    <2>1. Loses(Names)
        BY <1>2 DEF Loses, Held
    <2>2. "NETWORK_ERROR" \in Results /\ Names \in SUBSET Local
        BY DEF Results
    <2> QED BY <1>3, <2>1, <2>2, Fails
<1>4. CASE Goto("getapi") /\ Keep /\ UNCHANGED <<memory, errmsg, cookie>>
    <2>1. OwnInv'
        BY <1>2, <1>4 DEF Goto, memory, OwnInv, TokenInv, CodeInv, HtmlInv, JumpInv, AuthtokenInv, GotoInv,
       AuthsidInv, ListInv, MsgInv, Before, Verifies
    <2>2. AskedInv' /\ AcceptInv'
        BY <1>1, <1>4 DEF ClientInv, AskedInv, AcceptInv, Keep, Before, Goto
    <2>3. "getapi" \in LoginPc \ {"idle"}
        BY DEF LoginPc
    <2> QED BY <1>1, <1>4, <2>1, <2>2, <2>3, GoesOn DEF Handle, Keep, memory, LoginFreesAll
<1> QED BY <1>3, <1>4 DEF Home

LEMMA GetApiKeeps == ClientInv /\ GetApi => ClientInv'
<1> SUFFICES ASSUME ClientInv, GetApi PROVE ClientInv'
    OBVIOUS
<1>1. pc = "getapi" /\ Handle /\ OwnInv
    BY DEF GetApi, At, ClientInv
<1>2. \A n \in Local : ptr[n] = "null"
    BY <1>1 DEF OwnInv, TokenInv, CodeInv, HtmlInv, JumpInv, AuthtokenInv, GotoInv,
       AuthsidInv, ListInv, MsgInv, Before, Verifies
<1>3. CASE \E res \in BadReply : FailWith(res, Names)
    <2>1. Loses(Names)
        BY <1>2 DEF Loses, Held
    <2>2. BadReply \in SUBSET (Results \ {"OK"}) /\ Names \in SUBSET Local
        BY DEF BadReply, Results
    <2> QED BY <1>3, <2>1, <2>2, FailsSo
<1>4. ASSUME NEW c \in {"null", "empty", "live"}, NEW l \in {"prefail", "logincheck"},
             Strings({}, [n \in Names |-> IF n = "token" THEN "live" ELSE c]),
             Goto(l), Keep, UNCHANGED <<errmsg, cookie>>
      PROVE  ClientInv'
    <2> DEFINE new == [n \in Names |-> IF n = "token" THEN "live" ELSE c]
    <2>1. /\ DOMAIN new = Names /\ new["token"] = "live" /\ new["code_string"] = c
          /\ \A n \in Names : new[n] \in Pointer
          /\ Strings({}, new)
        BY <1>4 DEF Pointer
    <2> HIDE DEF new
    <2>2. /\ ptr'["token"] = "live" /\ ptr'["code_string"] = c
          /\ \A n \in Local \ Names : ptr'[n] = "null"
        BY <1>1, <1>2, <2>1, StringsFields
    <2>3. pc' = l
        BY <1>4 DEF Goto
    <2>4. OwnInv'
        BY <2>2, <2>3 DEF OwnInv, TokenInv, CodeInv, HtmlInv, JumpInv, AuthtokenInv, GotoInv,
       AuthsidInv, ListInv, MsgInv, Before, Verifies
    <2>5. AskedInv' /\ AcceptInv'
        BY <1>1, <1>4, <2>3 DEF ClientInv, AskedInv, AcceptInv, Keep, Before
    <2>6. \A n \in Local : ~Held(n)
        BY <1>2 DEF Held
    <2>7. l \in LoginPc \ {"idle"}
        BY DEF LoginPc
    <2> QED BY <1>1, <1>4, <2>1, <2>4, <2>5, <2>6, <2>7, Moves DEF Handle, Keep
<1> QED BY <1>3, <1>4 DEF GetApi

LEMMA PreloginFailsKeeps == ClientInv /\ PreloginFails => ClientInv'
<1> SUFFICES ASSUME ClientInv, PreloginFails PROVE ClientInv'
    OBVIOUS
<1>1. pc = "prefail" /\ OwnInv
    BY DEF PreloginFails, At, ClientInv
<1>2. Loses(Names)
    BY <1>1 DEF Loses, Held, OwnInv, TokenInv, CodeInv, HtmlInv, JumpInv, AuthtokenInv, GotoInv,
       AuthsidInv, ListInv, MsgInv, Before, Verifies
<1>3. "WRONG_RESPONSE" \in Results /\ Names \in SUBSET Local
    BY DEF Results
<1> QED BY <1>2, <1>3, Fails DEF PreloginFails

LEMMA LoginCheckKeeps == ClientInv /\ LoginCheck => ClientInv'
<1> SUFFICES ASSUME ClientInv, LoginCheck PROVE ClientInv'
    OBVIOUS
<1>1. pc = "logincheck" /\ Handle /\ OwnInv
    BY DEF LoginCheck, At, ClientInv
<1>2. ptr["token"] = "live" /\ \A n \in Local \ Names : ptr[n] = "null"
    BY <1>1 DEF OwnInv, TokenInv, CodeInv, HtmlInv, JumpInv, AuthtokenInv, GotoInv,
       AuthsidInv, ListInv, MsgInv, Before, Verifies
<1>3. CASE \E res \in BadReply : FailWith(res, Names)
    <2>1. Loses(Names)
        BY <1>2 DEF Loses, Held
    <2>2. BadReply \in SUBSET (Results \ {"OK"}) /\ Names \in SUBSET Local
        BY DEF BadReply, Results
    <2> QED BY <1>3, <2>1, <2>2, FailsSo
<1>4. ASSUME NEW c \in {"empty", "live"}, Strings({"code_string"}, Set("code_string", c)),
             Goto("dologin"), Keep, UNCHANGED <<errmsg, cookie>>
      PROVE  ClientInv'
    <2>1. /\ DOMAIN Set("code_string", c) = {"code_string"}
          /\ Set("code_string", c)["code_string"] = c /\ c \in Pointer
        BY DEF Set, Pointer
    <2>2. /\ ptr'["token"] = "live" /\ ptr'["code_string"] = c
          /\ \A n \in Local \ Names : ptr'[n] = "null"
        BY <1>1, <1>2, <1>4, <2>1, StringsFields
    <2>3. pc' = "dologin"
        BY <1>4 DEF Goto
    <2>4. OwnInv'
        BY <2>2, <2>3 DEF OwnInv, TokenInv, CodeInv, HtmlInv, JumpInv, AuthtokenInv, GotoInv,
       AuthsidInv, ListInv, MsgInv, Before, Verifies
    <2>5. AskedInv' /\ AcceptInv'
        BY <1>1, <1>4, <2>3 DEF ClientInv, AskedInv, AcceptInv, Keep, Before
    <2>6. "dologin" \in LoginPc \ {"idle"}
        BY DEF LoginPc
    <2> QED BY <1>1, <1>4, <2>1, <2>4, <2>5, <2>6, Moves DEF Handle, Keep
<1> QED BY <1>3, <1>4 DEF LoginCheck

LEMMA DoLoginKeeps == ClientInv /\ DoLogin => ClientInv'
<1> SUFFICES ASSUME ClientInv, DoLogin PROVE ClientInv'
    OBVIOUS
<1>1. pc = "dologin" /\ Handle /\ OwnInv /\ AskedInv
    BY DEF DoLogin, At, ClientInv
<1>2. ptr["token"] = "live" /\ ptr["code_string"] \in {"null", "empty", "live"}
      /\ \A n \in Local \ Credentials : ptr[n] = "null"
    BY <1>1 DEF OwnInv, TokenInv, CodeInv, HtmlInv, JumpInv, AuthtokenInv, GotoInv,
       AuthsidInv, ListInv, MsgInv, Before, Verifies
<1>3. DEFINE fails == {"NETWORK_ERROR", "BUILD_POST_DATA"} \union
                      (IF ptr["code_string"] = "live" THEN CaptchaFails ELSE {})
<1>4. CASE \E res \in fails : FailWith(res, Credentials)
    <2>1. Loses(Credentials)
        BY <1>2 DEF Loses, Held
    <2>2. fails \in SUBSET (Results \ {"OK"}) /\ Credentials \in SUBSET Local
        BY DEF CaptchaFails, Results
    <2> QED BY <1>4, <2>1, <2>2, FailsSo
<1>5. ASSUME asked' = (IF ptr["code_string"] = "live" THEN asked + 1 ELSE asked),
             error' \in Errors,
             Strings({"html"}, [n \in {"html", "jump_url"} |-> "live"]),
             cookie' \in {cookie, IF error' = "ok" THEN 1 ELSE cookie},
             Goto("jump"), UNCHANGED <<retry_times, errmsg>>
      PROVE  ClientInv'
    <2> DEFINE new == [n \in {"html", "jump_url"} |-> "live"]
    <2>1. /\ DOMAIN new = {"html", "jump_url"} /\ new["html"] = "live" /\ new["jump_url"] = "live"
          /\ \A n \in DOMAIN new : new[n] \in Pointer
          /\ Strings({"html"}, new)
        BY <1>5 DEF Pointer
    <2> HIDE DEF new
    <2>2. /\ ptr'["html"] = "live" /\ ptr'["jump_url"] = "live"
          /\ \A n \in Local \ {"html", "jump_url"} : ptr'[n] = ptr[n]
        BY <1>1, <2>1, StringsFields
    <2>3. pc' = "jump"
        BY <1>5 DEF Goto
    <2>4. OwnInv'
        BY <1>2, <2>2, <2>3 DEF OwnInv, TokenInv, CodeInv, HtmlInv, JumpInv, AuthtokenInv, GotoInv,
       AuthsidInv, ListInv, MsgInv, Before, Verifies
    <2>5. AskedInv' /\ AcceptInv' /\ asked' \in 0 .. 4
        BY <1>1, <1>5, <2>3 DEF AskedInv, AcceptInv, Before, Handle
    <2>6. "jump" \in LoginPc \ {"idle"} /\ cookie' \in 0 .. 1
        BY <1>1, <1>5 DEF LoginPc, Handle
    <2>7. \A n \in DOMAIN new \intersect Local : Held(n) => n \in {"html"}
        BY <1>2, <2>1 DEF Held
    <2>8. /\ errmsg' \in 0 .. 1 /\ retry_times' \in 0 .. 3 /\ error' \in Errors \union {"none"}
        BY <1>1, <1>5 DEF Handle
    <2> QED BY <1>5, <2>1, <2>4, <2>5, <2>6, <2>7, <2>8, Moves
<1> QED BY <1>4, <1>5 DEF DoLogin

LEMMA JumpKeeps == ClientInv /\ Jump => ClientInv'
<1> SUFFICES ASSUME ClientInv, Jump PROVE ClientInv'
    OBVIOUS
<1>1. pc = "jump" /\ Handle /\ OwnInv /\ AskedInv
    BY DEF Jump, At, ClientInv
<1>2. DOMAIN Nulls({}) = {} /\ Strings({"jump_url"}, Nulls({})) /\ Goto("jumped") /\ pc' = "jumped"
    BY DEF Nulls, Jump, Goto
<1>3. /\ ptr'["jump_url"] = "freed"
      /\ \A n \in Local \ {"jump_url"} : ptr'[n] = ptr[n]
    BY <1>1, <1>2, StringsFields DEF OwnInv, JumpInv, Freed, Held
<1>4. OwnInv'
    BY <1>1, <1>2, <1>3 DEF OwnInv, TokenInv, CodeInv, HtmlInv, JumpInv, AuthtokenInv, GotoInv,
       AuthsidInv, ListInv, MsgInv, Before, Verifies
<1>5. AskedInv' /\ AcceptInv'
    BY <1>1, <1>2 DEF AskedInv, AcceptInv, Before, Jump, Keep
<1>6. "jumped" \in LoginPc \ {"idle"}
    BY DEF LoginPc
<1> QED BY <1>1, <1>2, <1>4, <1>5, <1>6, Moves DEF Handle, Jump, Keep

LEMMA JumpedKeeps == ClientInv /\ Jumped => ClientInv'
<1> SUFFICES ASSUME ClientInv, Jumped PROVE ClientInv'
    OBVIOUS
<1>1. pc = "jumped" /\ Handle /\ OwnInv /\ AskedInv
    BY DEF Jumped, At, ClientInv
<1>2. /\ ptr["token"] = "live" /\ ptr["html"] = "live" /\ ptr["jump_url"] = "freed"
      /\ ptr["code_string"] \in {"null", "empty", "live"}
      /\ \A n \in Local \ (Credentials \union {"jump_url"}) : ptr[n] = "null"
    BY <1>1 DEF OwnInv, TokenInv, CodeInv, HtmlInv, JumpInv, AuthtokenInv, GotoInv,
       AuthsidInv, ListInv, MsgInv, Before, Verifies
<1>3. CASE FailWith("NETWORK_ERROR", Credentials \union {"jump_url"})
    <2>1. Loses(Credentials \union {"jump_url"})
        BY <1>2 DEF Loses, Held
    <2>2. "NETWORK_ERROR" \in Results /\ Credentials \union {"jump_url"} \in SUBSET Local
        BY DEF Results
    <2> QED BY <1>3, <2>1, <2>2, Fails
<1>4. CASE /\ Strings({}, Nulls({"jump_url"}))
           /\ Goto("judge") /\ Keep /\ UNCHANGED <<errmsg, cookie>>
    <2>1. /\ DOMAIN Nulls({"jump_url"}) = {"jump_url"} /\ Nulls({"jump_url"})["jump_url"] = "null"
          /\ "null" \in Pointer
        BY DEF Nulls, Pointer
    <2>2. ptr'["jump_url"] = "null" /\ \A n \in Local \ {"jump_url"} : ptr'[n] = ptr[n]
        BY <1>1, <1>4, <2>1, StringsFields
    <2>3. pc' = "judge"
        BY <1>4 DEF Goto
    <2>4. OwnInv'
        BY <1>2, <2>2, <2>3 DEF OwnInv, TokenInv, CodeInv, HtmlInv, JumpInv, AuthtokenInv, GotoInv,
       AuthsidInv, ListInv, MsgInv, Before, Verifies
    <2>5. AskedInv' /\ AcceptInv'
        BY <1>1, <1>4, <2>3 DEF AskedInv, AcceptInv, Keep, Before
    <2>6. "judge" \in LoginPc \ {"idle"} /\ ~Held("jump_url")
        BY <1>2 DEF LoginPc, Held
    <2> QED BY <1>1, <1>4, <2>1, <2>4, <2>5, <2>6, Moves DEF Handle, Keep
<1> QED BY <1>3, <1>4 DEF Jumped

LEMMA CaptchaKeeps == ClientInv /\ Captcha => ClientInv'
<1> SUFFICES ASSUME ClientInv, Captcha PROVE ClientInv'
    OBVIOUS
<1>1. pc = "judge" /\ Handle /\ OwnInv /\ AskedInv /\ retry_times < 3
    BY DEF Captcha, At, ClientInv, AskAgain
<1>2. \A v \in Pointer : DOMAIN Set("code_string", v) = {"code_string"}
                         /\ Set("code_string", v)["code_string"] = v
    BY DEF Set
<1>3. "null" \in Pointer /\ "live" \in Pointer
      /\ "refuse" \in LoginPc \ {"idle"} /\ "dologin" \in LoginPc \ {"idle"}
    BY DEF Pointer, LoginPc
<1>4. CASE /\ Strings({"code_string"}, Set("code_string", "null"))
           /\ Goto("refuse") /\ Keep /\ UNCHANGED <<errmsg, cookie>>
    <2>1. ptr'["code_string"] = "null" /\ \A n \in Local \ {"code_string"} : ptr'[n] = ptr[n]
        BY <1>1, <1>2, <1>3, <1>4, StringsFields
    <2>2. pc' = "refuse"
        BY <1>4 DEF Goto
    <2>3. OwnInv'
        BY <1>1, <2>1, <2>2 DEF OwnInv, TokenInv, CodeInv, HtmlInv, JumpInv, AuthtokenInv, GotoInv,
       AuthsidInv, ListInv, MsgInv, Before, Verifies
    <2>4. AskedInv' /\ AcceptInv'
        BY <1>1, <1>4, <2>2 DEF AskedInv, AcceptInv, Keep, Before
    <2> QED BY <1>1, <1>2, <1>3, <1>4, <2>3, <2>4, Moves DEF Handle, Keep
<1>5. CASE /\ Strings({"code_string"}, Set("code_string", "live"))
           /\ Say(1) /\ retry_times' = retry_times + 1
           /\ Goto("dologin") /\ UNCHANGED <<cookie, error, asked>>
    <2>1. ptr'["code_string"] = "live" /\ \A n \in Local \ {"code_string"} : ptr'[n] = ptr[n]
        BY <1>1, <1>2, <1>3, <1>5, StringsFields
    <2>2. pc' = "dologin"
        BY <1>5 DEF Goto
    <2>3. OwnInv'
        BY <1>1, <2>1, <2>2 DEF OwnInv, TokenInv, CodeInv, HtmlInv, JumpInv, AuthtokenInv, GotoInv,
       AuthsidInv, ListInv, MsgInv, Before, Verifies
    <2>4. AskedInv' /\ AcceptInv' /\ retry_times' \in 0 .. 3 /\ errmsg' \in 0 .. 1
        BY <1>1, <1>5, <2>2 DEF AskedInv, AcceptInv, Before, Handle, Say
    <2>5. cookie' \in 0 .. 1 /\ asked' \in 0 .. 4 /\ error' \in Errors \union {"none"}
        BY <1>1, <1>5 DEF Handle
    <2> QED BY <1>2, <1>3, <1>5, <2>3, <2>4, <2>5, Moves
<1> QED BY <1>4, <1>5 DEF Captcha

\* What a look at the home page changes: fields of the handle alone, and the
\* message; a token is there when it says LOGIN.
LEMMA Looks ==
    ASSUME Handle, NEW res \in {"NETWORK_ERROR", "NOT_LOGIN", "LOGIN"}, IsLogin(res)
    PROVE  /\ ptr' \in [Slot -> Pointer] /\ bad' \subseteq Slot
           /\ \A n \in Local : ptr'[n] = ptr[n]
           /\ lost' = lost
           /\ errmsg' = IF res = "NETWORK_ERROR" THEN 1 ELSE 0
           /\ res = "LOGIN" => ptr'["bdstoken"] = "live"
<1>1. CASE res = "NETWORK_ERROR"
    BY <1>1 DEF IsLogin, NoPage, Say, memory, Handle
<1>2. CASE res = "NOT_LOGIN" /\ Redirected
    BY <1>2 DEF Redirected, Say, memory, Handle
<1>3. ASSUME NEW free \in SUBSET Field, NEW new, DOMAIN new \subseteq Field,
             \A n \in DOMAIN new : new[n] \in Pointer, Strings(free, new)
      PROVE  /\ ptr' \in [Slot -> Pointer] /\ bad' \subseteq Slot
             /\ \A n \in Local : ptr'[n] = ptr[n]
             /\ \A n \in DOMAIN new : ptr'[n] = new[n]
             /\ lost' = lost
    <2>1. \A n \in Local : n \notin free /\ n \notin DOMAIN new
        BY <1>3
    <2>2. lost' = lost
        BY <1>3, <2>1 DEF Strings
    <2> QED BY <1>3, <2>1, <2>2, StringsFields
<1>4. CASE res = "NOT_LOGIN" /\ Foreign
    <2>1. PICK t \in {"null", "empty"} : Strings({"bdstoken"}, [n \in {"bdstoken"} |-> t])
        BY <1>4 DEF Foreign
    <2>2. t \in Pointer
        BY DEF Pointer
    <2>3. /\ ptr' \in [Slot -> Pointer] /\ bad' \subseteq Slot
          /\ \A n \in Local : ptr'[n] = ptr[n]
          /\ lost' = lost
        BY <2>1, <2>2, <1>3
    <2> QED BY <1>4, <2>3 DEF Foreign, Say
<1>5. CASE res = "LOGIN" /\ TokenPage
    <2> DEFINE new(duss, uid) == [n \in {"bdstoken", "bduss", "sysUID"} |->
                      CASE n = "bdstoken" -> "live" [] n = "bduss" -> duss
                        [] n = "sysUID" -> uid]
    <2>1. PICK duss \in Cookie, uid \in Found :
             Strings({"bdstoken", "bduss", "sysUID"}, new(duss, uid))
        BY <1>5 DEF TokenPage
    <2>2. /\ DOMAIN new(duss, uid) = {"bdstoken", "bduss", "sysUID"}
          /\ new(duss, uid)["bdstoken"] = "live" /\ new(duss, uid)["bduss"] = duss
          /\ new(duss, uid)["sysUID"] = uid
        OBVIOUS
    <2>3. duss \in Pointer /\ uid \in Pointer /\ "live" \in Pointer
        BY DEF Pointer, Cookie, Found
    <2> HIDE DEF new
    <2>4. /\ ptr' \in [Slot -> Pointer] /\ bad' \subseteq Slot
          /\ \A n \in Local : ptr'[n] = ptr[n]
          /\ lost' = lost /\ ptr'["bdstoken"] = "live"
        BY <2>1, <2>2, <2>3, <1>3
    <2> QED BY <1>5, <2>4 DEF TokenPage, Say
<1>6. CASE res = "LOGIN" /\ ContextPage
    <2> DEFINE set(user) == {"bdstoken", "bduss"} \union (IF user = 1 THEN {"sysUID"} ELSE {})
               new(duss, user) == [n \in set(user) |-> IF n = "bduss" THEN duss ELSE "live"]
    <2>1. PICK duss \in Cookie, user \in {1, IF "nouser" \in Faults THEN 0 ELSE 1} :
             Strings({"bdstoken", "bduss", "sysUID"}, new(duss, user))
        BY <1>6 DEF ContextPage
    <2>2. duss \in Pointer /\ "live" \in Pointer
        BY DEF Pointer, Cookie
    <2>3. /\ DOMAIN new(duss, user) \in SUBSET Field /\ "bdstoken" \in DOMAIN new(duss, user)
          /\ new(duss, user)["bdstoken"] = "live"
          /\ \A n \in DOMAIN new(duss, user) : new(duss, user)[n] \in Pointer
        BY <2>2
    <2> HIDE DEF new
    <2>4. /\ ptr' \in [Slot -> Pointer] /\ bad' \subseteq Slot
          /\ \A n \in Local : ptr'[n] = ptr[n]
          /\ lost' = lost /\ ptr'["bdstoken"] = "live"
        BY <2>1, <2>3, <1>3
    <2> QED BY <1>6, <2>4 DEF ContextPage, Say
<1> QED BY <1>1, <1>2, <1>4, <1>5, <1>6 DEF IsLogin

LEMMA ConfirmKeeps == ClientInv /\ Confirm => ClientInv'
<1> SUFFICES ASSUME ClientInv, Confirm PROVE ClientInv'
    OBVIOUS
<1>1. pc = "judge" /\ Handle /\ OwnInv /\ AskedInv /\ LoginFreesAll
    BY DEF Confirm, At, ClientInv, Told
<1>2. PICK res \in {"NETWORK_ERROR", "NOT_LOGIN", "LOGIN"} :
         IsLogin(res) /\ Goto(IF res = "LOGIN" THEN "accept" ELSE "refuse")
    BY DEF Confirm
<1>3. DEFINE l == IF res = "LOGIN" THEN "accept" ELSE "refuse"
<1>4. l \in LoginPc \ {"idle"} /\ Goto(l) /\ pc' = l
    BY <1>2 DEF LoginPc, Goto
<1>5. /\ ptr' \in [Slot -> Pointer] /\ bad' \subseteq Slot
      /\ \A n \in Local : ptr'[n] = ptr[n]
      /\ lost' = lost
      /\ errmsg' = IF res = "NETWORK_ERROR" THEN 1 ELSE 0
      /\ res = "LOGIN" => ptr'["bdstoken"] = "live"
    BY <1>1, <1>2, Looks
<1>6. OwnInv'
    BY <1>1, <1>4, <1>5 DEF OwnInv, TokenInv, CodeInv, HtmlInv, JumpInv, AuthtokenInv, GotoInv,
       AuthsidInv, ListInv, MsgInv, Before, Verifies
<1>7. AcceptInv'
    BY <1>4, <1>5 DEF AcceptInv
<1>8. AskedInv'
    BY <1>1, <1>4 DEF AskedInv, Before, Confirm, Keep
<1>9. /\ cookie' \in 0 .. 1 /\ retry_times' \in 0 .. 3 /\ asked' \in 0 .. 4
      /\ error' \in Errors \union {"none"} /\ errmsg' \in 0 .. 1
      /\ lost' \subseteq {"verify_api_list"}
    BY <1>1, <1>5 DEF Handle, Confirm, Keep, LoginFreesAll
<1> HIDE DEF l
<1> QED BY <1>4, <1>5, <1>6, <1>7, <1>8, <1>9, GoesOn

LEMMA AcceptKeeps == ClientInv /\ Accept => ClientInv'
<1> SUFFICES ASSUME ClientInv, Accept PROVE ClientInv'
    OBVIOUS
<1>1. pc = "accept" /\ Handle /\ OwnInv /\ AcceptInv
    BY DEF Accept, At, ClientInv
<1>2. Loses(Credentials)
    BY <1>1 DEF Loses, Held, OwnInv, TokenInv, CodeInv, HtmlInv, JumpInv, AuthtokenInv, GotoInv,
       AuthsidInv, ListInv, MsgInv, Before, Verifies
<1>3. /\ Return(Credentials) /\ Leave /\ Answer("login", "OK", "done")
      /\ UNCHANGED <<alive, cookie>> /\ errmsg' = errmsg
    BY DEF Accept
<1>4. ptr["bdstoken"] = "live" /\ errmsg' = 0 /\ errmsg' \in 0 .. 1
    BY <1>1, <1>3 DEF AcceptInv
<1>5. "OK" \in Results /\ "done" \in Outcomes /\ Credentials \in SUBSET Local
    BY DEF Results, Outcomes
<1>6. "done" # "failed"
    OBVIOUS
<1> QED BY <1>2, <1>3, <1>4, <1>5, <1>6, Returns

LEMMA RefuseKeeps == ClientInv /\ Refuse => ClientInv'
<1> SUFFICES ASSUME ClientInv, Refuse PROVE ClientInv'
    OBVIOUS
<1>1. pc \in {"refuse", "judge"} /\ OwnInv
    BY DEF Refuse, At, ClientInv
<1>2. Loses(Credentials)
    BY <1>1 DEF Loses, Held, OwnInv, TokenInv, CodeInv, HtmlInv, JumpInv, AuthtokenInv, GotoInv,
       AuthsidInv, ListInv, MsgInv, Before, Verifies
<1>3. "FAIL" \in Results /\ Credentials \in SUBSET Local
    BY DEF Results
<1> QED BY <1>2, <1>3, Fails DEF Refuse

-----------------------------------------------------------------------------
(***************************************************************************)
(* The steps of a verification.                                            *)
(***************************************************************************)
\* A verification that fails frees what it has, but for the list.
LEMMA VerifyFails ==
    ASSUME ClientInv, pc \in Verifies, NEW free \in SUBSET Local, Verifying \subseteq free,
           "msg" \in free \/ pc \in {"verify", "pick", "send", "check"},
           NEW all \in SUBSET (Results \ {"OK"}), \E res \in all : FailWith(res, free)
    PROVE  ClientInv'
<1>1. OwnInv
    BY DEF ClientInv
<1>2. Loses(free)
    BY <1>1 DEF Loses, Held, OwnInv, TokenInv, CodeInv, HtmlInv, JumpInv, AuthtokenInv, GotoInv,
       AuthsidInv, ListInv, MsgInv, Before, Verifies
<1> QED BY <1>2, FailsSo

\* A verification that goes on
LEMMA VerifyMoves ==
    ASSUME ClientInv, pc \in Verifies \union {"judge"},
           NEW l \in Verifies \union {"thaw"}, Goto(l), Keep, UNCHANGED <<errmsg, cookie>>,
           NEW free \in SUBSET Slot, NEW new, DOMAIN new \subseteq Slot,
           \A n \in DOMAIN new : new[n] \in Pointer, Strings(free, new),
           \A n \in DOMAIN new : ~Held(n),
           OwnInv'
    PROVE  ClientInv'
<1>1. Handle /\ AskedInv /\ l \in LoginPc \ {"idle"} /\ pc' = l
    BY DEF ClientInv, Verifies, LoginPc, Goto
<1>2. AskedInv' /\ AcceptInv'
    BY <1>1 DEF AskedInv, AcceptInv, Keep, Before, Verifies
<1> QED BY <1>1, <1>2, Moves DEF Handle, Keep

LEMMA VerifyKeeps == ClientInv /\ Verify => ClientInv'
<1> SUFFICES ASSUME ClientInv, Verify PROVE ClientInv'
    OBVIOUS
<1>1. pc = "judge" /\ Handle /\ OwnInv
    BY DEF Verify, At, ClientInv
<1> DEFINE new(a, g) == [n \in {"authtoken", "gotourl"} |-> IF n = "authtoken" THEN a ELSE g]
<1>2. PICK a, g \in {"null", "live"} : Strings({}, new(a, g))
    BY DEF Verify
<1>3. /\ DOMAIN new(a, g) = {"authtoken", "gotourl"}
      /\ new(a, g)["authtoken"] = a /\ new(a, g)["gotourl"] = g
      /\ a \in Pointer /\ g \in Pointer
    BY DEF Pointer
<1> HIDE DEF new
<1>4. /\ ptr'["authtoken"] = a /\ ptr'["gotourl"] = g
      /\ \A n \in Local \ {"authtoken", "gotourl"} : ptr'[n] = ptr[n]
    BY <1>1, <1>2, <1>3, StringsFields
<1>5. Goto("verify") /\ pc' = "verify" /\ Keep /\ UNCHANGED <<errmsg, cookie>>
    BY DEF Verify, Goto
<1>6. OwnInv'
    BY <1>1, <1>4, <1>5 DEF OwnInv, TokenInv, CodeInv, HtmlInv, JumpInv, AuthtokenInv, GotoInv,
       AuthsidInv, ListInv, MsgInv, Before, Verifies
<1>7. \A n \in DOMAIN new(a, g) : ~Held(n) /\ new(a, g)[n] \in Pointer
    BY <1>1, <1>3 DEF Held, OwnInv, TokenInv, CodeInv, HtmlInv, JumpInv, AuthtokenInv, GotoInv,
       AuthsidInv, ListInv, MsgInv, Before, Verifies
<1>8. "verify" \in Verifies
    BY DEF Verifies
<1> QED BY <1>1, <1>2, <1>3, <1>5, <1>6, <1>7, <1>8, VerifyMoves

LEMMA GetVerifyApiKeeps == ClientInv /\ GetVerifyApi => ClientInv'
<1> SUFFICES ASSUME ClientInv, GetVerifyApi PROVE ClientInv'
    OBVIOUS
<1>1. pc = "verify" /\ pc \in Verifies /\ Handle /\ OwnInv
    BY DEF GetVerifyApi, At, ClientInv, Verifies
<1>2. CASE \E res \in BadReply : FailWith(res, Verifying)
    <2>1. BadReply \in SUBSET (Results \ {"OK"}) /\ Verifying \in SUBSET Local
        BY DEF BadReply, Results
    <2> HIDE DEF Verifying
    <2> QED BY <1>1, <1>2, <2>1, VerifyFails
<1> DEFINE new(l, t) == [n \in {"verify_api_list", "msg"} |-> IF n = "msg" THEN t ELSE l]
<1>3. ASSUME NEW v \in {"null", "live"}, NEW t \in {"null", "live"}, Strings({}, new(v, t)),
             NEW l \in {"noapi", "api"}, Goto(l), Keep, UNCHANGED <<errmsg, cookie>>
      PROVE  ClientInv'
    <2>1. /\ DOMAIN new(v, t) = {"verify_api_list", "msg"}
          /\ new(v, t)["verify_api_list"] = v /\ new(v, t)["msg"] = t
          /\ v \in Pointer /\ t \in Pointer
        BY DEF Pointer
    <2> HIDE DEF new
    <2>2. /\ ptr'["verify_api_list"] = v /\ ptr'["msg"] = t
          /\ \A n \in Local \ {"verify_api_list", "msg"} : ptr'[n] = ptr[n]
        BY <1>1, <1>3, <2>1, StringsFields
    <2>3. pc' = l /\ l \in Verifies
        BY <1>3 DEF Goto, Verifies
    <2>4. OwnInv'
        BY <1>1, <2>2, <2>3 DEF OwnInv, TokenInv, CodeInv, HtmlInv, JumpInv, AuthtokenInv, GotoInv,
       AuthsidInv, ListInv, MsgInv, Before, Verifies
    <2>5. \A n \in DOMAIN new(v, t) : ~Held(n) /\ new(v, t)[n] \in Pointer
        BY <1>1, <2>1 DEF Held, OwnInv, TokenInv, CodeInv, HtmlInv, JumpInv, AuthtokenInv, GotoInv,
       AuthsidInv, ListInv, MsgInv, Before, Verifies
    <2> QED BY <1>1, <1>3, <2>1, <2>3, <2>4, <2>5, VerifyMoves
<1>4. CASE /\ \E l, t \in {"null", "live"} : Strings({}, new(l, t))
           /\ \E l \in {"noapi", "api"} : Goto(l)
           /\ Keep /\ UNCHANGED <<errmsg, cookie>>
    <2>1. PICK v, t \in {"null", "live"} : Strings({}, new(v, t))
        BY <1>4
    <2>2. PICK l \in {"noapi", "api"} : Goto(l)
        BY <1>4
    <2> HIDE DEF new
    <2> QED BY <1>3, <1>4, <2>1, <2>2
<1> QED BY <1>2, <1>4 DEF GetVerifyApi

LEMMA NoVerifyApiKeeps == ClientInv /\ NoVerifyApi => ClientInv'
<1> SUFFICES ASSUME ClientInv, NoVerifyApi PROVE ClientInv'
    OBVIOUS
<1>1. pc \in Verifies /\ FailWith("FAIL", Verifying \union {"msg"})
    BY DEF NoVerifyApi, At, Verifies
<1>2. {"FAIL"} \in SUBSET (Results \ {"OK"}) /\ Verifying \union {"msg"} \in SUBSET Local
    BY DEF Results
<1>3. \E res \in {"FAIL"} : FailWith(res, Verifying \union {"msg"})
    BY <1>1
<1> HIDE DEF Verifying, Local
<1> QED BY <1>1, <1>2, <1>3, VerifyFails

LEMMA VerifyApiKeeps == ClientInv /\ VerifyApi => ClientInv'
<1> SUFFICES ASSUME ClientInv, VerifyApi PROVE ClientInv'
    OBVIOUS
<1>1. pc = "api" /\ pc \in Verifies /\ Handle /\ OwnInv
    BY DEF VerifyApi, At, ClientInv, Verifies
<1>2. CASE ptr["verify_api_list"] = "null"
    <2>1. \E res \in {"FAIL"} : FailWith(res, Verifying \union {"msg"})
        BY <1>2 DEF VerifyApi
    <2>2. {"FAIL"} \in SUBSET (Results \ {"OK"}) /\ Verifying \union {"msg"} \in SUBSET Local
        BY DEF Results
    <2> HIDE DEF Verifying, Local
    <2> QED BY <1>1, <2>1, <2>2, VerifyFails
<1>3. CASE ptr["verify_api_list"] # "null"
    <2>1. /\ Strings({"msg"}, Nulls({})) /\ Goto("pick") /\ Keep /\ UNCHANGED <<errmsg, cookie>>
          /\ DOMAIN Nulls({}) = {} /\ pc' = "pick" /\ "pick" \in Verifies
        BY <1>3 DEF VerifyApi, Nulls, Goto, Verifies
    <2>2. /\ ptr'["msg"] \in {"null", "freed"}
          /\ \A n \in Local \ {"msg"} : ptr'[n] = ptr[n]
        BY <1>1, <2>1, StringsFields DEF OwnInv, MsgInv, Freed, Held
    <2>3. OwnInv'
        BY <1>1, <1>3, <2>1, <2>2 DEF OwnInv, TokenInv, CodeInv, HtmlInv, JumpInv, AuthtokenInv, GotoInv,
       AuthsidInv, ListInv, MsgInv, Before, Verifies
    <2> QED BY <1>1, <2>1, <2>3, VerifyMoves
<1> QED BY <1>2, <1>3

LEMMA PickKeeps == ClientInv /\ Pick => ClientInv'
<1> SUFFICES ASSUME ClientInv, Pick PROVE ClientInv'
    OBVIOUS
<1>1. pc = "pick" /\ pc \in Verifies /\ Handle /\ OwnInv /\ AskedInv /\ LoginFreesAll
    BY DEF Pick, At, ClientInv, Verifies, Told
<1>2. CASE \E res \in InputFails : FailWith(res, Verifying \union {"verify_api_list"})
    <2>1. InputFails \in SUBSET (Results \ {"OK"})
          /\ Verifying \union {"verify_api_list"} \in SUBSET Local
        BY DEF InputFails, Results
    <2> HIDE DEF Verifying, Local
    <2> QED BY <1>1, <1>2, <2>1, VerifyFails
<1>3. CASE Goto("send") /\ Keep /\ UNCHANGED <<memory, errmsg, cookie>>
    <2>1. pc' = "send" /\ ptr' = ptr /\ bad' = bad /\ lost' = lost
        BY <1>3 DEF Goto, memory
    <2>2. OwnInv'
        BY <1>1, <2>1 DEF OwnInv, TokenInv, CodeInv, HtmlInv, JumpInv, AuthtokenInv, GotoInv,
       AuthsidInv, ListInv, MsgInv, Before, Verifies
    <2>3. AskedInv' /\ AcceptInv' /\ "send" \in LoginPc \ {"idle"}
        BY <1>1, <1>3, <2>1 DEF AskedInv, AcceptInv, Keep, Before, LoginPc
    <2> QED BY <1>1, <1>3, <2>1, <2>2, <2>3, GoesOn DEF Handle, Keep, LoginFreesAll
<1> QED BY <1>2, <1>3 DEF Pick

LEMMA SendCodeKeeps == ClientInv /\ SendCode => ClientInv'
<1> SUFFICES ASSUME ClientInv, SendCode PROVE ClientInv'
    OBVIOUS
<1>1. pc = "send" /\ pc \in Verifies /\ Handle /\ OwnInv
    BY DEF SendCode, At, ClientInv, Verifies
<1>2. CASE \E res \in BadReply : FailWith(res, Verifying \union {"verify_api_list"})
    <2>1. BadReply \in SUBSET (Results \ {"OK"})
          /\ Verifying \union {"verify_api_list"} \in SUBSET Local
        BY DEF BadReply, Results
    <2> HIDE DEF Verifying, Local
    <2> QED BY <1>1, <1>2, <2>1, VerifyFails
<1>3. CASE /\ \E t \in {"null", "live"} : Strings({}, Set("msg", t))
           /\ \E l \in {"nosuccess", "sent"} : Goto(l)
           /\ Keep /\ UNCHANGED <<errmsg, cookie>>
    <2>1. PICK t \in {"null", "live"} : Strings({}, Set("msg", t))
        BY <1>3
    <2>2. PICK l \in {"nosuccess", "sent"} : Goto(l)
        BY <1>3
    <2>3. DOMAIN Set("msg", t) = {"msg"} /\ Set("msg", t)["msg"] = t /\ t \in Pointer
        BY DEF Set, Pointer
    <2>4. ptr'["msg"] = t /\ \A n \in Local \ {"msg"} : ptr'[n] = ptr[n]
        BY <1>1, <2>1, <2>3, StringsFields
    <2>5. pc' = l /\ l \in Verifies
        BY <2>2 DEF Goto, Verifies
    <2>6. OwnInv'
        BY <1>1, <2>4, <2>5 DEF OwnInv, TokenInv, CodeInv, HtmlInv, JumpInv, AuthtokenInv, GotoInv,
       AuthsidInv, ListInv, MsgInv, Before, Verifies
    <2>7. \A n \in DOMAIN Set("msg", t) : ~Held(n) /\ Set("msg", t)[n] \in Pointer
        BY <1>1, <2>3 DEF OwnInv, MsgInv, Held
    <2> QED BY <1>1, <1>3, <2>1, <2>2, <2>3, <2>5, <2>6, <2>7, VerifyMoves
<1> QED BY <1>2, <1>3 DEF SendCode

LEMMA NoSuccessKeeps == ClientInv /\ NoSuccess => ClientInv'
<1> SUFFICES ASSUME ClientInv, NoSuccess PROVE ClientInv'
    OBVIOUS
<1>1. pc \in Verifies /\ FailWith("FAIL", Verifying \union {"verify_api_list", "msg"})
    BY DEF NoSuccess, At, Verifies
<1>2. {"FAIL"} \in SUBSET (Results \ {"OK"})
      /\ Verifying \union {"verify_api_list", "msg"} \in SUBSET Local
    BY DEF Results
<1>3. \E res \in {"FAIL"} : FailWith(res, Verifying \union {"verify_api_list", "msg"})
    BY <1>1
<1> HIDE DEF Verifying, Local
<1> QED BY <1>1, <1>2, <1>3, VerifyFails

LEMMA AskCodeKeeps == ClientInv /\ AskCode => ClientInv'
<1> SUFFICES ASSUME ClientInv, AskCode PROVE ClientInv'
    OBVIOUS
<1>1. pc = "sent" /\ pc \in Verifies /\ Handle /\ OwnInv
    BY DEF AskCode, At, ClientInv, Verifies
<1>2. CASE \E res \in InputFails :
              FailWith(res, Verifying \union {"verify_api_list", "msg"})
    <2>1. InputFails \in SUBSET (Results \ {"OK"})
          /\ Verifying \union {"verify_api_list", "msg"} \in SUBSET Local
        BY DEF InputFails, Results
    <2> HIDE DEF Verifying, Local
    <2> QED BY <1>1, <1>2, <2>1, VerifyFails
<1>3. CASE /\ Strings({"msg"}, Nulls({}))
           /\ Goto("check") /\ Keep /\ UNCHANGED <<errmsg, cookie>>
    <2>1. DOMAIN Nulls({}) = {} /\ pc' = "check" /\ "check" \in Verifies
        BY <1>3 DEF Nulls, Goto, Verifies
    <2>2. /\ ptr'["msg"] \in {"null", "freed"}
          /\ \A n \in Local \ {"msg"} : ptr'[n] = ptr[n]
        BY <1>1, <1>3, <2>1, StringsFields DEF OwnInv, MsgInv, Freed, Held
    <2>3. OwnInv'
        BY <1>1, <2>1, <2>2 DEF OwnInv, TokenInv, CodeInv, HtmlInv, JumpInv, AuthtokenInv, GotoInv,
       AuthsidInv, ListInv, MsgInv, Before, Verifies
    <2> QED BY <1>1, <1>3, <2>1, <2>3, VerifyMoves
<1> QED BY <1>2, <1>3 DEF AskCode

LEMMA CheckCodeKeeps == ClientInv /\ CheckCode => ClientInv'
<1> SUFFICES ASSUME ClientInv, CheckCode PROVE ClientInv'
    OBVIOUS
<1>1. pc = "check" /\ pc \in Verifies /\ Handle /\ OwnInv
    BY DEF CheckCode, At, ClientInv, Verifies
<1>2. CASE \E res \in BadReply : FailWith(res, Verifying \union {"verify_api_list"})
    <2>1. BadReply \in SUBSET (Results \ {"OK"})
          /\ Verifying \union {"verify_api_list"} \in SUBSET Local
        BY DEF BadReply, Results
    <2> HIDE DEF Verifying, Local
    <2> QED BY <1>1, <1>2, <2>1, VerifyFails
<1> DEFINE new(s, t) == [n \in {"authsid", "msg"} |-> IF n = "msg" THEN t ELSE s]
<1>3. CASE /\ \E s, t \in {"null", "live"} : Strings({}, new(s, t))
           /\ \E l \in {"nosuccess", "checked"} : Goto(l)
           /\ Keep /\ UNCHANGED <<errmsg, cookie>>
    <2>1. PICK s, t \in {"null", "live"} : Strings({}, new(s, t))
        BY <1>3
    <2>2. PICK l \in {"nosuccess", "checked"} : Goto(l)
        BY <1>3
    <2>3. /\ DOMAIN new(s, t) = {"authsid", "msg"}
          /\ new(s, t)["authsid"] = s /\ new(s, t)["msg"] = t
          /\ s \in Pointer /\ t \in Pointer
        BY DEF Pointer
    <2> HIDE DEF new
    <2>4. /\ ptr'["authsid"] = s /\ ptr'["msg"] = t
          /\ \A n \in Local \ {"authsid", "msg"} : ptr'[n] = ptr[n]
        BY <1>1, <2>1, <2>3, StringsFields
    <2>5. pc' = l /\ l \in Verifies
        BY <2>2 DEF Goto, Verifies
    <2>6. OwnInv'
        BY <1>1, <2>2, <2>4, <2>5 DEF OwnInv, TokenInv, CodeInv, HtmlInv, JumpInv, AuthtokenInv, GotoInv,
       AuthsidInv, ListInv, MsgInv, Before, Verifies
    <2>7. \A n \in DOMAIN new(s, t) : ~Held(n) /\ new(s, t)[n] \in Pointer
        BY <1>1, <2>3 DEF Held, OwnInv, TokenInv, CodeInv, HtmlInv, JumpInv, AuthtokenInv, GotoInv,
       AuthsidInv, ListInv, MsgInv, Before, Verifies
    <2> QED BY <1>1, <1>3, <2>1, <2>2, <2>3, <2>5, <2>6, <2>7, VerifyMoves
<1> QED BY <1>2, <1>3 DEF CheckCode

LEMMA CheckedKeeps == ClientInv /\ Checked => ClientInv'
<1> SUFFICES ASSUME ClientInv, Checked PROVE ClientInv'
    OBVIOUS
<1>1. pc = "checked" /\ pc \in Verifies /\ Handle /\ OwnInv
    BY DEF Checked, At, ClientInv, Verifies
<1>2. /\ Strings({"msg", "verify_api_list", "authtoken"}, Nulls({})) /\ DOMAIN Nulls({}) = {}
      /\ Goto("thaw") /\ pc' = "thaw" /\ Keep /\ UNCHANGED <<errmsg, cookie>>
    BY DEF Checked, Nulls, Goto
<1>3. \A n \in Slot : ptr'[n] = IF n \in {"msg", "verify_api_list", "authtoken"}
                                THEN Freed(n) ELSE ptr[n]
    BY <1>1, <1>2, StringsFields
<1>4. /\ ptr'["msg"] \in {"null", "freed"} /\ ptr'["verify_api_list"] = "freed"
      /\ ptr'["authtoken"] \in {"null", "freed"}
      /\ \A n \in Local \ {"msg", "verify_api_list", "authtoken"} : ptr'[n] = ptr[n]
    BY <1>1, <1>3 DEF Freed, Held, OwnInv, MsgInv, ListInv, AuthtokenInv, Verifies
<1>5. OwnInv'
    BY <1>1, <1>2, <1>4 DEF OwnInv, TokenInv, CodeInv, HtmlInv, JumpInv, AuthtokenInv, GotoInv,
       AuthsidInv, ListInv, MsgInv, Before, Verifies
<1> QED BY <1>1, <1>2, <1>5, VerifyMoves

LEMMA ThawKeeps == ClientInv /\ Thaw => ClientInv'
<1> SUFFICES ASSUME ClientInv, Thaw PROVE ClientInv'
    OBVIOUS
<1>1. pc = "thaw" /\ Handle /\ OwnInv
    BY DEF Thaw, At, ClientInv
<1>2. CASE \E res \in BadReply \union {"FAIL"} :
              FailWith(res, Credentials \union {"gotourl", "authsid"})
    <2>1. Loses(Credentials \union {"gotourl", "authsid"})
        BY <1>1 DEF Loses, Held, OwnInv, TokenInv, CodeInv, HtmlInv, JumpInv, AuthtokenInv, GotoInv,
       AuthsidInv, ListInv, MsgInv, Before, Verifies
    <2>2. BadReply \union {"FAIL"} \in SUBSET (Results \ {"OK"})
          /\ Credentials \union {"gotourl", "authsid"} \in SUBSET Local
        BY DEF BadReply, Results
    <2> QED BY <1>2, <2>1, <2>2, FailsSo
<1>3. CASE /\ Strings({"gotourl", "authsid", "code_string"},
                     Nulls(Secrets \union {"verify_api_list", "msg", "code_string"}))
           /\ retry_times' = 0 /\ asked' = 0
           /\ Goto("dologin") /\ UNCHANGED <<error, errmsg, cookie>>
    <2> DEFINE all == Secrets \union {"verify_api_list", "msg", "code_string"}
    <2>1. /\ DOMAIN Nulls(all) = all /\ \A n \in all : Nulls(all)[n] = "null"
          /\ "null" \in Pointer
        BY DEF Nulls, Pointer
    <2>2. /\ \A n \in all : ptr'[n] = "null"
          /\ \A n \in Local \ all : ptr'[n] = ptr[n]
        BY <1>1, <1>3, <2>1, StringsFields
    <2>3. pc' = "dologin"
        BY <1>3 DEF Goto
    <2>4. OwnInv'
        BY <1>1, <2>2, <2>3 DEF OwnInv, TokenInv, CodeInv, HtmlInv, JumpInv, AuthtokenInv, GotoInv,
       AuthsidInv, ListInv, MsgInv, Before, Verifies
    <2>5. AskedInv' /\ AcceptInv'
        BY <1>3, <2>3 DEF AskedInv, AcceptInv, Before
    <2>6. \A n \in all : Held(n) => n \in {"gotourl", "authsid", "code_string"}
        BY <1>1 DEF Held, OwnInv, AuthtokenInv, ListInv, MsgInv, Verifies
    <2>7. /\ errmsg' \in 0 .. 1 /\ cookie' \in 0 .. 1 /\ error' \in Errors \union {"none"}
          /\ "dologin" \in LoginPc \ {"idle"} /\ retry_times' \in 0 .. 3 /\ asked' \in 0 .. 4
        BY <1>1, <1>3 DEF Handle, LoginPc
    <2> QED BY <1>3, <2>1, <2>4, <2>5, <2>6, <2>7, Moves
<1> QED BY <1>2, <1>3 DEF Thaw

LEMMA LoginStepKeeps == ClientInv /\ LoginStep => ClientInv'
BY HomeKeeps, GetApiKeeps, PreloginFailsKeeps, LoginCheckKeeps, DoLoginKeeps, JumpKeeps,
   JumpedKeeps, CaptchaKeeps, ConfirmKeeps, AcceptKeeps, RefuseKeeps, VerifyKeeps,
   GetVerifyApiKeeps, NoVerifyApiKeeps, VerifyApiKeeps, PickKeeps, SendCodeKeeps,
   NoSuccessKeeps, AskCodeKeeps, CheckCodeKeeps, CheckedKeeps, ThawKeeps
   DEF LoginStep

-----------------------------------------------------------------------------
(***************************************************************************)
(* The calls that are one step.                                            *)
(***************************************************************************)
\* What a call may tell: n is 1 when there is a message.
Truth(op, res, said, n) ==
    /\ op \in {"list", "search"} /\ res = "null" => (said = "empty" <=> n = 0)
    /\ op # "superfile" => (said = "failed" => n = 1) /\ (said = "done" => n = 0)

\* A call that leaves the strings of a login alone
LEMMA Ends ==
    ASSUME ClientInv, pc = "idle", UNCHANGED locals, alive' \in 0 .. 1, cookie' \in 0 .. 1,
           ptr' \in [Slot -> Pointer], \A n \in Local : ptr'[n] = ptr[n], bad' \subseteq Slot,
           lost' \subseteq {"verify_api_list"},
           NEW op \in Calls \ {"login"}, NEW res \in Results, NEW said \in Outcomes,
           Answer(op, res, said), errmsg' \in 0 .. 1, Truth(op, res, said, errmsg')
    PROVE  ClientInv'
<1>1. /\ Handle /\ OwnInv /\ AskedInv
      /\ pc' = "idle" /\ retry_times' = retry_times /\ asked' = asked /\ error' = error
      /\ ret' = [op |-> op, res |-> res, said |-> said]
    BY DEF ClientInv, locals, Answer
<1>2. Handle'
    BY <1>1 DEF Handle
<1>3. OwnInv'
    BY <1>1, SameLocals
<1>4. AskedInv' /\ AcceptInv'
    BY <1>1 DEF AskedInv, AcceptInv, Before
<1>5. Told'
    BY <1>1 DEF Told, Explained, LoginConfirmed, LoginFreesAll, Truth
<1> QED BY <1>2, <1>3, <1>4, <1>5 DEF ClientInv

\* A call that has no string of its own
LEMMA CallEnds ==
    ASSUME ClientInv, NEW op \in Calls \ {"login"}, NEW res \in Results, NEW said \in Outcomes,
           Call(op, res, said), errmsg' \in 0 .. 1, Truth(op, res, said, errmsg')
    PROVE  ClientInv'
<1>1. /\ pc = "idle" /\ Handle /\ UNCHANGED locals /\ Answer(op, res, said)
      /\ ptr' = ptr /\ alive' = alive /\ cookie' = cookie /\ bad' = {} /\ lost' = {}
    BY DEF Call, Idle, NewCall, ClientInv
<1>2. /\ ptr' \in [Slot -> Pointer] /\ alive' \in 0 .. 1 /\ cookie' \in 0 .. 1
      /\ bad' \subseteq Slot /\ lost' \subseteq {"verify_api_list"}
      /\ \A n \in Local : ptr'[n] = ptr[n]
    BY <1>1 DEF Handle
<1> QED BY <1>1, <1>2, Ends

LEMMA PlainEnds ==
    ASSUME ClientInv, NEW op \in Calls \ {"login"}, NEW res \in Results, NEW said \in Outcomes,
           NEW n \in 0 .. 1, Plain(op, res, said, n), Truth(op, res, said, n)
    PROVE  ClientInv'
BY CallEnds DEF Plain, Say

LEMMA PanApiKeeps == ClientInv /\ PanApiCall => ClientInv'
<1> SUFFICES ASSUME ClientInv, PanApiCall PROVE ClientInv'
    OBVIOUS
<1> USE DEF Calls, Results, Outcomes, Truth
<1>1. CASE pcs_quota
    BY <1>1, PlainEnds DEF pcs_quota
<1>2. CASE pcs_mkdir
    BY <1>2, PlainEnds DEF pcs_mkdir
<1>3. CASE \E op \in {"list", "search"} : pcs_pan_api_1(op)
    BY <1>3, PlainEnds DEF pcs_pan_api_1
<1>4. CASE pcs_meta
    BY <1>4, PlainEnds DEF pcs_meta
<1>5. CASE \E op \in {"delete", "rename", "move", "copy"} : pcs_pan_api_filemanager(op)
    BY <1>5, PlainEnds DEF pcs_pan_api_filemanager
<1>6. CASE pcs_download
    BY <1>6, PlainEnds DEF pcs_download
<1>7. CASE pcs_cat
    <2> DEFINE new(data) == [n \in {"buffer"} |-> IF data = 1 THEN "live" ELSE "null"]
               result(ok, data) == IF ok = 1 /\ data = 1 THEN "value" ELSE "null"
               told(ok, data) == IF ok = 0 THEN "failed" ELSE IF data = 1 THEN "done" ELSE "empty"
    <2>1. PICK ok \in 0 .. 1, data \in 0 .. 1 :
             /\ Strings({"buffer"}, new(data)) /\ errmsg' = 1 - ok
             /\ Answer("cat", result(ok, data), told(ok, data))
        BY <1>7 DEF pcs_cat, Say
    <2>2. /\ pc = "idle" /\ UNCHANGED locals /\ alive' = alive /\ cookie' = cookie
          /\ Handle /\ LoginFreesAll
        BY <1>7 DEF pcs_cat, Idle, ClientInv, Told
    <2>3. /\ DOMAIN new(data) = {"buffer"} /\ new(data)["buffer"] \in Pointer
        BY DEF Pointer
    <2>4. errmsg' \in 0 .. 1 /\ Truth("cat", result(ok, data), told(ok, data), errmsg')
        BY <2>1
    <2>5. result(ok, data) \in Results /\ told(ok, data) \in Outcomes
        OBVIOUS
    <2> HIDE DEF new, result, told, Truth, Results, Outcomes
    <2>6. /\ ptr' \in [Slot -> Pointer] /\ bad' \subseteq Slot
          /\ \A n \in Local : ptr'[n] = ptr[n]
        BY <2>1, <2>2, <2>3, StringsFields
    <2>7. lost' \subseteq {"verify_api_list"} /\ alive' \in 0 .. 1 /\ cookie' \in 0 .. 1
        BY <2>1, <2>2, <2>3 DEF Strings, LoginFreesAll, Handle
    <2> QED BY <2>1, <2>2, <2>4, <2>5, <2>6, <2>7, Ends
<1>8. CASE pcs_upload
    BY <1>8, PlainEnds DEF pcs_upload
<1>9. CASE pcs_create_superfile
    <2>1. CASE Call("superfile", "null", "failed") /\ Say(1)
        BY <2>1, CallEnds DEF Say
    <2>2. CASE Call("superfile", "value", "done") /\ UNCHANGED errmsg
        BY <2>2, CallEnds DEF ClientInv, Handle
    <2> QED BY <1>9, <2>1, <2>2 DEF pcs_create_superfile
<1>10. CASE pcs_md5_file
    BY <1>10, PlainEnds DEF pcs_md5_file
<1>11. CASE pcs_md5_s
    BY <1>11, PlainEnds DEF pcs_md5_s
<1>12. CASE pcs_rapid_upload
    BY <1>12, PlainEnds DEF pcs_rapid_upload
<1> QED BY <1>1, <1>2, <1>3, <1>4, <1>5, <1>6, <1>7, <1>8, <1>9, <1>10, <1>11, <1>12 DEF PanApiCall

LEMMA CreateKeeps == ClientInv /\ pcs_create => ClientInv'
<1> SUFFICES ASSUME ClientInv, pcs_create PROVE ClientInv'
    OBVIOUS
<1>1. /\ alive' = 1 /\ errmsg' = 0 /\ ret' = [op |-> "create", res |-> "value", said |-> "done"]
      /\ ptr' = ptr /\ bad' = bad /\ lost' = lost /\ cookie' = cookie
      /\ pc' = pc /\ retry_times' = retry_times /\ asked' = asked /\ error' = error
    BY DEF pcs_create, Answer, Say, memory, locals
<1>2. Handle /\ OwnInv /\ AskedInv /\ AcceptInv /\ LoginFreesAll
    BY DEF ClientInv, Told
<1>3. Handle'
    BY <1>1, <1>2 DEF Handle, Calls, Results, Outcomes
<1>4. OwnInv'
    BY <1>1, <1>2, SameLocals
<1>5. AskedInv' /\ AcceptInv'
    BY <1>1, <1>2 DEF AskedInv, AcceptInv
<1>6. Told'
    BY <1>1, <1>2 DEF Told, Explained, LoginConfirmed, LoginFreesAll
<1> QED BY <1>3, <1>4, <1>5, <1>6 DEF ClientInv

LEMMA DestroyKeeps == ClientInv /\ pcs_destroy => ClientInv'
<1> SUFFICES ASSUME ClientInv, pcs_destroy PROVE ClientInv'
    OBVIOUS
<1>1. /\ pc = "idle" /\ UNCHANGED locals /\ alive' = 0 /\ errmsg' = 0
      /\ Answer("destroy", "none", "done") /\ lost' = lost /\ cookie' = cookie
      /\ ptr' = [n \in Slot |-> "null"] /\ bad' = bad \union {n \in Field : ptr[n] = "freed"}
    BY DEF pcs_destroy, Idle, Say, Nulls
<1>2. Handle /\ OwnInv /\ LoginFreesAll
    BY DEF ClientInv, Told
<1>3. \A n \in Local : ptr[n] = "null"
    BY <1>1, <1>2 DEF OwnInv, TokenInv, CodeInv, HtmlInv, JumpInv, AuthtokenInv, GotoInv,
       AuthsidInv, ListInv, MsgInv, Before, Verifies
<1>4. /\ ptr' \in [Slot -> Pointer] /\ \A n \in Local : ptr'[n] = ptr[n]
    BY <1>1, <1>3 DEF Pointer
<1>5. bad' \subseteq Slot /\ lost' \subseteq {"verify_api_list"} /\ cookie' \in 0 .. 1
    BY <1>1, <1>2 DEF Handle, LoginFreesAll
<1>6. Truth("destroy", "none", "done", errmsg')
      /\ "destroy" \in Calls \ {"login"} /\ "none" \in Results /\ "done" \in Outcomes
    BY <1>1 DEF Truth, Calls, Results, Outcomes
<1> QED BY <1>1, <1>4, <1>5, <1>6, Ends

LEMMA CloneKeeps == ClientInv /\ pcs_clone_userinfo => ClientInv'
<1> SUFFICES ASSUME ClientInv, pcs_clone_userinfo PROVE ClientInv'
    OBVIOUS
<1>1. /\ pc = "idle" /\ UNCHANGED <<alive, ptr, lost, errmsg, cookie, locals>>
      /\ Answer("clone", "none", "none") /\ UNCHANGED locals
      /\ bad' = bad \union {n \in Field \ {"buffer"} : ptr[n] = "freed"}
    BY DEF pcs_clone_userinfo, Idle
<1>2. Handle /\ LoginFreesAll
    BY DEF ClientInv, Told
<1>3. /\ alive' \in 0 .. 1 /\ cookie' \in 0 .. 1 /\ errmsg' \in 0 .. 1
      /\ ptr' \in [Slot -> Pointer] /\ \A n \in Local : ptr'[n] = ptr[n]
      /\ bad' \subseteq Slot /\ lost' \subseteq {"verify_api_list"}
    BY <1>1, <1>2 DEF Handle, LoginFreesAll
<1>4. Truth("clone", "none", "none", errmsg')
      /\ "clone" \in Calls \ {"login"} /\ "none" \in Results /\ "none" \in Outcomes
    BY DEF Truth, Calls, Results, Outcomes
<1> QED BY <1>1, <1>3, <1>4, Ends

LEMMA SetoptKeeps == ClientInv /\ pcs_setopt => ClientInv'
<1> SUFFICES ASSUME ClientInv, pcs_setopt PROVE ClientInv'
    OBVIOUS
<1>1. pc = "idle" /\ UNCHANGED locals /\ alive' \in 0 .. 1 /\ cookie' \in 0 .. 1
      /\ Handle /\ LoginFreesAll
    BY DEF pcs_setopt, Idle, ClientInv, Told, Handle
<1>2. "setopt" \in Calls \ {"login"} /\ "OK" \in Results /\ "none" \in Outcomes
      /\ "UNKNOWN_OPT" \in Results /\ "failed" \in Outcomes
    BY DEF Calls, Results, Outcomes
<1>3. CASE /\ Strings({"account"}, [n \in {"account"} |-> "live"])
           /\ Answer("setopt", "OK", "none") /\ UNCHANGED errmsg
    <2> DEFINE new == [n \in {"account"} |-> "live"]
    <2>1. DOMAIN new = {"account"} /\ \A n \in DOMAIN new : new[n] \in Pointer
        BY DEF Pointer
    <2>2. Strings({"account"}, new)
        BY <1>3
    <2> HIDE DEF new
    <2>3. /\ ptr' \in [Slot -> Pointer] /\ bad' \subseteq Slot
          /\ \A n \in Local : ptr'[n] = ptr[n]
        BY <1>1, <2>1, <2>2, StringsFields
    <2>4. lost' \subseteq {"verify_api_list"} /\ errmsg' \in 0 .. 1
        BY <1>1, <1>3, <2>1, <2>2 DEF Strings, LoginFreesAll, Handle
    <2>5. Truth("setopt", "OK", "none", errmsg')
        BY DEF Truth
    <2> QED BY <1>1, <1>2, <1>3, <2>3, <2>4, <2>5, Ends
<1>4. CASE /\ Say(1) /\ Answer("setopt", "UNKNOWN_OPT", "failed")
           /\ UNCHANGED memory
    <2>1. /\ errmsg' = 1 /\ ptr' \in [Slot -> Pointer] /\ bad' \subseteq Slot
          /\ \A n \in Local : ptr'[n] = ptr[n]
          /\ lost' \subseteq {"verify_api_list"}
        BY <1>1, <1>4 DEF memory, Say, LoginFreesAll, Handle
    <2>2. Truth("setopt", "UNKNOWN_OPT", "failed", errmsg') /\ errmsg' \in 0 .. 1
        BY <2>1 DEF Truth
    <2> QED BY <1>1, <1>2, <1>4, <2>1, <2>2, Ends
<1> QED BY <1>3, <1>4 DEF pcs_setopt

LEMMA IsLoginKeeps == ClientInv /\ pcs_islogin => ClientInv'
<1> SUFFICES ASSUME ClientInv, pcs_islogin PROVE ClientInv'
    OBVIOUS
<1>1. pc = "idle" /\ UNCHANGED locals /\ alive' \in 0 .. 1 /\ cookie' \in 0 .. 1
      /\ Handle /\ LoginFreesAll
    BY DEF pcs_islogin, Idle, ClientInv, Told, Handle
<1> DEFINE told(res) == IF res = "NETWORK_ERROR" THEN "failed" ELSE "done"
<1>2. PICK res \in {"NETWORK_ERROR", "NOT_LOGIN", "LOGIN"} :
         IsLogin(res) /\ Answer("islogin", res, told(res))
    BY DEF pcs_islogin
<1>3. /\ ptr' \in [Slot -> Pointer] /\ bad' \subseteq Slot
      /\ \A n \in Local : ptr'[n] = ptr[n]
      /\ lost' = lost
      /\ errmsg' = IF res = "NETWORK_ERROR" THEN 1 ELSE 0
    BY <1>1, <1>2, Looks
<1>4. /\ errmsg' \in 0 .. 1 /\ lost' \subseteq {"verify_api_list"}
      /\ Truth("islogin", res, told(res), errmsg')
    BY <1>1, <1>3 DEF LoginFreesAll, Truth
<1>5. "islogin" \in Calls \ {"login"} /\ res \in Results /\ told(res) \in Outcomes
    BY DEF Calls, Results, Outcomes
<1> HIDE DEF told
<1> QED BY <1>1, <1>2, <1>3, <1>4, <1>5, Ends

LEMMA LogoutKeeps == ClientInv /\ pcs_logout => ClientInv'
<1> SUFFICES ASSUME ClientInv, pcs_logout PROVE ClientInv'
    OBVIOUS
<1>1. pc = "idle" /\ UNCHANGED locals /\ alive' \in 0 .. 1 /\ Handle /\ LoginFreesAll
    BY DEF pcs_logout, Idle, ClientInv, Told, Handle
<1>2. "logout" \in Calls \ {"login"} /\ "OK" \in Results /\ "done" \in Outcomes
      /\ "FAIL" \in Results /\ "failed" \in Outcomes
    BY DEF Calls, Results, Outcomes
<1> DEFINE own == Field \ {"buffer"}
<1>3. CASE /\ cookie' = 0 /\ Say(0) /\ Strings(own, Nulls(own))
           /\ Answer("logout", "OK", "done")
    <2>1. /\ DOMAIN Nulls(own) = own /\ \A n \in own : Nulls(own)[n] = "null"
          /\ "null" \in Pointer
        BY DEF Nulls, Pointer
    <2>2. /\ ptr' \in [Slot -> Pointer] /\ bad' \subseteq Slot
          /\ \A n \in Local : ptr'[n] = ptr[n]
        BY <1>1, <1>3, <2>1, StringsFields
    <2>3. lost' \subseteq {"verify_api_list"} /\ errmsg' = 0 /\ cookie' \in 0 .. 1
        <3>1. DOMAIN Nulls(own) \intersect Local = {}
            BY <2>1
        <3>2. lost' = lost
            BY <1>3, <3>1 DEF Strings
        <3> QED BY <1>1, <1>3, <3>2 DEF LoginFreesAll, Say
    <2>4. Truth("logout", "OK", "done", errmsg') /\ errmsg' \in 0 .. 1
        BY <2>3 DEF Truth
    <2> QED BY <1>1, <1>2, <1>3, <2>2, <2>3, <2>4, Ends
<1>4. CASE /\ Say(1) /\ UNCHANGED <<cookie, memory>>
           /\ Answer("logout", "FAIL", "failed")
    <2>1. /\ errmsg' = 1 /\ ptr' \in [Slot -> Pointer] /\ bad' \subseteq Slot
          /\ \A n \in Local : ptr'[n] = ptr[n]
          /\ lost' \subseteq {"verify_api_list"} /\ cookie' \in 0 .. 1
        BY <1>1, <1>4 DEF memory, Say, LoginFreesAll, Handle
    <2>2. Truth("logout", "FAIL", "failed", errmsg') /\ errmsg' \in 0 .. 1
        BY <2>1 DEF Truth
    <2> QED BY <1>1, <1>2, <1>4, <2>1, <2>2, Ends
<1> QED BY <1>3, <1>4 DEF pcs_logout

LEMMA LoginKeeps == ClientInv /\ pcs_login => ClientInv'
<1> SUFFICES ASSUME ClientInv, pcs_login PROVE ClientInv'
    OBVIOUS
<1>1. /\ pc = "idle" /\ pc' = "home" /\ errmsg' = 0 /\ lost' = {} /\ bad' = {}
      /\ ptr' = ptr /\ alive' = alive /\ cookie' = cookie
      /\ retry_times' = retry_times /\ asked' = asked /\ error' = error
      /\ ret' = [op |-> "login", res |-> "none", said |-> "none"]
      /\ Handle /\ OwnInv /\ AskedInv
    BY DEF pcs_login, Idle, Say, Answer, Keep, NewCall, ClientInv
<1>2. Handle'
    BY <1>1 DEF Handle, LoginPc, Calls, Results, Outcomes
<1>3. OwnInv'
    BY <1>1 DEF OwnInv, TokenInv, CodeInv, HtmlInv, JumpInv, AuthtokenInv, GotoInv,
       AuthsidInv, ListInv, MsgInv, Before, Verifies
<1>4. AskedInv' /\ AcceptInv' /\ Told'
    BY <1>1 DEF AskedInv, AcceptInv, Before, Told, Explained, LoginConfirmed, LoginFreesAll, Idle
<1> QED BY <1>1, <1>2, <1>3, <1>4 DEF ClientInv

LEMMA ExpireKeeps == ClientInv /\ Expire => ClientInv'
<1> SUFFICES ASSUME ClientInv, Expire PROVE ClientInv'
    OBVIOUS
<1>1. /\ cookie' = 0 /\ UNCHANGED <<alive, errmsg, ret>> /\ UNCHANGED <<ptr, lost, bad>>
      /\ UNCHANGED <<pc, retry_times, error, asked>>
    BY DEF Expire, memory, locals
<1>2. Handle' /\ OwnInv'
    BY <1>1, SameLocals DEF ClientInv, Handle
<1>3. AskedInv' /\ AcceptInv' /\ Told'
    BY <1>1 DEF ClientInv, AskedInv, AcceptInv, Told, Explained, LoginConfirmed, LoginFreesAll, Idle
<1> QED BY <1>2, <1>3 DEF ClientInv

\* A call that never returns leaves everything as it is.
LEMMA StopKeeps == ClientInv /\ (SearchHangs \/ JumpCrashes) => ClientInv'
<1> SUFFICES ASSUME ClientInv, NEW l \in Stopped, StopsAt(l) PROVE ClientInv'
    BY DEF SearchHangs, JumpCrashes
<1>1. /\ pc' = l /\ UNCHANGED <<alive, ret>> /\ UNCHANGED <<ptr, lost, bad>>
      /\ UNCHANGED <<retry_times, error, asked>> /\ UNCHANGED <<errmsg, cookie>>
    BY DEF StopsAt, Goto, Keep, memory
<1>2. l \in LoginPc /\ l \notin Before \union {"prefail", "logincheck", "accept"}
    BY DEF LoginPc, Before
<1>3. Handle' /\ OwnInv'
    BY <1>1, <1>2 DEF ClientInv, Handle, OwnInv
<1>4. AskedInv' /\ AcceptInv' /\ Told'
    BY <1>1, <1>2 DEF ClientInv, AskedInv, AcceptInv, Told, Explained, LoginConfirmed,
       LoginFreesAll, Idle
<1> QED BY <1>3, <1>4 DEF ClientInv

-----------------------------------------------------------------------------
LEMMA ClientInit == Init => ClientInv
<1> SUFFICES ASSUME Init PROVE ClientInv
    OBVIOUS
<1>1. ptr = [n \in Slot |-> "null"] /\ pc = "idle" /\ retry_times = 0 /\ asked = 0
      /\ alive = 0 /\ errmsg = 0 /\ cookie \in 0 .. 1 /\ lost = {} /\ bad = {}
      /\ error = "none" /\ ret = [op |-> "none", res |-> "none", said |-> "none"]
    BY DEF Init, HandleInit, Nulls
<1>2. Handle
    BY <1>1 DEF Handle, LoginPc, Pointer, Calls, Results, Outcomes
<1>3. \A n \in Local : ptr[n] = "null"
    BY <1>1
<1>4. OwnInv
    BY <1>1, <1>3 DEF OwnInv, TokenInv, CodeInv, HtmlInv, JumpInv, AuthtokenInv, GotoInv,
       AuthsidInv, ListInv, MsgInv, Before, Verifies
<1>5. AskedInv /\ AcceptInv /\ Told
    BY <1>1 DEF AskedInv, AcceptInv, Told, Explained, LoginConfirmed, LoginFreesAll, Idle
<1> QED BY <1>2, <1>4, <1>5 DEF ClientInv

LEMMA ClientNext == ClientInv /\ [Next]_hvars => ClientInv'
<1> SUFFICES ASSUME ClientInv, [Next]_hvars PROVE ClientInv'
    OBVIOUS
<1>1. CASE Next
    BY <1>1, CreateKeeps, DestroyKeeps, CloneKeeps, SetoptKeeps, IsLoginKeeps, LogoutKeeps,
       LoginKeeps, LoginStepKeeps, PanApiKeeps, ExpireKeeps, StopKeeps DEF Next
<1>2. CASE UNCHANGED hvars
    <2>1. UNCHANGED <<alive, errmsg, ret, cookie>> /\ UNCHANGED <<ptr, lost, bad>>
          /\ UNCHANGED <<pc, retry_times, error, asked>>
        BY <1>2 DEF hvars, memory, locals
    <2>2. Handle' /\ OwnInv'
        BY <2>1, SameLocals DEF ClientInv, Handle
    <2>3. AskedInv' /\ AcceptInv' /\ Told'
        BY <2>1 DEF ClientInv, AskedInv, AcceptInv, Told, Explained, LoginConfirmed,
           LoginFreesAll, Idle
    <2> QED BY <2>2, <2>3 DEF ClientInv
<1> QED BY <1>1, <1>2

\* At every step of a login, whatever the pages are like, it is known which of
\* its strings are there.
THEOREM ClientInvariant == Spec => []ClientInv
BY ClientInit, ClientNext, PTL DEF Spec

\* The variables have their types.
THEOREM TypeCorrect == Spec => []TypeOK
<1>1. ClientInv => TypeOK
    BY DEF ClientInv, Handle, TypeOK, Told, LoginFreesAll
<1> QED BY <1>1, ClientInvariant, PTL

\* A caller of the library can tell an empty answer from a failure by the
\* message of the handle, and but for pcs_create_superfile every failure from
\* a success, whatever was called before.
THEOREM ExplainedTheorem == Spec => []Explained
<1>1. ClientInv => Explained
    BY DEF ClientInv, Told
<1> QED BY <1>1, ClientInvariant, PTL

\* pcs_login succeeds only with the token of a home page that was read after
\* the passport server had accepted.
THEOREM LoginIsConfirmed == Spec => []LoginConfirmed
<1>1. ClientInv => LoginConfirmed
    BY DEF ClientInv, Told
<1> QED BY <1>1, ClientInvariant, PTL

\* Whichever of its ways out a login takes, nothing but the list of ways to
\* verify is lost.
THEOREM AllFreed == Spec => []LoginFreesAll
<1>1. ClientInv => LoginFreesAll
    BY DEF ClientInv, Told
<1> QED BY <1>1, ClientInvariant, PTL

-----------------------------------------------------------------------------
(***************************************************************************)
(* What is read and freed has not been freed, when each page names its     *)
(* user and the cookie BDUSS is there.                                     *)
(***************************************************************************)
Sure == Faults \intersect {"nouser", "nobduss"} = {}

FieldInv == \A n \in Field : ptr[n] # "freed"
BadInv   == bad \subseteq {"jump_url"}

\* What a step frees was there, or is the address of the page.
Once(free) == \A n \in free : ptr[n] = "freed" => n = "jump_url"

LEMMA StringsOnce ==
    ASSUME Handle, FieldInv, BadInv, NEW free \in SUBSET Slot, Once(free),
           NEW new, DOMAIN new \subseteq Slot, \A n \in DOMAIN new : new[n] \in Pointer,
           \A n \in free \intersect Field : n \in DOMAIN new,
           \A n \in DOMAIN new : new[n] # "freed",
           Strings(free, new)
    PROVE  FieldInv' /\ BadInv'
<1>1. \A n \in Slot : ptr'[n] = IF n \in DOMAIN new THEN new[n]
                                ELSE IF n \in free THEN Freed(n) ELSE ptr[n]
    BY StringsFields
<1>2. FieldInv'
    BY <1>1 DEF FieldInv
<1>3. BadInv'
    BY DEF BadInv, Strings, Once
<1> QED BY <1>2, <1>3

LEMMA ReturnOnce ==
    ASSUME FieldInv, BadInv, NEW free \in SUBSET Local, Once(free), Return(free)
    PROVE  FieldInv' /\ BadInv'
<1>1. FieldInv'
    BY DEF FieldInv, Return
<1>2. BadInv'
    BY DEF BadInv, Return, Once
<1> QED BY <1>1, <1>2

LEMMA FailsOnce ==
    ASSUME FieldInv, BadInv, NEW free \in SUBSET Local, Once(free),
           NEW all, \E res \in all : FailWith(res, free)
    PROVE  FieldInv' /\ BadInv'
BY ReturnOnce DEF FailWith

LEMMA LooksOnce ==
    ASSUME Sure, Handle, FieldInv, BadInv,
           NEW res \in {"NETWORK_ERROR", "NOT_LOGIN", "LOGIN"}, IsLogin(res)
    PROVE  FieldInv' /\ BadInv'
<1>1. CASE UNCHANGED memory
    BY <1>1 DEF memory, FieldInv, BadInv
<1>2. \A free \in SUBSET Field : free \in SUBSET Slot /\ Once(free)
    BY DEF FieldInv, Once
<1>3. CASE Foreign
    <2>1. PICK t \in {"null", "empty"} : Strings({"bdstoken"}, [n \in {"bdstoken"} |-> t])
        BY <1>3 DEF Foreign
    <2> DEFINE new == [n \in {"bdstoken"} |-> t]
    <2>2. DOMAIN new = {"bdstoken"} /\ \A n \in DOMAIN new : new[n] \in Pointer /\ new[n] # "freed"
        BY DEF Pointer
    <2>3. Strings({"bdstoken"}, new) /\ {"bdstoken"} \in SUBSET Slot /\ Once({"bdstoken"})
        BY <1>2, <2>1
    <2> HIDE DEF new
    <2> QED BY <2>2, <2>3, StringsOnce
<1>4. CASE TokenPage
    <2> DEFINE new(duss, uid) == [n \in {"bdstoken", "bduss", "sysUID"} |->
                      CASE n = "bdstoken" -> "live" [] n = "bduss" -> duss
                        [] n = "sysUID" -> uid]
               free == {"bdstoken", "bduss", "sysUID"}
    <2>1. PICK duss \in Cookie, uid \in Found : Strings(free, new(duss, uid))
        BY <1>4 DEF TokenPage
    <2>2. /\ DOMAIN new(duss, uid) = {"bdstoken", "bduss", "sysUID"}
          /\ new(duss, uid)["bdstoken"] = "live" /\ new(duss, uid)["bduss"] = duss
          /\ new(duss, uid)["sysUID"] = uid
        OBVIOUS
    <2>3. duss = "live" /\ uid \in {"null", "empty", "live"}
        BY DEF Sure, Cookie, Found
    <2>4. \A n \in DOMAIN new(duss, uid) : new(duss, uid)[n] \in Pointer
                                           /\ new(duss, uid)[n] # "freed"
        BY <2>2, <2>3 DEF Pointer
    <2>5. free \in SUBSET Slot /\ Once(free)
        BY <1>2
    <2> HIDE DEF new
    <2> QED BY <2>1, <2>2, <2>4, <2>5, StringsOnce
<1>5. CASE ContextPage
    <2> DEFINE set(user) == {"bdstoken", "bduss"} \union (IF user = 1 THEN {"sysUID"} ELSE {})
               new(duss, user) == [n \in set(user) |-> IF n = "bduss" THEN duss ELSE "live"]
               free == {"bdstoken", "bduss", "sysUID"}
    <2>1. PICK duss \in Cookie, user \in {1, IF "nouser" \in Faults THEN 0 ELSE 1} :
             Strings(free, new(duss, user))
        BY <1>5 DEF ContextPage
    <2>2. duss = "live" /\ user = 1
        BY DEF Sure, Cookie
    <2>3. DOMAIN new(duss, user) = free
        BY <2>2
    <2>4. \A n \in DOMAIN new(duss, user) : new(duss, user)[n] \in Pointer
                                            /\ new(duss, user)[n] # "freed"
        BY <2>2 DEF Pointer
    <2>5. free \in SUBSET Slot /\ Once(free)
        BY <1>2
    <2> HIDE DEF new
    <2> QED BY <2>1, <2>3, <2>4, <2>5, StringsOnce
<1> QED BY <1>1, <1>3, <1>4, <1>5 DEF IsLogin, NoPage, Redirected

LEMMA CallOnce ==
    ASSUME FieldInv, NEW op, NEW res, NEW said, Call(op, res, said)
    PROVE  FieldInv' /\ BadInv'
BY DEF FieldInv, BadInv, Call, NewCall

LEMMA PanApiOnce ==
    ASSUME Handle, FieldInv, BadInv, PanApiCall
    PROVE  FieldInv' /\ BadInv'
<1>1. CASE pcs_cat
    <2> DEFINE new(data) == [n \in {"buffer"} |-> IF data = 1 THEN "live" ELSE "null"]
    <2>1. PICK data \in 0 .. 1 : Strings({"buffer"}, new(data))
        BY <1>1 DEF pcs_cat
    <2>2. /\ DOMAIN new(data) = {"buffer"}
          /\ \A n \in DOMAIN new(data) : new(data)[n] \in Pointer /\ new(data)[n] # "freed"
          /\ {"buffer"} \in SUBSET Slot /\ Once({"buffer"})
        BY DEF Pointer, Once, FieldInv
    <2> HIDE DEF new
    <2> QED BY <2>1, <2>2, StringsOnce
<1>3. CASE pcs_quota
    BY <1>3, CallOnce DEF pcs_quota, Plain
<1>4. CASE pcs_mkdir
    BY <1>4, CallOnce DEF pcs_mkdir, Plain
<1>5. CASE \E op \in {"list", "search"} : pcs_pan_api_1(op)
    BY <1>5, CallOnce DEF pcs_pan_api_1, Plain
<1>6. CASE pcs_meta
    BY <1>6, CallOnce DEF pcs_meta, Plain
<1>7. CASE \E op \in {"delete", "rename", "move", "copy"} : pcs_pan_api_filemanager(op)
    BY <1>7, CallOnce DEF pcs_pan_api_filemanager, Plain
<1>8. CASE pcs_download \/ pcs_upload \/ pcs_create_superfile
    BY <1>8, CallOnce DEF pcs_download, pcs_upload, pcs_create_superfile, Plain
<1>9. CASE pcs_md5_file \/ pcs_md5_s \/ pcs_rapid_upload
    BY <1>9, CallOnce DEF pcs_md5_file, pcs_md5_s, pcs_rapid_upload, Plain
<1> QED BY <1>1, <1>3, <1>4, <1>5, <1>6, <1>7, <1>8, <1>9 DEF PanApiCall

\* A step on strings of the login
LEMMA LocalsOnce ==
    ASSUME FieldInv, BadInv, NEW free \in SUBSET Local, Once(free),
           NEW new, DOMAIN new \subseteq Local, Strings(free, new)
    PROVE  FieldInv' /\ BadInv'
<1>1. \A n \in Field : n \notin free /\ n \notin DOMAIN new
    OBVIOUS
<1>2. FieldInv'
    BY <1>1 DEF FieldInv, Strings
<1>3. BadInv'
    BY DEF BadInv, Strings, Once
<1> QED BY <1>2, <1>3

LEMMA SameOnce ==
    ASSUME FieldInv, BadInv, UNCHANGED memory
    PROVE  FieldInv' /\ BadInv'
BY DEF FieldInv, BadInv, memory

LEMMA LoginStepOnce ==
    ASSUME Sure, ClientInv, FieldInv, BadInv, LoginStep
    PROVE  FieldInv' /\ BadInv'
<1>1. Handle /\ OwnInv
    BY DEF ClientInv
<1>2. DOMAIN Nulls({}) \subseteq Local /\ DOMAIN Nulls({"jump_url"}) \subseteq Local
      /\ DOMAIN Nulls(Secrets \union {"verify_api_list", "msg", "code_string"}) \subseteq Local
      /\ \A n \in Local : \A v : DOMAIN Set(n, v) \subseteq Local
    BY DEF Nulls, Set
<1>4. pc \in Verifies => Once(Verifying \union {"verify_api_list"})
    BY <1>1 DEF Once, OwnInv, TokenInv, CodeInv, HtmlInv, JumpInv, AuthtokenInv, GotoInv,
       AuthsidInv, ListInv, MsgInv, Before, Verifies
<1>5. \A free, more : Once(free) /\ more \subseteq free => Once(more)
    BY DEF Once
<1>50. pc \notin Stopped
    BY DEF LoginStep, At, Home, GetApi, PreloginFails, LoginCheck, DoLogin, Jump, Jumped,
       Captcha, Confirm, Accept, Refuse, Verify, GetVerifyApi, NoVerifyApi, VerifyApi, Pick,
       SendCode, NoSuccess, AskCode, CheckCode, Checked, Thaw
<1>6. Once(Names) /\ Once(Credentials) /\ Once(Credentials \union {"jump_url"}) /\ Once({})
    BY <1>1, <1>50 DEF Once, OwnInv, TokenInv, CodeInv, HtmlInv, JumpInv, AuthtokenInv, GotoInv,
       AuthsidInv, ListInv, MsgInv, Before, Verifies
<1>7. CASE Home
    BY <1>6, <1>7, SameOnce, ReturnOnce DEF Home, FailWith
<1>8. CASE GetApi
    <2>1. CASE \E res \in BadReply : FailWith(res, Names)
        BY <1>6, <2>1, FailsOnce
    <2> DEFINE new(c) == [n \in Names |-> IF n = "token" THEN "live" ELSE c]
    <2>2. CASE \E c \in {"null", "empty", "live"} : Strings({}, new(c))
        <3>1. PICK c \in {"null", "empty", "live"} : Strings({}, new(c))
            BY <2>2
        <3>2. DOMAIN new(c) \subseteq Local
            OBVIOUS
        <3> HIDE DEF new
        <3> QED BY <1>6, <3>1, <3>2, LocalsOnce
    <2> QED BY <1>8, <2>1, <2>2 DEF GetApi
<1>9. CASE PreloginFails
    BY <1>6, <1>9, ReturnOnce DEF PreloginFails, FailWith
<1>10. CASE LoginCheck
    <2>1. CASE \E res \in BadReply : FailWith(res, Names)
        BY <1>6, <2>1, FailsOnce
    <2>2. CASE \E c \in {"empty", "live"} : Strings({"code_string"}, Set("code_string", c))
        BY <1>2, <1>5, <1>6, <2>2, LocalsOnce
    <2> QED BY <1>10, <2>1, <2>2 DEF LoginCheck
<1>11. CASE DoLogin
    <2>1. CASE \E res : FailWith(res, Credentials)
        BY <1>6, <2>1, ReturnOnce DEF FailWith
    <2> DEFINE new == [n \in {"html", "jump_url"} |-> "live"]
    <2>2. CASE Strings({"html"}, new)
        <3>1. DOMAIN new \subseteq Local
            OBVIOUS
        <3>2. Once({"html"})
            BY <1>5, <1>6
        <3> HIDE DEF new
        <3> QED BY <2>2, <3>1, <3>2, LocalsOnce
    <2> QED BY <1>11, <2>1, <2>2 DEF DoLogin
<1>12. CASE Jump
    <2>1. Once({"jump_url"})
        BY DEF Once
    <2> QED BY <1>2, <1>12, <2>1, LocalsOnce DEF Jump
<1>13. CASE Jumped
    <2>1. CASE FailWith("NETWORK_ERROR", Credentials \union {"jump_url"})
        BY <1>6, <2>1, ReturnOnce DEF FailWith
    <2>2. CASE Strings({}, Nulls({"jump_url"}))
        BY <1>2, <1>6, <2>2, LocalsOnce
    <2> QED BY <1>13, <2>1, <2>2 DEF Jumped
<1>14. CASE Captcha
    <2>1. PICK v \in {"null", "live"} : Strings({"code_string"}, Set("code_string", v))
        BY <1>14 DEF Captcha
    <2>2. Once({"code_string"})
        BY <1>5, <1>6
    <2> QED BY <1>2, <2>1, <2>2, LocalsOnce
<1>15. CASE Confirm
    BY <1>1, <1>15, LooksOnce DEF Confirm
<1>16. CASE Accept
    BY <1>6, <1>16, ReturnOnce DEF Accept
<1>17. CASE Refuse
    BY <1>6, <1>17, ReturnOnce DEF Refuse, FailWith
<1>18. CASE Verify
    <2> DEFINE new(a, g) == [n \in {"authtoken", "gotourl"} |-> IF n = "authtoken" THEN a ELSE g]
    <2>1. PICK a, g \in {"null", "live"} : Strings({}, new(a, g))
        BY <1>18 DEF Verify
    <2>2. DOMAIN new(a, g) \subseteq Local
        OBVIOUS
    <2> HIDE DEF new
    <2> QED BY <1>6, <2>1, <2>2, LocalsOnce
<1>19. CASE GetVerifyApi
    <2>1. CASE \E res \in BadReply : FailWith(res, Verifying)
        <3>1. Once(Verifying)
            BY <1>4, <1>5, <1>19 DEF GetVerifyApi, At, Verifies
        <3> QED BY <2>1, <3>1, FailsOnce
    <2> DEFINE new(l, t) == [n \in {"verify_api_list", "msg"} |-> IF n = "msg" THEN t ELSE l]
    <2>2. CASE \E l, t \in {"null", "live"} : Strings({}, new(l, t))
        <3>1. PICK l, t \in {"null", "live"} : Strings({}, new(l, t))
            BY <2>2
        <3>2. DOMAIN new(l, t) \subseteq Local
            OBVIOUS
        <3> HIDE DEF new
        <3> QED BY <1>6, <3>1, <3>2, LocalsOnce
    <2> QED BY <1>19, <2>1, <2>2 DEF GetVerifyApi
<1>20. CASE NoVerifyApi
    <2>1. Once(Verifying \union {"msg"})
        BY <1>1, <1>20 DEF NoVerifyApi, At, Once, OwnInv, TokenInv, CodeInv, HtmlInv, JumpInv, AuthtokenInv, GotoInv,
       AuthsidInv, ListInv, MsgInv, Before, Verifies
    <2> QED BY <1>20, <2>1, ReturnOnce DEF NoVerifyApi, FailWith
<1>21. CASE VerifyApi
    <2>1. Once(Verifying \union {"msg"})
        BY <1>1, <1>21 DEF VerifyApi, At, Once, OwnInv, TokenInv, CodeInv, HtmlInv, JumpInv, AuthtokenInv, GotoInv,
       AuthsidInv, ListInv, MsgInv, Before, Verifies
    <2>2. Once({"msg"})
        BY <1>5, <2>1
    <2>3. CASE FailWith("FAIL", Verifying \union {"msg"})
        BY <2>1, <2>3, ReturnOnce DEF FailWith
    <2>4. CASE Strings({"msg"}, Nulls({}))
        BY <1>2, <2>2, <2>4, LocalsOnce
    <2> QED BY <1>21, <2>3, <2>4 DEF VerifyApi
<1>22. CASE Pick
    <2>1. Once(Verifying \union {"verify_api_list"})
        BY <1>4, <1>22 DEF Pick, At, Verifies
    <2>2. CASE \E res \in InputFails : FailWith(res, Verifying \union {"verify_api_list"})
        BY <2>1, <2>2, FailsOnce
    <2>3. CASE UNCHANGED memory
        BY <2>3, SameOnce
    <2> QED BY <1>22, <2>2, <2>3 DEF Pick
<1>23. CASE SendCode
    <2>1. Once(Verifying \union {"verify_api_list"})
        BY <1>4, <1>23 DEF SendCode, At, Verifies
    <2>2. CASE \E res \in BadReply : FailWith(res, Verifying \union {"verify_api_list"})
        BY <2>1, <2>2, FailsOnce
    <2>3. CASE \E t \in {"null", "live"} : Strings({}, Set("msg", t))
        BY <1>2, <1>6, <2>3, LocalsOnce
    <2> QED BY <1>23, <2>2, <2>3 DEF SendCode
<1>24. CASE NoSuccess
    <2>1. Once(Verifying \union {"verify_api_list", "msg"})
        BY <1>1, <1>24 DEF NoSuccess, At, Once, OwnInv, TokenInv, CodeInv, HtmlInv, JumpInv, AuthtokenInv, GotoInv,
       AuthsidInv, ListInv, MsgInv, Before, Verifies
    <2> QED BY <1>24, <2>1, ReturnOnce DEF NoSuccess, FailWith
<1>25. CASE AskCode
    <2>1. Once(Verifying \union {"verify_api_list", "msg"})
        BY <1>1, <1>25 DEF AskCode, At, Once, OwnInv, TokenInv, CodeInv, HtmlInv, JumpInv, AuthtokenInv, GotoInv,
       AuthsidInv, ListInv, MsgInv, Before, Verifies
    <2>2. Once({"msg"})
        BY <1>5, <2>1
    <2>3. CASE \E res \in InputFails :
                  FailWith(res, Verifying \union {"verify_api_list", "msg"})
        BY <2>1, <2>3, FailsOnce
    <2>4. CASE Strings({"msg"}, Nulls({}))
        BY <1>2, <2>2, <2>4, LocalsOnce
    <2> QED BY <1>25, <2>3, <2>4 DEF AskCode
<1>26. CASE CheckCode
    <2>1. Once(Verifying \union {"verify_api_list"})
        BY <1>4, <1>26 DEF CheckCode, At, Verifies
    <2>2. CASE \E res \in BadReply : FailWith(res, Verifying \union {"verify_api_list"})
        BY <2>1, <2>2, FailsOnce
    <2> DEFINE new(s, t) == [n \in {"authsid", "msg"} |-> IF n = "msg" THEN t ELSE s]
    <2>3. CASE \E s, t \in {"null", "live"} : Strings({}, new(s, t))
        <3>1. PICK s, t \in {"null", "live"} : Strings({}, new(s, t))
            BY <2>3
        <3>2. DOMAIN new(s, t) \subseteq Local
            OBVIOUS
        <3> HIDE DEF new
        <3> QED BY <1>6, <3>1, <3>2, LocalsOnce
    <2> QED BY <1>26, <2>2, <2>3 DEF CheckCode
<1>27. CASE Checked
    <2>1. Once({"msg", "verify_api_list", "authtoken"})
        BY <1>1, <1>27 DEF Checked, At, Once, OwnInv, TokenInv, CodeInv, HtmlInv, JumpInv, AuthtokenInv, GotoInv,
       AuthsidInv, ListInv, MsgInv, Before, Verifies
    <2> QED BY <1>2, <1>27, <2>1, LocalsOnce DEF Checked
<1>28. CASE Thaw
    <2>1. Once(Credentials \union {"gotourl", "authsid"})
        BY <1>1, <1>28 DEF Thaw, At, Once, OwnInv, TokenInv, CodeInv, HtmlInv, JumpInv, AuthtokenInv, GotoInv,
       AuthsidInv, ListInv, MsgInv, Before, Verifies
    <2>2. Once({"gotourl", "authsid", "code_string"})
        BY <1>5, <2>1
    <2>3. CASE \E res \in BadReply \union {"FAIL"} :
                  FailWith(res, Credentials \union {"gotourl", "authsid"})
        BY <2>1, <2>3, FailsOnce
    <2>4. CASE Strings({"gotourl", "authsid", "code_string"},
                       Nulls(Secrets \union {"verify_api_list", "msg", "code_string"}))
        BY <1>2, <2>2, <2>4, LocalsOnce
    <2> QED BY <1>28, <2>3, <2>4 DEF Thaw
<1> QED BY <1>7, <1>8, <1>9, <1>10, <1>11, <1>12, <1>13, <1>14, <1>15, <1>16, <1>17, <1>18,
           <1>19, <1>20, <1>21, <1>22, <1>23, <1>24, <1>25, <1>26, <1>27, <1>28 DEF LoginStep

LEMMA NextOnce ==
    ASSUME Sure, ClientInv, FieldInv, BadInv, [Next]_hvars
    PROVE  FieldInv' /\ BadInv'
<1>1. Handle
    BY DEF ClientInv
<1>2. CASE pcs_create \/ Expire \/ SearchHangs \/ JumpCrashes \/ UNCHANGED hvars
    BY <1>2, SameOnce DEF pcs_create, Expire, SearchHangs, JumpCrashes, StopsAt, hvars
<1>3. CASE pcs_destroy
    BY <1>3 DEF pcs_destroy, FieldInv, BadInv, Nulls
<1>4. CASE pcs_clone_userinfo
    BY <1>4 DEF pcs_clone_userinfo, FieldInv, BadInv
<1>5. CASE pcs_setopt
    <2> DEFINE new == [n \in {"account"} |-> "live"]
    <2>1. CASE Strings({"account"}, new)
        <3>1. /\ DOMAIN new = {"account"}
              /\ \A n \in DOMAIN new : new[n] \in Pointer /\ new[n] # "freed"
              /\ Once({"account"}) /\ {"account"} \in SUBSET Slot
            BY DEF Pointer, Once, FieldInv
        <3> HIDE DEF new
        <3> QED BY <1>1, <2>1, <3>1, StringsOnce
    <2>2. CASE UNCHANGED memory
        BY <2>2, SameOnce
    <2> QED BY <1>5, <2>1, <2>2 DEF pcs_setopt
<1>6. CASE pcs_islogin
    BY <1>1, <1>6, LooksOnce DEF pcs_islogin
<1>7. CASE pcs_logout
    <2> DEFINE own == Field \ {"buffer"}
    <2>1. CASE Strings(own, Nulls(own))
        <3>1. /\ DOMAIN Nulls(own) = own
              /\ \A n \in own : Nulls(own)[n] = "null"
              /\ "null" \in Pointer /\ "null" # "freed"
              /\ Once(own) /\ own \in SUBSET Slot
            BY DEF Nulls, Pointer, Once, FieldInv
        <3> HIDE DEF own
        <3> QED BY <1>1, <2>1, <3>1, StringsOnce
    <2>2. CASE UNCHANGED memory
        BY <2>2, SameOnce
    <2> QED BY <1>7, <2>1, <2>2 DEF pcs_logout
<1>8. CASE pcs_login
    BY <1>8 DEF pcs_login, NewCall, FieldInv, BadInv
<1> QED BY <1>1, <1>2, <1>3, <1>4, <1>5, <1>6, <1>7, <1>8, LoginStepOnce, PanApiOnce DEF Next

\* No string is freed twice, or read after it was freed, in any sequence of
\* calls, but for the address of the page in the message of a failed jump;
\* each page names its user, and the cookie BDUSS is there.
THEOREM NothingDangles == ASSUME Sure PROVE Spec => []NoDanglingUse
<1>1. Init => FieldInv /\ BadInv
    BY DEF Init, HandleInit, Nulls, FieldInv, BadInv
<1>2. ClientInv /\ FieldInv /\ BadInv /\ [Next]_hvars => FieldInv' /\ BadInv'
    BY NextOnce
<1>3. ClientInv /\ BadInv => NoDanglingUse
    BY DEF ClientInv, NoDanglingUse, BadInv, OwnInv, TokenInv, CodeInv, HtmlInv, JumpInv, AuthtokenInv, GotoInv,
       AuthsidInv, ListInv, MsgInv, Before, Verifies
<1> QED BY <1>1, <1>2, <1>3, ClientInvariant, PTL DEF Spec

=============================================================================
