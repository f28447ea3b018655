------------------------------ MODULE PcsHandle ------------------------------
(***************************************************************************)
(* A handle of the PCS library (pcs/pcs.c): the strings that struct pcs    *)
(* points to, its error message, and the calls about the handle itself.    *)
(* What matters of a string is whether its pointer is NULL, points to a    *)
(* string or to an empty one, or is left behind after pcs_free.            *)
(***************************************************************************)
EXTENDS Naturals, FiniteSets

CONSTANTS
    Faults      \* "layout": pages of another layout; "nouser": a page without
                \* a user name; "nohook": no captcha or input function is set;
                \* "nobduss": a login without the cookie BDUSS; "odd": pages
                \* with a key that no value follows, or without an address

ASSUME FaultsAssumption ==
    Faults \subseteq {"layout", "nouser", "nohook", "nobduss", "odd"}

\* account stands for username and password, which are set and freed alike.
Field == {"account", "bdstoken", "bduss", "sysUID", "buffer"}
\* strings of pcs_login and pcs_do_auth_verify
Local == {"token", "code_string", "html", "jump_url", "authtoken", "gotourl",
          "authsid", "verify_api_list", "msg"}
Pointer == {"null", "live", "empty", "freed"}

VARIABLES
    alive,      \* 1 between pcs_create and pcs_destroy
    ptr,        \* pointers of struct pcs and of a login
    errmsg,     \* 0 when pcs->errmsg is NULL
    cookie,     \* 1 when the cookies are a login
    lost,       \* strings of a login that nothing points to any more
    bad,        \* pointers that were freed, or read, after pcs_free; what the
                \* last login did is noted until the next call
    ret,        \* the last call, its result, and what really happened in it
    pc, retry_times, error, asked   \* of PcsLogin

memory == <<ptr, lost, bad>>
locals == <<pc, retry_times, error, asked>>
hvars  == <<alive, memory, errmsg, cookie, ret, locals>>

Answer(op, res, said) == ret' = [op |-> op, res |-> res, said |-> said]
Held(n)   == ptr[n] \in {"live", "empty"}
Freed(n)  == IF Held(n) THEN "freed" ELSE ptr[n]
Say(n)    == errmsg' = n
NewCall   == lost' = {} /\ bad' = {}

\* pcs_free of some pointers, then an assignment of others: new is a function
\* on the assigned ones.  Whoever is freed and not assigned stays behind.
Strings(free, new) ==
    /\ ptr'  = [n \in Field \union Local |->
                   IF n \in DOMAIN new THEN new[n]
                   ELSE IF n \in free THEN Freed(n) ELSE ptr[n]]
    /\ bad'  = bad \union {n \in free : ptr[n] = "freed"}
    /\ lost' = lost \union {n \in DOMAIN new \intersect Local : Held(n) /\ n \notin free}

Nulls(names) == [n \in names |-> "null"]

\* pcs_login returns: what it has not freed is lost.
Return(free) ==
    /\ ptr'  = [n \in Field \union Local |-> IF n \in Local THEN "null" ELSE ptr[n]]
    /\ bad'  = bad \union {n \in free : ptr[n] = "freed"}
    /\ lost' = lost \union {n \in Local : Held(n) /\ n \notin free}

HandleInit ==
    /\ alive = 0 /\ ptr = Nulls(Field \union Local)
    /\ errmsg = 0 /\ cookie \in 0 .. 1
    /\ lost = {} /\ bad = {}
    /\ ret = [op |-> "none", res |-> "none", said |-> "none"]
    /\ pc = "idle" /\ retry_times = 0 /\ error = "none" /\ asked = 0

Idle == alive = 1 /\ pc = "idle"

-----------------------------------------------------------------------------
\* The cookie file keeps a login over the end of a handle.
pcs_create ==
    /\ alive = 0
    /\ alive' = 1 /\ Say(0)
    /\ Answer("create", "value", "done")
    /\ UNCHANGED <<memory, cookie, locals>>

pcs_destroy ==
    /\ Idle
    /\ alive' = 0
    /\ bad' = bad \union {n \in Field : ptr[n] = "freed"}
    /\ ptr' = Nulls(Field \union Local)
    /\ Say(0)
    /\ Answer("destroy", "none", "done")
    /\ UNCHANGED <<lost, cookie, locals>>

\* pcs_clone_userinfo and pcs_sysUID read the strings of the handle.
pcs_clone_userinfo ==
    /\ Idle
    /\ bad' = bad \union {n \in Field \ {"buffer"} : ptr[n] = "freed"}
    /\ Answer("clone", "none", "none")
    /\ UNCHANGED <<alive, ptr, lost, errmsg, cookie, locals>>

\* pcs_setopt of an account, a function, or an option that it does not know
pcs_setopt ==
    /\ Idle
    /\ \/ /\ Strings({"account"}, [n \in {"account"} |-> "live"])
          /\ Answer("setopt", "OK", "none") /\ UNCHANGED errmsg
       \/ /\ Say(1) /\ Answer("setopt", "UNKNOWN_OPT", "failed")
          /\ UNCHANGED memory
    /\ UNCHANGED <<alive, cookie, locals>>

-----------------------------------------------------------------------------
(***************************************************************************)
(* pcs_islogin, for the call itself and for pcs_login.                     *)
(***************************************************************************)
\* What pcs_http_get_cookie finds: a cookie that is missing among others is
\* answered with freed memory (pcs_http.c:778-799).
Cookie == IF "nobduss" \in Faults THEN {"live", "freed"} ELSE {"live"}

\* What pcs_get_value_by_key finds.
Found == {"null", "empty", "live"}

\* No page: another code than 200 and 302, or no body.
NoPage  == Say(1) /\ UNCHANGED memory

\* 302, a redirection to the login page
Redirected == cookie = 0 /\ Say(0) /\ UNCHANGED memory

\* A page without a token
Foreign ==
    /\ cookie = 0 \/ "layout" \in Faults
    /\ Say(0)
    /\ \E t \in {"null", "empty"} : Strings({"bdstoken"}, [n \in {"bdstoken"} |-> t])

\* A page with the token as a value of its own; the user name is found or not.
TokenPage ==
    /\ cookie = 1 /\ Say(0)
    /\ \E duss \in Cookie, uid \in Found :
          Strings({"bdstoken", "bduss", "sysUID"},
                  [n \in {"bdstoken", "bduss", "sysUID"} |->
                      CASE n = "bdstoken" -> "live" [] n = "bduss" -> duss
                        [] n = "sysUID" -> uid])

\* A page with the token in the object "context"; its user name replaces
\* sysUID, which is freed in any case.
ContextPage ==
    /\ cookie = 1 /\ Say(0)
    /\ \E duss \in Cookie, user \in {1, IF "nouser" \in Faults THEN 0 ELSE 1} :
          Strings({"bdstoken", "bduss", "sysUID"},
                  [n \in {"bdstoken", "bduss"} \union (IF user = 1 THEN {"sysUID"} ELSE {}) |->
                      IF n = "bduss" THEN duss ELSE "live"])

\* What a page that can be searched to its end says (SearchHangs in PcsLogin)
IsLogin(res) ==
    CASE res = "NETWORK_ERROR" -> NoPage
      [] res = "NOT_LOGIN"     -> Redirected \/ Foreign
      [] res = "LOGIN"         -> TokenPage \/ ContextPage

pcs_islogin ==
    /\ Idle
    /\ \E res \in {"NETWORK_ERROR", "NOT_LOGIN", "LOGIN"} :
          /\ IsLogin(res)
          /\ Answer("islogin", res, IF res = "NETWORK_ERROR" THEN "failed" ELSE "done")
    /\ UNCHANGED <<alive, cookie, locals>>

\* A logout is a redirection; anything else leaves the login as it is.
pcs_logout ==
    /\ Idle
    /\ \/ /\ cookie' = 0 /\ Say(0)
          /\ LET own == Field \ {"buffer"} IN Strings(own, Nulls(own))
          /\ Answer("logout", "OK", "done")
       \/ /\ Say(1) /\ UNCHANGED <<cookie, memory>>
          /\ Answer("logout", "FAIL", "failed")
    /\ UNCHANGED <<alive, locals>>

=============================================================================
