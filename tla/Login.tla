-------------------------------- MODULE Login --------------------------------
(***************************************************************************)
(* Login with verification code (web_api.c, http.c Login and LogOut).  A   *)
(* login request starts thread_login and reads a status from the login     *)
(* FIFO.  When the passport server wants a code, the thread writes VERIFY, *)
(* the request returns, and the thread waits, polling loginState and the   *)
(* verify FIFO, until a later request brings the code or cancels it.       *)
(* The Login handler runs without m_mutexWeb: Handlers are the HTTP        *)
(* workers that may be in it at the same time.                             *)
(***************************************************************************)
EXTENDS Integers, Sequences

CONSTANTS
    Handlers,   \* HTTP workers with requests of this kind
    Threads,    \* how many login threads there can be at a time
    MaxAsk,     \* codes asked for in one pcs_login (4 in the code)
    Waits,      \* how a thread can wait for a code: "park", and "deaf" when
                \* fderr, which is not initialised, makes select fail for ever
    Dangles     \* does a failed pthread_create leave a value in tlogin

ASSUME ThreadsAssumption == Threads \in Nat \ {0}
ASSUME MaxAskAssumption  == MaxAsk \in Nat \ {0}
ASSUME WaitsAssumption   == Waits \in {{"park"}, {"park", "deaf"}}
ASSUME DanglesAssumption == Dangles \in BOOLEAN

Thread  == 1 .. Threads
Freed   == Threads + 1      \* a value of tlogin that names no thread
Status  == {"verify", "ok", "fail"}
Request == {"login", "code", "empty", "cancel", "logout"}

VARIABLES
    loginState,  \* 0 none, 1 in progress, 2 a code is wanted
    tlogin,      \* contexWeb.tlogin; 0 for none
    thr,         \* the login threads
    login,       \* the login FIFO: statuses, with the thread that wrote them
    code,        \* 1 when the verify FIFO is not empty
    islogin,     \* contexWeb.islogin
    session,     \* what pcs_islogin finds out: the cookies are a login
    hnd          \* the handlers: pc, request, and local variables

shared == <<loginState, tlogin, login, code, islogin, session>>
vars   == <<loginState, tlogin, thr, login, code, islogin, session, hnd>>

HandlerPc == {"idle", "login", "cancel", "join", "joining", "joined", "check",
              "create", "spawn", "readlogin", "set2", "reset", "finish",
              "verify", "write", "readverify", "logout", "logout2"}
ThreadPc  == {"none", "pcs", "park", "deaf", "end", "write", "clear", "dead"}

ThreadRec  == [pc : ThreadPc, asks : 0 .. MaxAsk, res : {"ok", "fail"}]
MessageRec == [from : Thread, st : Status]
HandlerRec == [pc : HandlerPc, req : Request, st : Status, arg : 0 .. Freed,
               then : {"check", "reset", "finish"}]

TypeOK ==
    /\ loginState \in 0 .. 2
    /\ tlogin \in 0 .. Freed
    /\ thr \in [Thread -> ThreadRec]
    /\ login \in Seq(MessageRec)
    /\ code \in 0 .. 1 /\ islogin \in 0 .. 1 /\ session \in 0 .. 1
    /\ hnd \in [Handlers -> HandlerRec]

Init ==
    /\ loginState = 0 /\ tlogin = 0
    /\ thr = [t \in Thread |-> [pc |-> "none", asks |-> 0, res |-> "fail"]]
    /\ login = <<>> /\ code = 0
    /\ islogin \in 0 .. 1 /\ session \in 0 .. 1
    /\ hnd = [h \in Handlers |-> [pc |-> "idle", req |-> "login", st |-> "fail",
                                  arg |-> 0, then |-> "check"]]

Goto(h, pc)    == hnd' = [hnd EXCEPT ![h].pc = pc]
Join(h, s, pc) == hnd' = [hnd EXCEPT ![h].pc = "join", ![h].st = s, ![h].then = pc]
At(h, pc)      == hnd[h].pc = pc

-----------------------------------------------------------------------------
(***************************************************************************)
(* Requests.                                                               *)
(***************************************************************************)
Arrive(h, r) ==
    /\ At(h, "idle")
    /\ hnd' = [hnd EXCEPT ![h].req = r,
                          ![h].pc = IF r \in {"login", "logout"} THEN r ELSE "verify"]
    /\ UNCHANGED <<thr, shared>>

\* Is there a login already?
pcs_web_api_login(h) ==
    /\ At(h, "login")
    /\ Goto(h, IF loginState # 0 \/ tlogin # 0 THEN "cancel" ELSE "check")
    /\ UNCHANGED <<thr, shared>>

\* Mutant of Cancelled: the earlier login is joined but not told to stop.
NotCancelled == UNCHANGED loginState

Cancelled == loginState' = 0

CancelEarlier(h) ==
    /\ At(h, "cancel")
    /\ Cancelled
    /\ Join(h, hnd[h].st, "check")
    /\ UNCHANGED <<tlogin, thr, login, code, islogin, session>>

\* pthread_join is called with the value tlogin has now ...
pthread_join(h) ==
    /\ At(h, "join")
    /\ hnd' = [hnd EXCEPT ![h].pc = "joining", ![h].arg = tlogin]
    /\ UNCHANGED <<thr, shared>>

\* ... and returns when that thread has ended; its ID is free then.
Joined(h) ==
    /\ At(h, "joining")
    /\ hnd[h].arg \in Thread /\ thr[hnd[h].arg].pc = "dead"
    /\ thr' = [thr EXCEPT ![hnd[h].arg].pc = "none"]
    /\ Goto(h, "joined")
    /\ UNCHANGED shared

\* Mutant of Forgotten: tlogin keeps the thread that was joined.
Remembered == UNCHANGED tlogin

Forgotten == tlogin' = 0

ClearTlogin(h) ==
    /\ At(h, "joined")
    /\ Forgotten
    /\ Goto(h, hnd[h].then)
    /\ UNCHANGED <<loginState, thr, login, code, islogin, session>>

\* pcs_islogin, which can fail for the network.
AlreadyLogin(h) ==
    /\ At(h, "check") /\ (islogin = 1 \/ session = 1)
    /\ islogin' = 1
    /\ Goto(h, "idle")
    /\ UNCHANGED <<loginState, tlogin, thr, login, code, session>>

NotConfirmed(h) ==
    /\ At(h, "check") /\ islogin = 0
    /\ Goto(h, "idle")
    /\ UNCHANGED <<thr, shared>>

NotLogin(h) ==
    /\ At(h, "check") /\ islogin = 0 /\ session = 0
    /\ Goto(h, "create")
    /\ UNCHANGED <<thr, shared>>

SetLogin(h) ==
    /\ At(h, "create")
    /\ loginState' = 1
    /\ Goto(h, "spawn")
    /\ UNCHANGED <<tlogin, thr, login, code, islogin, session>>

CreateThread(h) ==
    /\ At(h, "spawn")
    /\ \E t \in Thread :
          /\ thr[t].pc = "none"
          /\ thr' = [thr EXCEPT ![t] = [pc |-> "pcs", asks |-> 0, res |-> "fail"]]
          /\ tlogin' = t
    /\ Goto(h, "readlogin")
    /\ UNCHANGED <<loginState, login, code, islogin, session>>

CreateFails(h) ==
    /\ At(h, "spawn")
    /\ tlogin' = IF Dangles THEN Freed ELSE tlogin
    /\ loginState' = 0
    /\ Goto(h, "idle")
    /\ UNCHANGED <<thr, login, code, islogin, session>>

\* The status is VERIFY or the end of the login.
ReadLogin(h) ==
    /\ At(h, "readlogin") /\ login # <<>>
    /\ login' = Tail(login)
    /\ IF Head(login).st = "verify" THEN Goto(h, "set2")
                                    ELSE Join(h, Head(login).st, "reset")
    /\ UNCHANGED <<loginState, tlogin, thr, code, islogin, session>>

\* The picture is copied for the client, which is asked for the code.
SetVerify(h) ==
    /\ At(h, "set2")
    /\ loginState' = 2
    /\ Goto(h, "idle")
    /\ UNCHANGED <<tlogin, thr, login, code, islogin, session>>

Reset(h) ==
    /\ At(h, "reset")
    /\ loginState' = 0
    /\ Goto(h, "finish")
    /\ UNCHANGED <<tlogin, thr, login, code, islogin, session>>

\* It asks pcs_islogin again, which may fail; it also opens the database.
login_successful(h) ==
    /\ At(h, "finish")
    /\ islogin' \in {islogin} \cup (IF hnd[h].st = "ok" THEN {1} \cap {session} ELSE {})
    /\ Goto(h, "idle")
    /\ UNCHANGED <<loginState, tlogin, thr, login, code, session>>

\* A code is taken only while one is wanted.  "cancel" is joined as a login
\* that ended with state 0, which is LOGIN_OK.
pcs_web_api_verifycode(h) ==
    /\ At(h, "verify")
    /\ IF loginState # 2 \/ tlogin = 0   THEN Goto(h, "idle")
       ELSE IF hnd[h].req = "cancel"     THEN Join(h, "ok", "finish")
                                         ELSE Goto(h, "write")
    /\ UNCHANGED <<thr, shared>>

\* write(verify_fd, verifycode, codesize); a code of length 0 writes nothing.
WriteCode(h) ==
    /\ At(h, "write")
    /\ code' = IF hnd[h].req = "code" THEN 1 ELSE code
    /\ Goto(h, "readverify")
    /\ UNCHANGED <<loginState, tlogin, thr, login, islogin, session>>

\* The server may want another code.
ReadVerify(h) ==
    /\ At(h, "readverify") /\ login # <<>>
    /\ login' = Tail(login)
    /\ IF Head(login).st = "verify" THEN Goto(h, "idle")
                                    ELSE Join(h, Head(login).st, "finish")
    /\ UNCHANGED <<loginState, tlogin, thr, code, islogin, session>>

pcs_web_api_logout(h) ==
    /\ At(h, "logout")
    /\ islogin' = 0
    /\ Goto(h, "logout2")
    /\ UNCHANGED <<loginState, tlogin, thr, login, code, session>>

\* pcs_logout, whose failure is ignored.
pcs_logout(h) ==
    /\ At(h, "logout2")
    /\ session' \in {session, 0}
    /\ Goto(h, "idle")
    /\ UNCHANGED <<loginState, tlogin, thr, login, code, islogin>>

-----------------------------------------------------------------------------
(***************************************************************************)
(* The login thread: thread_login, pcs_login and its callbacks.            *)
(***************************************************************************)
Run(t, pc) == thr' = [thr EXCEPT ![t].pc = pc]
In(t, pc)  == thr[t].pc = pc
Waiting(t) == thr[t].pc \in {"park", "deaf"}

pcs_login(t) ==
    /\ In(t, "pcs")
    /\ \E r \in {"ok", "fail"} :
          /\ thr' = [thr EXCEPT ![t].pc = "end", ![t].res = r]
          /\ session' = IF r = "ok" THEN 1 ELSE session
    /\ UNCHANGED <<loginState, tlogin, login, code, islogin, hnd>>

\* Mutant of MayAsk: no limit to the retries.
AlwaysAsk(t) == thr[t].asks <= MaxAsk

MayAsk(t) == thr[t].asks < MaxAsk

\* The server wants a code: save the picture, write VERIFY, wait.
verifycode(t) ==
    /\ In(t, "pcs") /\ MayAsk(t)
    /\ login' = Append(login, [from |-> t, st |-> "verify"])
    /\ \E w \in Waits : thr' = [thr EXCEPT ![t].pc = w, ![t].asks = @ + 1]
    /\ UNCHANGED <<loginState, tlogin, code, islogin, session, hnd>>

\* The server wants a second factor: input_str waits for two seconds, for what
\* nobody was asked for; a code that happens to be in the FIFO is taken for it.
input_str(t) ==
    /\ In(t, "pcs")
    /\ IF code = 1
         THEN \E n \in {0, thr[t].asks} : thr' = [thr EXCEPT ![t].asks = n]
         ELSE thr' = [thr EXCEPT ![t].pc = "end", ![t].res = "fail"]
    /\ code' = 0
    /\ UNCHANGED <<loginState, tlogin, login, islogin, session, hnd>>

\* One round of the loop of verifycode, under m_login: cancelled, ...
GiveUp(t) ==
    /\ Waiting(t) /\ loginState = 0
    /\ thr' = [thr EXCEPT ![t].pc = "end", ![t].res = "fail"]
    /\ UNCHANGED <<hnd, shared>>

\* ... a code has come, ...
TakeCode(t) ==
    /\ In(t, "park") /\ loginState # 0 /\ code = 1
    /\ code' = 0
    /\ Run(t, "pcs")
    /\ UNCHANGED <<loginState, tlogin, login, islogin, session, hnd>>

\* ... or select timed out or failed.
SelectAgain(t) ==
    /\ Waiting(t) /\ loginState # 0 /\ (code = 0 \/ In(t, "deaf"))
    /\ UNCHANGED vars

\* Mutant of Wanted: the status is written although the login was cancelled.
AlwaysWanted == TRUE

Wanted == loginState # 0

get_mutex_login(t) ==
    /\ In(t, "end")
    /\ Run(t, IF Wanted THEN "write" ELSE "clear")
    /\ UNCHANGED <<hnd, shared>>

Notify(t) ==
    /\ In(t, "write")
    /\ login' = Append(login, [from |-> t, st |-> thr[t].res])
    /\ Run(t, "clear")
    /\ UNCHANGED <<loginState, tlogin, code, islogin, session, hnd>>

\* Mutant of Cleared: loginState is left as it is when the thread ends.
NotCleared == UNCHANGED loginState

Cleared == loginState' = 0

thread_login(t) ==
    /\ In(t, "clear")
    /\ Cleared
    /\ Run(t, "dead")
    /\ UNCHANGED <<tlogin, login, code, islogin, session, hnd>>

-----------------------------------------------------------------------------
Handle(h) ==
    \/ pcs_web_api_login(h) \/ CancelEarlier(h)
    \/ pthread_join(h) \/ Joined(h) \/ ClearTlogin(h)
    \/ AlreadyLogin(h) \/ NotConfirmed(h) \/ NotLogin(h) \/ SetLogin(h)
    \/ CreateThread(h) \/ CreateFails(h) \/ ReadLogin(h) \/ SetVerify(h)
    \/ Reset(h) \/ login_successful(h)
    \/ pcs_web_api_verifycode(h) \/ WriteCode(h) \/ ReadVerify(h)
    \/ pcs_web_api_logout(h) \/ pcs_logout(h)

LoginThread(t) ==
    \/ pcs_login(t) \/ verifycode(t) \/ input_str(t)
    \/ GiveUp(t) \/ TakeCode(t)
    \/ get_mutex_login(t) \/ Notify(t) \/ thread_login(t)

Next ==
    \/ \E h \in Handlers : Handle(h) \/ \E r \in Request : Arrive(h, r)
    \/ \E t \in Thread : LoginThread(t) \/ SelectAgain(t)

Spec == Init /\ [][Next]_vars

\* Every thread is scheduled, and every call to the passport server ends
\* (libcurl has a low-speed limit).  Users need not send anything.
FairSpec ==
    /\ Spec
    /\ \A h \in Handlers : WF_vars(Handle(h))
    /\ \A t \in Thread : WF_vars(LoginThread(t))

-----------------------------------------------------------------------------
(***************************************************************************)
(* Properties.  A client that sends one request at a time is served by one *)
(* handler at a time; what holds then fails when two workers are in Login. *)
(***************************************************************************)
\* Between requests nothing is left over: there is no login, or exactly one,
\* whose thread waits for a code and can be given one or cancelled.
Quiet ==
    (\A h \in Handlers : At(h, "idle")) =>
        /\ login = <<>> /\ code = 0
        /\ \/ loginState = 0 /\ tlogin = 0 /\ \A t \in Thread : In(t, "none")
           \/ /\ loginState = 2 /\ tlogin \in Thread /\ Waiting(tlogin)
              /\ \A t \in Thread \ {tlogin} : In(t, "none")

Reads(h) == At(h, "readlogin") \/ At(h, "readverify")
ReadsOwn ==
    \A h \in Handlers : Reads(h) /\ login # <<>> /\ login' = Tail(login)
                           => login[1].from = tlogin

\* A request that reads a status reads one of the thread it waits for, and not
\* what a cancelled login has left in the FIFO.
OwnAnswer == [][ReadsOwn]_vars

\* pthread_join is called for a thread that exists, and once for each.
JoinSound ==
    \A h \in Handlers : At(h, "joining") =>
        /\ hnd[h].arg \in Thread /\ ~In(hnd[h].arg, "none")
        /\ \A g \in Handlers : At(g, "joining") /\ hnd[g].arg = hnd[h].arg => g = h

\* Every request returns, unless it is one of the two that never do: the code
\* "cancel", and an empty code.
Hanging(h)   == hnd[h].req \in {"cancel", "empty"}
LoginReturns ==
    \A h \in Handlers : ~At(h, "idle") /\ ~Hanging(h) ~> At(h, "idle")

\* The code "cancel" ends the login: "Cancel Input Veerify Code".
CancelReturns ==
    \A h \in Handlers : ~At(h, "idle") /\ hnd[h].req = "cancel" ~> At(h, "idle")

-----------------------------------------------------------------------------
(***************************************************************************)
(* The inductive invariant for one handler: what it has in common with the *)
(* login thread at each place it can be.                                   *)
(***************************************************************************)
Empty   == login = <<>> /\ code = 0
NoneRun == \A t \in Thread : In(t, "none")
Sole    == tlogin \in Thread /\ \A t \in Thread \ {tlogin} : In(t, "none")
Message(s) == login = <<[from |-> tlogin, st |-> s]>>

Free      == Empty /\ loginState = 0 /\ tlogin = 0 /\ NoneRun
Spawning  == Empty /\ loginState = 1 /\ tlogin = 0 /\ NoneRun
IsJoined  == Empty /\ loginState = 0 /\ tlogin \in Thread /\ NoneRun
Parked(n) == Empty /\ loginState = n /\ Sole /\ Waiting(tlogin)

\* The earlier login was told to stop; it writes no status.
Cancelling ==
    /\ Empty /\ loginState = 0 /\ Sole
    /\ thr[tlogin].pc \in {"park", "deaf", "end", "clear", "dead"}

\* The thread has written its last status, which the handler has read.
Ended ==
    /\ Empty /\ Sole
    /\ \/ In(tlogin, "clear") /\ loginState # 0
       \/ In(tlogin, "dead") /\ loginState = 0

\* The handler waits for a status; at most one is on its way.
Awaited(n) ==
    /\ Sole
    /\ \/ /\ thr[tlogin].pc \in {"pcs", "end", "write"}
          /\ Empty /\ loginState = n
       \/ Waiting(tlogin) /\ Message("verify") /\ code = 0 /\ loginState = n
       \/ Waiting(tlogin) /\ login = <<>> /\ loginState = n /\ n = 2
       \/ /\ code = 0 /\ \E s \in {"ok", "fail"} : Message(s)
          /\ \/ In(tlogin, "clear") /\ loginState = n
             \/ In(tlogin, "dead") /\ loginState = 0

Control ==
    \A h \in Handlers :
        /\ hnd[h].pc \in {"idle", "login", "verify", "logout", "logout2"}
              => Free \/ Parked(2)
        /\ hnd[h].pc \in {"cancel", "write"} => Parked(2)
        /\ hnd[h].pc \in {"join", "joining"} =>
              \/ hnd[h].then = "check" /\ Cancelling
              \/ hnd[h].then \in {"reset", "finish"} /\ Ended
              \/ hnd[h].then = "finish" /\ Parked(2)
        /\ At(h, "joining") => hnd[h].arg = tlogin
        /\ At(h, "joined") => IsJoined
        /\ hnd[h].pc \in {"check", "create", "reset", "finish"} => Free
        /\ At(h, "spawn") => Spawning
        /\ At(h, "readlogin") => Awaited(1)
        /\ At(h, "set2") => Parked(1)
        /\ At(h, "readverify") => Awaited(2)

IInv == TypeOK /\ Control
=============================================================================
