----------------------------- MODULE Sync_proofs -----------------------------
(***************************************************************************)
(* Theorems about the conditions of baidupcs, for any number of requests   *)
(* and any period of thread_server.                                        *)
(***************************************************************************)
EXTENDS Sync, TLAPS

\* Nobody logs in beside other requests.
Alone == "login" \notin Requests

\* A database on a disk that is there can be opened.
Opens == "open" \notin Faults

\* Who has m_mutex is told by where the threads are.
LockInv ==
    /\ pc["login"] = "idle"
    /\ m \in {"free", "server", "web"}
    /\ pc["server"] = "connect" <=> m = "server"
    /\ pc["web"] \in {"closing", "made"} <=> m = "web"

\* A logout and the check of a login run without islogin.
LogoutInv == pc["web"] \in {"logout2", "closing", "islogin", "confirm", "section"} => islogin = 0

\* Without islogin, or while login_successful has m_mutex, both threads are at
\* their conditions; only in the first second of a logout they need not be, and
\* after a logout whose second was too short.
AwayInv ==
    hasty = 0 /\ ((islogin = 0 /\ pc["web"] # "logout2") \/ pc["web"] = "made") => Noticed

\* A login without a database has its disk error, and no path with which
\* thread_server, which alone resets it, would find room.
DbInv == Opens /\ islogin = 1 /\ db = 0 => storageStatus = 1 /\ localdir = 0

\* From its call to the look at its message a listing has the handle to itself.
ListInv ==
    hasty = 0 => /\ pc["server"] = "listing" => errmsg = 0
                 /\ pc["server"] = "judge" => (errmsg = 0 => was = "empty")

IInv == LockInv /\ LogoutInv /\ AwayInv /\ DbInv /\ ListInv /\ LiveDb /\ EmptyMeansEmpty

USE PeriodAssumption, AgainAssumption, RequestAssumption, MaxReqAssumption, FaultsAssumption

\* The two parts of TypeOK
Places == ServerPc \union ControlPc \union WebPc

PcOK ==
    /\ pc \in [Thread -> Places]
    /\ pc["server"] \in ServerPc /\ pc["control"] \in ControlPc
    /\ pc["web"] \in WebPc /\ pc["login"] \in WebPc

DataOK ==
    /\ islogin \in 0 .. 1 /\ syncon \in 0 .. 1
    /\ networkStatus \in 0 .. 1 /\ storageStatus \in 0 .. 1
    /\ net \in 0 .. 1 /\ disk \in Disk /\ localdir \in 0 .. 1 /\ todo \in 0 .. 1
    /\ session \in 0 .. 1 /\ db \in 0 .. 1 /\ errmsg \in 0 .. 1
    /\ held \in {"none", "live", "dead"}
    /\ m \in Thread \union {"free"}
    /\ count \in 0 .. Period /\ grown \in 0 .. 1
    /\ was \in {"none", "files", "empty", "fail"}
    /\ reqs \in 0 .. MaxReq /\ hasty \in 0 .. 1

LEMMA TypeParts == TypeOK <=> PcOK /\ DataOK
BY DEF TypeOK, PcOK, DataOK, Places

LEMMA InitTypeOK == Init => TypeOK
<1> SUFFICES ASSUME Init PROVE TypeOK
    OBVIOUS
<1>1. islogin \in 0 .. 1 /\ db \in 0 .. 1 /\ storageStatus \in 0 .. 1
    BY SMT DEF Init
<1>2. pc \in [Thread -> Places]
    BY SMT DEF Init, Thread, Handler, Places, ServerPc, WebPc
<1> QED BY <1>1, <1>2, SMT DEF Init, TypeOK, Disk, Thread, Handler, Places, ServerPc, ControlPc, WebPc

\* Where the threads are after one of them went on.
LEMMA GotoPlace ==
    ASSUME pc \in [Thread -> Places], NEW t \in Thread, NEW l \in Places, Goto(t, l)
    PROVE  /\ pc' \in [Thread -> Places]
           /\ pc'[t] = l
           /\ \A u \in Thread : u # t => pc'[u] = pc[u]
BY DEF Goto

LEMMA ServerGoes ==
    ASSUME PcOK
    PROVE  \A l \in ServerPc : Goto("server", l) =>
               /\ PcOK' /\ pc'["server"] = l
               /\ pc'["control"] = pc["control"] /\ pc'["web"] = pc["web"] /\ pc'["login"] = pc["login"]
<1> SUFFICES ASSUME NEW l \in ServerPc, Goto("server", l)
             PROVE  /\ PcOK' /\ pc'["server"] = l
                    /\ pc'["control"] = pc["control"] /\ pc'["web"] = pc["web"] /\ pc'["login"] = pc["login"]
    OBVIOUS
<1>1. "server" \in Thread /\ l \in Places
    BY DEF Thread, Places
<1>2. /\ pc' \in [Thread -> Places] /\ pc'["server"] = l
      /\ \A u \in Thread : u # "server" => pc'[u] = pc[u]
    BY <1>1, GotoPlace DEF PcOK
<1>3. pc'["control"] = pc["control"] /\ pc'["web"] = pc["web"] /\ pc'["login"] = pc["login"]
    BY <1>2, SMT DEF Thread
<1> QED BY <1>2, <1>3 DEF PcOK

LEMMA ControlGoes ==
    ASSUME PcOK
    PROVE  \A l \in ControlPc : Goto("control", l) =>
               /\ PcOK' /\ pc'["control"] = l
               /\ pc'["server"] = pc["server"] /\ pc'["web"] = pc["web"] /\ pc'["login"] = pc["login"]
<1> SUFFICES ASSUME NEW l \in ControlPc, Goto("control", l)
             PROVE  /\ PcOK' /\ pc'["control"] = l
                    /\ pc'["server"] = pc["server"] /\ pc'["web"] = pc["web"] /\ pc'["login"] = pc["login"]
    OBVIOUS
<1>1. "control" \in Thread /\ l \in Places
    BY DEF Thread, Places
<1>2. /\ pc' \in [Thread -> Places] /\ pc'["control"] = l
      /\ \A u \in Thread : u # "control" => pc'[u] = pc[u]
    BY <1>1, GotoPlace DEF PcOK
<1>3. pc'["server"] = pc["server"] /\ pc'["web"] = pc["web"] /\ pc'["login"] = pc["login"]
    BY <1>2, SMT DEF Thread
<1> QED BY <1>2, <1>3 DEF PcOK

LEMMA WebGoes ==
    ASSUME PcOK
    PROVE  \A l \in WebPc : Goto("web", l) =>
               /\ PcOK' /\ pc'["web"] = l
               /\ pc'["server"] = pc["server"] /\ pc'["control"] = pc["control"] /\ pc'["login"] = pc["login"]
<1> SUFFICES ASSUME NEW l \in WebPc, Goto("web", l)
             PROVE  /\ PcOK' /\ pc'["web"] = l
                    /\ pc'["server"] = pc["server"] /\ pc'["control"] = pc["control"] /\ pc'["login"] = pc["login"]
    OBVIOUS
<1>1. "web" \in Thread /\ l \in Places
    BY DEF Thread, Places
<1>2. /\ pc' \in [Thread -> Places] /\ pc'["web"] = l
      /\ \A u \in Thread : u # "web" => pc'[u] = pc[u]
    BY <1>1, GotoPlace DEF PcOK
<1>3. pc'["server"] = pc["server"] /\ pc'["control"] = pc["control"] /\ pc'["login"] = pc["login"]
    BY <1>2, SMT DEF Thread
<1> QED BY <1>2, <1>3 DEF PcOK

LEMMA LoginGoes ==
    ASSUME PcOK
    PROVE  \A l \in WebPc : Goto("login", l) =>
               /\ PcOK' /\ pc'["login"] = l
               /\ pc'["server"] = pc["server"] /\ pc'["control"] = pc["control"] /\ pc'["web"] = pc["web"]
<1> SUFFICES ASSUME NEW l \in WebPc, Goto("login", l)
             PROVE  /\ PcOK' /\ pc'["login"] = l
                    /\ pc'["server"] = pc["server"] /\ pc'["control"] = pc["control"] /\ pc'["web"] = pc["web"]
    OBVIOUS
<1>1. "login" \in Thread /\ l \in Places
    BY DEF Thread, Places
<1>2. /\ pc' \in [Thread -> Places] /\ pc'["login"] = l
      /\ \A u \in Thread : u # "login" => pc'[u] = pc[u]
    BY <1>1, GotoPlace DEF PcOK
<1>3. pc'["server"] = pc["server"] /\ pc'["control"] = pc["control"] /\ pc'["web"] = pc["web"]
    BY <1>2, SMT DEF Thread
<1> QED BY <1>2, <1>3 DEF PcOK

\* No step of a thread leaves the types.
LEMMA ServerTypeOK == PcOK /\ DataOK /\ thread_server => PcOK' /\ DataOK'
<1> SUFFICES ASSUME PcOK, DataOK, thread_server PROVE PcOK' /\ DataOK'
    OBVIOUS
<1>a. "server" \in Thread /\ "web" \in Thread /\ "login" \in Thread
    BY DEF Thread
<1> USE DEF DataOK, conds, world, data, own, past, ServerPc
<1>1. CASE ServerEnter
    BY <1>a, <1>1, ServerGoes, SMT DEF ServerEnter, Free, Ready
<1>2. CASE ServerWake
    BY <1>a, <1>2, ServerGoes, SMT DEF ServerWake, Free, Ready
<1>3. CASE ServerConnect
    BY <1>a, <1>3, ServerGoes, SMT DEF ServerConnect, Ready
<1>4. CASE ServerRound
    BY <1>a, <1>4, ServerGoes, SMT DEF ServerRound, Begin
<1>5. CASE ServerQuota
    BY <1>a, <1>5, ServerGoes, SMT DEF ServerQuota, Fails, CanFail, CanSucceed
<1>6. CASE ServerList
    BY <1>a, <1>6, ServerGoes, SMT DEF ServerList, Ready, Begin
<1>7. CASE ServerListed
    BY <1>a, <1>7, ServerGoes, SMT DEF ServerListed, Fails, CanFail, CanSucceed
<1>8. CASE ServerJudge
    BY <1>a, <1>8, ServerGoes, SMT DEF ServerJudge
<1>9. CASE ServerEmptyDir
    BY <1>a, <1>9, ServerGoes, SMT DEF ServerEmptyDir, Free
<1>10. CASE ServerQueue
    BY <1>a, <1>10, ServerGoes, SMT DEF ServerQueue, Ready
<1>11. CASE ServerListFailed
    BY <1>a, <1>11, ServerGoes, SMT DEF ServerListFailed
<1>12. CASE ServerNetwork
    BY <1>a, <1>12, ServerGoes, SMT DEF ServerNetwork
<1>13. CASE ServerStorage
    BY <1>a, <1>13, ServerGoes, SMT DEF ServerStorage
<1>14. CASE ServerTick
    BY <1>a, <1>14, ServerGoes, SMT DEF ServerTick
<1> QED BY <1>1, <1>2, <1>3, <1>4, <1>5, <1>6, <1>7, <1>8, <1>9, <1>10, <1>11, <1>12, <1>13, <1>14 DEF thread_server

LEMMA ControlTypeOK == PcOK /\ DataOK /\ thread_down_control => PcOK' /\ DataOK'
<1> SUFFICES ASSUME PcOK, DataOK, thread_down_control PROVE PcOK' /\ DataOK'
    OBVIOUS
<1> USE DEF DataOK, conds, world, data, own, past, ControlPc
<1>1. CASE ControlEnter
    BY <1>1, ControlGoes, SMT DEF ControlEnter, Free, Ready
<1>2. CASE ControlGet
    BY <1>2, ControlGoes, SMT DEF ControlGet
<1>3. CASE ControlConvert
    BY <1>3, ControlGoes, SMT DEF ControlConvert, Free
<1>4. CASE ControlDown
    BY <1>4, ControlGoes, SMT DEF ControlDown
<1>5. CASE ControlSet
    BY <1>5, ControlGoes, SMT DEF ControlSet
<1> QED BY <1>1, <1>2, <1>3, <1>4, <1>5 DEF thread_down_control

LEMMA WebTypeOK == PcOK /\ DataOK /\ web => PcOK' /\ DataOK'
<1> SUFFICES ASSUME PcOK, DataOK, web PROVE PcOK' /\ DataOK'
    OBVIOUS
<1>a. "server" \in Thread /\ "web" \in Thread /\ "login" \in Thread
    BY DEF Thread
<1> USE DEF DataOK, conds, world, data, own, past, WebPc
<1>1. CASE pcs_web_api_setsync
    BY <1>a, <1>1, WebGoes, SMT DEF pcs_web_api_setsync, Free
<1>2. CASE pcs_web_api_link
    BY <1>a, <1>2, WebGoes, SMT DEF pcs_web_api_link
<1>3. CASE LinkStorage
    BY <1>a, <1>3, WebGoes, SMT DEF LinkStorage
<1>4. CASE LinkLogin
    BY <1>a, <1>4, WebGoes, SMT DEF LinkLogin, Free
<1>5. CASE pcs_web_api_logout
    BY <1>a, <1>5, WebGoes, SMT DEF pcs_web_api_logout, Free
<1>6. CASE pcs_logout
    BY <1>a, <1>6, WebGoes, SMT DEF pcs_logout, Free, Begin, Noticed
<1>7. CASE destory_database
    BY <1>a, <1>7, WebGoes, SMT DEF destory_database, Closed, CanFail
<1>8. CASE login_successful("web")
    BY <1>a, <1>8, WebGoes, SMT DEF login_successful, Begin
<1>9. CASE LoginConfirmed("web")
    BY <1>a, <1>9, WebGoes, SMT DEF LoginConfirmed, Fails, CanFail, CanSucceed
<1>10. CASE LoginSection("web")
    BY <1>a, <1>10, WebGoes, SMT DEF LoginSection, Free, Begin, Closed, Reachable, init_database
<1>11. CASE LoginMade("web")
    BY <1>a, <1>11, WebGoes, SMT DEF LoginMade
<1> QED BY <1>1, <1>2, <1>3, <1>4, <1>5, <1>6, <1>7, <1>8, <1>9, <1>10, <1>11 DEF web

LEMMA LoginTypeOK == PcOK /\ DataOK /\ login => PcOK' /\ DataOK'
<1> SUFFICES ASSUME PcOK, DataOK, login PROVE PcOK' /\ DataOK'
    OBVIOUS
<1>a. "server" \in Thread /\ "web" \in Thread /\ "login" \in Thread
    BY DEF Thread
<1> USE DEF DataOK, conds, world, data, own, past, WebPc
<1>1. CASE pcs_web_api_login
    BY <1>a, <1>1, LoginGoes, SMT DEF pcs_web_api_login, Begin
<1>2. CASE LoginChecked
    BY <1>a, <1>2, LoginGoes, SMT DEF LoginChecked, Fails, CanFail, CanSucceed
<1>3. CASE thread_login
    BY <1>a, <1>3, LoginGoes, SMT DEF thread_login
<1>4. CASE login_successful("login")
    BY <1>a, <1>4, LoginGoes, SMT DEF login_successful, Begin
<1>5. CASE LoginConfirmed("login")
    BY <1>a, <1>5, LoginGoes, SMT DEF LoginConfirmed, Fails, CanFail, CanSucceed
<1>6. CASE LoginSection("login")
    BY <1>a, <1>6, LoginGoes, SMT DEF LoginSection, Free, Begin, Closed, Reachable, init_database
<1>7. CASE LoginMade("login")
    BY <1>a, <1>7, LoginGoes, SMT DEF LoginMade
<1> QED BY <1>1, <1>2, <1>3, <1>4, <1>5, <1>6, <1>7 DEF login

LEMMA ArriveTypeOK == PcOK /\ DataOK /\ (\E r \in Requests : Arrive(r)) => PcOK' /\ DataOK'
<1> SUFFICES ASSUME PcOK, DataOK, NEW r \in Requests, Arrive(r) PROVE PcOK' /\ DataOK'
    OBVIOUS
<1>1. r \in WebPc
    BY RequestAssumption DEF WebPc
<1>2. Goto("login", r) \/ Goto("web", r)
    BY DEF Arrive
<1>3. PcOK'
    BY <1>1, <1>2, LoginGoes, WebGoes
<1>4. DataOK'
    BY SMT DEF Arrive, DataOK, conds, world, data, own, past
<1> QED BY <1>3, <1>4

LEMMA WorldTypeOK == PcOK /\ DataOK /\ World => PcOK' /\ DataOK'
<1> SUFFICES ASSUME PcOK, DataOK, World PROVE PcOK' /\ DataOK'
    OBVIOUS
<1>1. PcOK'
    BY DEF World, PcOK
<1>2. DataOK'
    BY SMT DEF World, DataOK, conds, data, past
<1> QED BY <1>1, <1>2

\* Every variable has its type, whatever fails and whoever logs in.
THEOREM TypeCorrect == Spec => []TypeOK
<1>1. TypeOK /\ [Next]_vars => TypeOK'
    <2> SUFFICES ASSUME TypeOK, [Next]_vars PROVE TypeOK'
        OBVIOUS
    <2>1. CASE UNCHANGED vars
        BY <2>1 DEF vars, conds, world, data, own, past, TypeOK
    <2>2. CASE Next
        BY <2>2, TypeParts, ServerTypeOK, ControlTypeOK, WebTypeOK, LoginTypeOK, ArriveTypeOK,
           WorldTypeOK DEF Next, TypeOK, PcOK, DataOK, Places
    <2> QED BY <2>1, <2>2
<1> QED BY <1>1, InitTypeOK, PTL DEF Spec

LEMMA InitIInv == Init => IInv
<1> SUFFICES ASSUME Init PROVE IInv
    OBVIOUS
<1>1. pc["server"] = "top" /\ pc["control"] = "top" /\ pc["web"] = "idle" /\ pc["login"] = "idle"
    BY SMT DEF Init, Thread, Handler
<1>2. islogin = 1 /\ db = 0 => storageStatus = 1
    BY SMT DEF Init
<1> QED BY <1>1, <1>2, SMT DEF Init, IInv, LockInv, LogoutInv, AwayInv, Noticed, DbInv, ListInv,
                               LiveDb, EmptyMeansEmpty

\* thread_server
LEMMA ServerIInv == PcOK /\ DataOK /\ IInv /\ Alone /\ thread_server => IInv'
<1> SUFFICES ASSUME PcOK, DataOK, IInv, Alone, thread_server PROVE IInv'
    OBVIOUS
<1> USE DEF IInv, LockInv, LogoutInv, AwayInv, Noticed, DbInv, ListInv, LiveDb, EmptyMeansEmpty,
            conds, world, data, own, past, ServerPc
<1>1. CASE ServerEnter
    BY <1>1, ServerGoes, SMT DEF DataOK, ServerEnter, Free, Ready
<1>2. CASE ServerWake
    BY <1>2, ServerGoes, SMT DEF DataOK, ServerWake, Free, Ready
<1>3. CASE ServerConnect
    BY <1>3, ServerGoes, SMT DEF DataOK, ServerConnect, Ready
<1>4. CASE ServerRound
    BY <1>4, ServerGoes, SMT DEF DataOK, ServerRound, Begin
<1>5. CASE ServerQuota
    BY <1>5, ServerGoes, SMT DEF DataOK, ServerQuota, Fails, CanFail, CanSucceed
<1>6. CASE ServerList
    BY <1>6, ServerGoes, SMT DEF DataOK, ServerList, Ready, Begin
<1>7. CASE ServerListed
    BY <1>7, ServerGoes, SMT DEF DataOK, ServerListed, Fails, CanFail, CanSucceed
<1>8. CASE ServerJudge
    BY <1>8, ServerGoes, SMT DEF DataOK, ServerJudge
<1>9. CASE ServerEmptyDir
    BY <1>9, ServerGoes, SMT DEF DataOK, ServerEmptyDir, Free
<1>10. CASE ServerQueue
    BY <1>10, ServerGoes, SMT DEF DataOK, ServerQueue, Ready
<1>11. CASE ServerListFailed
    BY <1>11, ServerGoes, SMT DEF DataOK, ServerListFailed
<1>12. CASE ServerNetwork
    BY <1>12, ServerGoes, SMT DEF DataOK, ServerNetwork
<1>13. CASE ServerStorage
    BY <1>13, ServerGoes, SMT DEF DataOK, ServerStorage
<1>14. CASE ServerTick
    BY <1>14, ServerGoes, SMT DEF DataOK, ServerTick
<1> QED BY <1>1, <1>2, <1>3, <1>4, <1>5, <1>6, <1>7, <1>8, <1>9, <1>10, <1>11, <1>12, <1>13, <1>14 DEF thread_server

\* thread_down_control
LEMMA ControlIInv == PcOK /\ DataOK /\ IInv /\ Alone /\ thread_down_control => IInv'
<1> SUFFICES ASSUME PcOK, DataOK, IInv, Alone, thread_down_control PROVE IInv'
    OBVIOUS
<1> USE DEF IInv, LockInv, LogoutInv, AwayInv, Noticed, DbInv, ListInv, LiveDb, EmptyMeansEmpty,
            conds, world, data, own, past, ControlPc
<1>1. CASE ControlEnter
    BY <1>1, ControlGoes, SMT DEF DataOK, ControlEnter, Free, Ready
<1>2. CASE ControlGet
    BY <1>2, ControlGoes, SMT DEF DataOK, ControlGet
<1>3. CASE ControlConvert
    BY <1>3, ControlGoes, SMT DEF DataOK, ControlConvert, Free
<1>4. CASE ControlDown
    BY <1>4, ControlGoes, SMT DEF DataOK, ControlDown
<1>5. CASE ControlSet
    BY <1>5, ControlGoes, SMT DEF DataOK, ControlSet
<1> QED BY <1>1, <1>2, <1>3, <1>4, <1>5 DEF thread_down_control

\* The requests that hold m_mutexWeb
LEMMA WebIInv == PcOK /\ DataOK /\ IInv /\ Alone /\ web => IInv'
<1> SUFFICES ASSUME PcOK, DataOK, IInv, Alone, web PROVE IInv'
    OBVIOUS
<1> USE DEF IInv, LockInv, LogoutInv, AwayInv, Noticed, DbInv, ListInv, LiveDb, EmptyMeansEmpty,
            conds, world, data, own, past, WebPc
<1>1. CASE pcs_web_api_setsync
    BY <1>1, WebGoes, SMT DEF DataOK, pcs_web_api_setsync, Free
<1>2. CASE pcs_web_api_link
    BY <1>2, WebGoes, SMT DEF DataOK, pcs_web_api_link
<1>3. CASE LinkStorage
    BY <1>3, WebGoes, SMT DEF DataOK, LinkStorage
<1>4. CASE LinkLogin
    BY <1>4, WebGoes, SMT DEF DataOK, LinkLogin, Free
<1>5. CASE pcs_web_api_logout
    BY <1>5, WebGoes, SMT DEF DataOK, pcs_web_api_logout, Free
<1>6. CASE pcs_logout
    BY <1>6, WebGoes, SMT DEF DataOK, pcs_logout, Free, Begin
<1>7. CASE destory_database
    BY <1>7, WebGoes, SMT DEF DataOK, destory_database, Closed, CanFail
<1>8. CASE login_successful("web")
    BY <1>8, WebGoes, SMT DEF DataOK, login_successful, Begin
<1>9. CASE LoginConfirmed("web")
    BY <1>9, WebGoes, SMT DEF DataOK, LoginConfirmed, Fails, CanFail, CanSucceed
<1>10. CASE LoginSection("web")
    BY <1>10, WebGoes, SMT DEF DataOK, LoginSection, Free, Begin, Closed, Reachable, init_database, May, Opens
<1>11. CASE LoginMade("web")
    BY <1>11, WebGoes, SMT DEF DataOK, LoginMade
<1> QED BY <1>1, <1>2, <1>3, <1>4, <1>5, <1>6, <1>7, <1>8, <1>9, <1>10, <1>11 DEF web

LEMMA ArriveIInv == PcOK /\ IInv /\ Alone /\ (\E r \in Requests : Arrive(r)) => IInv'
<1> SUFFICES ASSUME PcOK, IInv, Alone, NEW r \in Requests, Arrive(r) PROVE IInv'
    OBVIOUS
<1>1. r \in {"setsync", "link", "logout"} /\ r \in WebPc
    BY RequestAssumption DEF Alone, WebPc
<1>2. Goto("web", r) /\ pc["web"] = "idle"
    BY <1>1 DEF Arrive
<1>3. UNCHANGED <<islogin, storageStatus, localdir, db, held, errmsg, was, m, hasty>>
    BY DEF Arrive, conds, world, data, own
<1> QED BY <1>1, <1>2, <1>3, WebGoes, SMT DEF IInv, LockInv, LogoutInv, AwayInv, Noticed, DbInv,
                                             ListInv, LiveDb, EmptyMeansEmpty

\* What the invariant is about is not the world's, and nobody is in Login.
LEMMA StepIInv == TypeOK /\ IInv /\ Alone /\ [Next]_vars => IInv'
<1> SUFFICES ASSUME TypeOK, IInv, Alone, [Next]_vars PROVE IInv'
    OBVIOUS
<1>1. PcOK /\ DataOK
    BY TypeParts
<1>2. CASE login
    BY <1>2 DEF login, IInv, LockInv, pcs_web_api_login, LoginChecked, thread_login,
                login_successful, LoginConfirmed, LoginSection, LoginMade
<1>3. CASE World \/ UNCHANGED vars
    <2>1. UNCHANGED <<islogin, storageStatus, localdir, db, held, errmsg, was, m, pc, hasty>>
        BY <1>3 DEF World, vars, conds, world, data, own, past
    <2> QED BY <2>1 DEF IInv, LockInv, LogoutInv, AwayInv, Noticed, DbInv, ListInv, LiveDb,
                        EmptyMeansEmpty
<1> QED BY <1>1, <1>2, <1>3, ServerIInv, ControlIInv, WebIInv, ArriveIInv DEF Next

LEMMA Invariant ==
    ASSUME Alone PROVE Spec => [](TypeOK /\ IInv)
<1>1. IInv /\ TypeOK /\ [Next]_vars => IInv'
    BY Alone, StepIInv
<1> QED BY <1>1, InitIInv, TypeCorrect, PTL DEF Spec

\* While the conditions hold the database is open, so that
\* cloud_check_condition need not ask for it, and does not (web_api.c:682): when
\* nobody logs in beside other requests and no sqlite3_open fails.
THEOREM ReadyHasDatabase ==
    ASSUME Alone, Opens PROVE Spec => []DbReady
<1>1. TypeOK /\ IInv => DbReady
    BY Opens, SMT DEF TypeOK, IInv, DbInv, DbReady
<1> QED BY Alone, <1>1, Invariant, PTL

\* When nobody logs in beside other requests, the handle of a download is closed
\* under it by nothing but a logout whose second was too short: not by a Link
\* that takes up a login, and not by a logout both threads have noticed.
THEOREM DownloadKeepsDatabase ==
    ASSUME Alone PROVE Spec => []LiveDb
<1>1. TypeOK /\ IInv => LiveDb
    BY DEF IInv
<1> QED BY Alone, <1>1, Invariant, PTL

\* When nobody logs in beside other requests, a failed listing is taken for an
\* empty directory only after a logout whose second was too short, although
\* its message is in a handle that requests use as well.
THEOREM NoFalseEmpty ==
    ASSUME Alone PROVE Spec => []EmptyMeansEmpty
<1>1. TypeOK /\ IInv => EmptyMeansEmpty
    BY DEF IInv
<1> QED BY Alone, <1>1, Invariant, PTL

=============================================================================
