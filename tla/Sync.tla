-------------------------------- MODULE Sync --------------------------------
(***************************************************************************)
(* The conditions under which baidupcs works, and the threads that wait    *)
(* for them (web_api.c).  thread_server lists the cloud and watches quota, *)
(* network and disk; thread_down_control takes one download after the      *)
(* other; requests of the web client switch synchronisation on and off,    *)
(* log out, and find out that there is a login.  All of them share         *)
(* m_mutex, the database handle and one PCS handle, contexWeb.pcs, whose   *)
(* error message is the only thing that tells an empty directory from a    *)
(* failed listing.                                                         *)
(***************************************************************************)
EXTENDS Naturals

CONSTANTS
    Period,     \* rounds of thread_server between two looks at the quota (100)
    Again,      \* what count is set to after a failed listing (90)
    Requests,   \* kinds of requests that arrive
    MaxReq,     \* how many of them
    Faults      \* "api": calls fail at will; "open": sqlite3_open fails

ASSUME PeriodAssumption  == Period \in Nat \ {0}
ASSUME AgainAssumption   == Again \in 1 .. Period
ASSUME RequestAssumption == Requests \subseteq {"setsync", "link", "logout", "login"}
ASSUME MaxReqAssumption  == MaxReq \in Nat
ASSUME FaultsAssumption  == Faults \subseteq {"api", "open"}

\* web is the worker that holds m_mutexWeb; Login requests do without it.
Thread  == {"server", "control", "web", "login"}
Handler == {"web", "login"}

VARIABLES
    islogin, syncon,                \* fields of contexWeb
    networkStatus, storageStatus,   \* 0, or an error
    net,        \* 1 when the server can be reached
    disk,       \* the disk: not there, full, or with room
    localdir,   \* 1 when contexWeb.localdir has its path
    todo,       \* 1 when the table DOWN has a record to take
    session,    \* 1 when the cookies are a login
    db,         \* contexWeb.db: 1 when it is open
    held,       \* the database handle the control thread was called with
    errmsg,     \* 1 when contexWeb.pcs has an error message
    m,          \* who has m_mutex
    pc,         \* where each thread is
    count,      \* count of thread_server; Period stands for its multiples
    grown,      \* 1 when used grew by 10 MB since context->used was written
    was,        \* what the server answered to the last listing
    reqs,       \* requests so far
    hasty       \* 1 when the last logout went on before both threads noticed it

conds == <<islogin, syncon, networkStatus, storageStatus>>
world == <<net, disk, localdir, todo>>
data  == <<session, db, held, errmsg>>
own   == <<count, grown, was>>
past  == <<reqs, hasty>>
vars  == <<conds, world, data, m, pc, own, past>>

Disk      == {"none", "full", "room"}
ServerPc  == {"top", "wait", "connect", "round", "quota", "list", "listing", "judge",
              "emptydir", "queue", "failed", "network", "storage", "tick"}
ControlPc == {"top", "wait", "get", "convert", "down", "set"}
WebPc     == {"idle", "setsync", "link", "link2", "link3", "logout", "logout2", "closing",
              "login", "checking", "pcs_login", "islogin", "confirm", "section", "made"}

TypeOK ==
    /\ islogin \in 0 .. 1 /\ syncon \in 0 .. 1
    /\ networkStatus \in 0 .. 1 /\ storageStatus \in 0 .. 1
    /\ net \in 0 .. 1 /\ disk \in Disk /\ localdir \in 0 .. 1 /\ todo \in 0 .. 1
    /\ session \in 0 .. 1 /\ db \in 0 .. 1 /\ errmsg \in 0 .. 1
    /\ held \in {"none", "live", "dead"}
    /\ m \in Thread \union {"free"}
    /\ pc \in [Thread -> ServerPc \union ControlPc \union WebPc]
    /\ pc["server"] \in ServerPc /\ pc["control"] \in ControlPc
    /\ pc["web"] \in WebPc /\ pc["login"] \in WebPc
    /\ count \in 0 .. Period /\ grown \in 0 .. 1
    /\ was \in {"none", "files", "empty", "fail"}
    /\ reqs \in 0 .. MaxReq /\ hasty \in 0 .. 1

\* pcs_web_api_init: conditions and threads.  The path of the disk is that of
\* the configuration, or of a disk with room that was looked for.  A start with
\* a login has gone through login_successful before the first request is
\* served.
Init ==
    /\ syncon = 1 /\ net \in 0 .. 1 /\ networkStatus = 1 - net
    /\ session \in 0 .. 1 /\ islogin = session * net
    /\ disk \in Disk /\ localdir \in 0 .. 1 /\ storageStatus = 1 - localdir
    /\ localdir = 0 => disk # "room"
    /\ localdir = 1 /\ islogin = 1 => disk # "none"
    /\ db = islogin * localdir /\ todo \in 0 .. 1
    /\ held = "none" /\ errmsg = 0 /\ m = "free"
    /\ pc = [t \in Thread |-> IF t \in Handler THEN "idle" ELSE "top"]
    /\ count = 0 /\ grown = 0 /\ was = "none" /\ reqs = 0 /\ hasty = 0

\* The condition of cloud_check_condition(_nolock) and of both waits.
Ready == islogin = 1 /\ syncon = 1 /\ networkStatus = 0 /\ storageStatus = 0

Goto(t, l)  == pc' = [pc EXCEPT ![t] = l]
Free        == m = "free"
May(f)      == f \in Faults

\* A call on contexWeb.pcs clears the message when it begins (errmsg' = 0)
\* and sets one when it fails.
Begin       == errmsg' = 0
CanFail     == net = 0 \/ session = 0 \/ May("api")
CanSucceed  == net = 1 /\ session = 1
Fails       == CanFail /\ errmsg' = 1

\* sqlite3_close of contexWeb.db
Closed      == held' = IF held = "live" /\ db = 1 THEN "dead" ELSE held

-----------------------------------------------------------------------------
(***************************************************************************)
(* thread_server.                                                          *)
(***************************************************************************)
\* The wait on m_cond begins, or all conditions hold.
ServerEnter ==
    /\ pc["server"] = "top" /\ Free
    /\ Goto("server", IF Ready THEN "round" ELSE "wait")
    /\ UNCHANGED <<conds, world, data, m, own, past>>

\* Mutant of ServerWake: the network is not looked at in the wait.
BlindWake ==
    /\ pc["server"] = "wait" /\ Free
    /\ Goto("server", IF Ready THEN "round" ELSE "wait") /\ UNCHANGED m
    /\ count' = 0
    /\ UNCHANGED <<conds, world, data, grown, was, past>>

\* A broadcast, or 40 seconds have passed; m_mutex is taken again, and kept
\* for pcs_connect_server.
ServerWake ==
    /\ pc["server"] = "wait" /\ Free
    /\ IF networkStatus = 1
       THEN Goto("server", "connect") /\ m' = "server"
       ELSE Goto("server", IF Ready THEN "round" ELSE "wait") /\ UNCHANGED m
    /\ count' = 0
    /\ UNCHANGED <<conds, world, data, grown, was, past>>

\* pcs_connect_server is a conversation with a well-known host.
ServerConnect ==
    /\ pc["server"] = "connect"
    /\ networkStatus' = IF net = 1 THEN 0 ELSE networkStatus
    /\ UNCHANGED <<islogin, syncon, storageStatus, world, data, own, past>>
    /\ Goto("server", IF Ready' THEN "round" ELSE "wait")
    /\ m' = "free"

ServerRound ==
    /\ pc["server"] = "round"
    /\ IF count \in {0, Period} THEN Begin /\ Goto("server", "quota")
                                ELSE Goto("server", "tick") /\ UNCHANGED errmsg
    /\ UNCHANGED <<conds, world, session, db, held, m, own, past>>

\* The quota is known; a listing only when used has grown or count is 0.
ServerQuota ==
    /\ pc["server"] = "quota"
    /\ \/ /\ Fails /\ Goto("server", "top") /\ UNCHANGED grown
       \/ /\ CanSucceed /\ UNCHANGED errmsg
          /\ grown' = 0
          /\ Goto("server", IF grown = 1 \/ count = 0 THEN "list" ELSE "network")
    /\ UNCHANGED <<conds, world, session, db, held, m, count, was, past>>

\* combin_with_remote_dir_files: the conditions, then pcs_list.
ServerList ==
    /\ pc["server"] = "list"
    /\ IF Ready THEN Begin /\ Goto("server", "listing")
                ELSE Goto("server", "failed") /\ UNCHANGED errmsg
    /\ UNCHANGED <<conds, world, session, db, held, m, own, past>>

\* pcs_list returns files, or NULL: without a message for no files, with one
\* for a failure.
ServerListed ==
    /\ pc["server"] = "listing"
    /\ \/ CanSucceed /\ was' = "files" /\ Goto("server", "queue") /\ UNCHANGED errmsg
       \/ CanSucceed /\ was' = "empty" /\ Goto("server", "judge") /\ UNCHANGED errmsg
       \/ Fails /\ was' = "fail" /\ Goto("server", "judge")
    /\ UNCHANGED <<conds, world, session, db, held, m, count, grown, past>>

\* NULL: pcs_strerror is asked what it means.
ServerJudge ==
    /\ pc["server"] = "judge"
    /\ Goto("server", IF errmsg = 1 THEN "failed" ELSE "emptydir")
    /\ UNCHANGED <<conds, world, data, m, own, past>>

\* An empty directory is made on the disk; its path needs m_mutex.
ServerEmptyDir ==
    /\ pc["server"] = "emptydir" /\ Free
    /\ Goto("server", "network")
    /\ UNCHANGED <<conds, world, data, m, own, past>>

\* The entries are queued, one database section each; a condition that goes
\* and a closed database end the listing.  The next page or directory follows.
ServerQueue ==
    /\ pc["server"] = "queue"
    /\ \/ ~Ready /\ Goto("server", "failed") /\ UNCHANGED todo
       \/ Ready /\ db = 0 /\ Goto("server", "failed") /\ UNCHANGED todo
       \/ Ready /\ db = 1 /\ Goto("server", "list") /\ todo' \in {todo, 1}
       \/ Ready /\ db = 1 /\ Goto("server", "network") /\ todo' \in {todo, 1}
    /\ UNCHANGED <<conds, net, disk, localdir, data, m, own, past>>

ServerListFailed ==
    /\ pc["server"] = "failed"
    /\ count' = Again
    /\ Goto("server", "network")
    /\ UNCHANGED <<conds, world, data, m, grown, was, past>>

ServerNetwork ==
    /\ pc["server"] = "network"
    /\ networkStatus' = 1 - net
    /\ Goto("server", "storage")
    /\ UNCHANGED <<islogin, syncon, storageStatus, world, data, m, own, past>>

ServerStorage ==
    /\ pc["server"] = "storage"
    /\ storageStatus' = IF disk = "room" /\ localdir = 1 THEN 0 ELSE storageStatus
    /\ Goto("server", "tick")
    /\ UNCHANGED <<islogin, syncon, networkStatus, world, data, m, own, past>>

\* count++ and a pause
ServerTick ==
    /\ pc["server"] = "tick"
    /\ count' = IF count = Period THEN 1 ELSE count + 1
    /\ Goto("server", "top")
    /\ UNCHANGED <<conds, world, data, m, grown, was, past>>

thread_server ==
    \/ ServerEnter \/ ServerWake \/ ServerConnect \/ ServerRound \/ ServerQuota
    \/ ServerList \/ ServerListed \/ ServerJudge \/ ServerEmptyDir \/ ServerQueue
    \/ ServerListFailed \/ ServerNetwork \/ ServerStorage \/ ServerTick

-----------------------------------------------------------------------------
(***************************************************************************)
(* thread_down_control, around the download itself.                        *)
(***************************************************************************)
\* Mutant of ControlEnter: the wait has no time limit, and nothing broadcasts
\* when the network is back.
SleepsOn ==
    /\ pc["control"] = "top" /\ Free
    /\ Goto("control", IF Ready THEN "get" ELSE "wait")
    /\ UNCHANGED <<conds, world, data, m, own, past>>

\* At first, by a broadcast, or after 30 seconds.
ControlEnter ==
    /\ pc["control"] \in {"top", "wait"} /\ Free
    /\ Goto("control", IF Ready THEN "get" ELSE "wait")
    /\ UNCHANGED <<conds, world, data, m, own, past>>

\* get_download_task(context->db): nothing to do, or no database, or a record;
\* the download is given the handle of now.
ControlGet ==
    /\ pc["control"] = "get"
    /\ IF db = 1 /\ todo = 1
       THEN held' = "live" /\ Goto("control", "convert")
       ELSE UNCHANGED held /\ Goto("control", "top")
    /\ UNCHANGED <<conds, world, session, db, errmsg, m, own, past>>

\* pcs_convert_path_to_local: no path without a login.
ControlConvert ==
    /\ pc["control"] = "convert" /\ Free
    /\ Goto("control", IF islogin = 1 THEN "down" ELSE "set")
    /\ UNCHANGED <<conds, world, data, m, own, past>>

\* The download ends; when the disk was full it says so.
ControlDown ==
    /\ pc["control"] = "down"
    /\ storageStatus' \in {storageStatus, IF disk = "room" THEN storageStatus ELSE 1}
    /\ Goto("control", "set")
    /\ UNCHANGED <<islogin, syncon, networkStatus, world, data, m, own, past>>

\* set_download_task(context->db), which may be another handle by now, removes
\* the record or leaves it to be taken again; there may be others.
ControlSet ==
    /\ pc["control"] = "set"
    /\ held' = "none" /\ Goto("control", "top") /\ todo' \in 0 .. 1
    /\ UNCHANGED <<conds, net, disk, localdir, session, db, errmsg, m, own, past>>

thread_down_control ==
    ControlEnter \/ ControlGet \/ ControlConvert \/ ControlDown \/ ControlSet

-----------------------------------------------------------------------------
(***************************************************************************)
(* Requests.                                                               *)
(***************************************************************************)
Arrive(r) ==
    LET t == IF r = "login" THEN "login" ELSE "web" IN
    /\ pc[t] = "idle" /\ reqs < MaxReq
    /\ reqs' = reqs + 1
    /\ Goto(t, r)
    /\ UNCHANGED <<conds, world, data, m, own, hasty>>

\* Sync of http.c; a broadcast wakes the waiting threads.
pcs_web_api_setsync ==
    /\ pc["web"] = "setsync" /\ Free
    /\ syncon' = 1 - syncon
    /\ Goto("web", "idle")
    /\ UNCHANGED <<islogin, networkStatus, storageStatus, world, data, m, own, past>>

\* Link and GetInfo of http.c: the network ...
pcs_web_api_link ==
    /\ pc["web"] = "link"
    /\ networkStatus' = 1 - net
    /\ Goto("web", IF net = 1 THEN "link2" ELSE "idle")
    /\ UNCHANGED <<islogin, syncon, storageStatus, world, data, m, own, past>>

\* ... the disk ...
LinkStorage ==
    /\ pc["web"] = "link2"
    /\ Goto("web", IF storageStatus = 1 THEN "idle" ELSE "link3")
    /\ UNCHANGED <<conds, world, data, m, own, past>>

\* Mutant of LinkLogin: islogin is not asked, so that every Link makes the login
\* of a client that is logged in anew.
LinkAnyway ==
    /\ pc["web"] = "link3" /\ Free
    /\ Goto("web", "islogin")
    /\ UNCHANGED <<conds, world, data, m, own, past>>

\* ... and the login, which is taken up when the cookies turn out to be one.
LinkLogin ==
    /\ pc["web"] = "link3" /\ Free
    /\ Goto("web", IF islogin = 1 THEN "idle" ELSE "islogin")
    /\ UNCHANGED <<conds, world, data, m, own, past>>

\* LogOut of http.c: islogin is taken away first ...
pcs_web_api_logout ==
    /\ pc["web"] = "logout" /\ Free
    /\ islogin' = 0
    /\ Goto("web", "logout2")
    /\ UNCHANGED <<syncon, networkStatus, storageStatus, world, data, m, own, past>>

\* Both threads have noticed that there is no login.
Noticed == pc["server"] \in {"top", "wait", "connect"} /\ pc["control"] \in {"top", "wait"}

\* ... and a second later the rest follows, whether they have or not.
pcs_logout ==
    /\ pc["web"] = "logout2" /\ Free
    /\ hasty' = IF Noticed THEN 0 ELSE 1
    /\ m' = "web" /\ Begin
    /\ Goto("web", "closing")
    /\ UNCHANGED <<conds, world, session, db, held, own, reqs>>

\* pcs_logout succeeds or not; the database is closed in any case.
destory_database ==
    /\ pc["web"] = "closing"
    /\ \/ net = 1 /\ session' = 0 /\ UNCHANGED errmsg
       \/ CanFail /\ errmsg' = 1 /\ UNCHANGED session
    /\ Closed /\ db' = 0
    /\ m' = "free"
    /\ Goto("web", "idle")
    /\ UNCHANGED <<conds, world, own, past>>

\* Login of http.c: islogin is read without m_mutex ...
pcs_web_api_login ==
    /\ pc["login"] = "login"
    /\ IF islogin = 1 THEN Goto("login", "islogin") /\ UNCHANGED errmsg
                      ELSE Begin /\ Goto("login", "checking")
    /\ UNCHANGED <<conds, world, session, db, held, m, own, past>>

\* ... and written without it when pcs_islogin finds a login.
LoginChecked ==
    /\ pc["login"] = "checking"
    /\ \/ CanSucceed /\ islogin' = 1 /\ Goto("login", "islogin") /\ UNCHANGED errmsg
       \/ net = 1 /\ session = 0 /\ Goto("login", "pcs_login") /\ UNCHANGED <<islogin, errmsg>>
       \/ Fails /\ Goto("login", "idle") /\ UNCHANGED islogin
    /\ UNCHANGED <<syncon, networkStatus, storageStatus, world, session, db, held, m, own, past>>

\* thread_login: after a login the PCS handle is made anew from the cookies.
thread_login ==
    /\ pc["login"] = "pcs_login"
    /\ \/ net = 1 /\ session' = 1 /\ errmsg' = 0 /\ Goto("login", "islogin")
       \/ errmsg' = 1 /\ Goto("login", "idle") /\ UNCHANGED session
    /\ UNCHANGED <<conds, world, db, held, m, own, past>>

\* login_successful asks once more, before it takes m_mutex ...
login_successful(t) ==
    /\ pc[t] = "islogin"
    /\ Begin /\ Goto(t, "confirm")
    /\ UNCHANGED <<conds, world, session, db, held, m, own, past>>

LoginConfirmed(t) ==
    /\ pc[t] = "confirm"
    /\ \/ CanSucceed /\ Goto(t, "section") /\ UNCHANGED errmsg
       \/ net = 1 /\ session = 0 /\ Goto(t, "idle") /\ UNCHANGED errmsg
       \/ Fails /\ Goto(t, "idle")
    /\ UNCHANGED <<conds, world, session, db, held, m, own, past>>

Reachable == localdir = 1 /\ disk # "none"

\* Mutant of init_database: a missing disk is not noted.
NoDiskNoted(t) ==
    /\ localdir' = IF Reachable THEN 1 ELSE 0
    /\ IF Reachable THEN Closed /\ db' = 1 ELSE UNCHANGED <<db, held>>
    /\ UNCHANGED <<syncon, networkStatus, storageStatus>>

\* The open database is closed, and opened on the disk.  When that is not
\* there another one is looked for, whose size is never noted
\* (web_api.c:3002), so that none is found and the path is forgotten.
init_database(t) ==
    /\ localdir' = IF Reachable THEN 1 ELSE 0
    /\ IF Reachable
       THEN Closed /\ UNCHANGED storageStatus /\ db' \in {1, IF May("open") THEN 0 ELSE 1}
       ELSE storageStatus' = 1 /\ UNCHANGED <<db, held>>
    /\ UNCHANGED <<syncon, networkStatus>>

\* ... and keeps it over the requests that follow.
LoginSection(t) ==
    /\ pc[t] = "section" /\ Free
    /\ m' = t /\ islogin' = 1
    /\ init_database(t)
    /\ Begin /\ Goto(t, "made")
    /\ UNCHANGED <<net, disk, todo, session, own, past>>

\* Quota, meta and mkdir, whatever they return, and the broadcast.
LoginMade(t) ==
    /\ pc[t] = "made"
    /\ m' = "free" /\ errmsg' \in 0 .. 1
    /\ Goto(t, "idle")
    /\ UNCHANGED <<conds, world, session, db, held, own, past>>

web ==
    \/ pcs_web_api_setsync \/ pcs_web_api_link \/ LinkStorage \/ LinkLogin
    \/ pcs_web_api_logout \/ pcs_logout \/ destory_database
    \/ login_successful("web") \/ LoginConfirmed("web")
    \/ LoginSection("web") \/ LoginMade("web")

login ==
    \/ pcs_web_api_login \/ LoginChecked \/ thread_login
    \/ login_successful("login") \/ LoginConfirmed("login")
    \/ LoginSection("login") \/ LoginMade("login")

-----------------------------------------------------------------------------
\* The network and the disk come and go, files are put into the cloud, and the
\* client adds, starts, pauses and deletes downloads.
World ==
    /\ \/ net' = 1 - net /\ UNCHANGED <<disk, grown, todo>>
       \/ disk' \in Disk \ {disk} /\ UNCHANGED <<net, grown, todo>>
       \/ grown' = 1 /\ UNCHANGED <<net, disk, todo>>
       \/ db = 1 /\ todo' = 1 - todo /\ UNCHANGED <<net, disk, grown>>
    /\ UNCHANGED <<conds, localdir, data, m, pc, count, was, past>>

Next ==
    \/ thread_server \/ thread_down_control \/ web \/ login
    \/ \E r \in Requests : Arrive(r)
    \/ World

Spec == Init /\ [][Next]_vars

\* Every thread is scheduled and every call ends (time limits of libcurl and
\* of the sockets).  Requests are finitely many and the network and the disk
\* owe nothing.
FairSpec ==
    /\ Spec
    /\ WF_vars(thread_server) /\ WF_vars(thread_down_control)
    /\ WF_vars(web) /\ WF_vars(login)

-----------------------------------------------------------------------------
\* While the conditions hold the database is open: the control thread, which
\* looks at the conditions only, gets a record when there is one.
DbReady == islogin = 1 /\ storageStatus = 0 /\ Free => db = 1

\* The database handle a download was started with is not closed under it,
\* unless by a logout whose second was too short for the download to stop.
LiveDb == pc["control"] \in {"convert", "down"} => held = "live" \/ hasty = 1

\* A listing is taken for an empty directory only when the server said so
\* (pcs.h:244): no other call on the handle has cleared its error message,
\* unless that of a logout whose second was too short for the listing to end.
EmptyMeansEmpty == pc["server"] = "emptydir" => was = "empty" \/ hasty = 1

\* A network that is back for good is noticed, whether or not a client asks.
NetworkNoticed == <>[](net = 1) => <>[](networkStatus = 0)

\* When the conditions hold for good and the database is open, what there is to
\* download is downloaded: a record that stays in the table is taken.
DownloadsGoOn == <>[](Ready /\ db = 1) => []<>(todo = 0 \/ pc["control"] = "down")

\* A disk that is back for good is noticed ("Rest errno", web_api.c:2327).
StorageNoticed == <>[](disk = "room") => <>[](storageStatus = 0)

\* A failed listing is tried again ("Try after 5s", web_api.c:2307) unless
\* the conditions go.
ListRetried == pc["server"] = "failed" ~> (pc["server"] = "list" \/ ~Ready)

=============================================================================
