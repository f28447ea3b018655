------------------------------ MODULE HttpPool ------------------------------
(***************************************************************************)
(* The HTTP front end of main.c and the dispatcher of http.c.  The main    *)
(* thread accepts and reads one connection at a time and hands it, under   *)
(* m_thread, to an idle slot of mutiServer; the slot's worker runs the     *)
(* handler, all of them under m_mutexWeb except Login, and closes the      *)
(* descriptor.  Sections under m_thread are single steps.                  *)
(***************************************************************************)
EXTENDS Integers

CONSTANTS
    Workers,   \* slots of mutiServer (2 in the code)
    MaxFd,     \* descriptors left for connections
    Conn,      \* the connections clients make
    NoConn,
    Login,     \* connections that ask for opt=Login
    Stuck      \* those whose handler never returns

ASSUME WorkersAssumption == Workers \in Nat \ {0}
ASSUME MaxFdAssumption   == MaxFd \in Nat \ {0}
ASSUME ConnAssumption    == NoConn \notin Conn
ASSUME LoginAssumption   == Login \subseteq Conn
ASSUME StuckAssumption   == Stuck \subseteq Login

Worker == 1 .. Workers
Fd     == 1 .. MaxFd

VARIABLES
    table,     \* the process's descriptors: the connection behind each
    arrived,   \* connections accepted so far
    main,      \* the main thread: pc, cfd and the request it read
    slot,      \* mutiServer: status, fd and the request
    wpc,       \* where each worker stands
    webLock,   \* the worker that holds m_mutexWeb, 0 when free
    answers    \* <<connection, request answered on it>>

vars == <<table, arrived, main, slot, wpc, webLock, answers>>

AnyConn == Conn \cup {NoConn}
Opt     == {"Login", "web", "unknown"}

TypeOK ==
    /\ table \in [Fd -> AnyConn]
    /\ arrived \subseteq Conn
    /\ main \in [pc : {"accept", "recv", "alloc", "sleep"}, fd : Fd,
                 req : AnyConn, opt : Opt]
    /\ slot \in [Worker -> [status : {0, 1}, fd : Fd, req : AnyConn, opt : Opt]]
    /\ wpc \in [Worker -> {"check", "wait", "handle", "serve", "close"}]
    /\ webLock \in 0 .. Workers
    /\ answers \subseteq AnyConn \X AnyConn

Init ==
    /\ table = [f \in Fd |-> NoConn]
    /\ arrived = {}
    /\ main = [pc |-> "accept", fd |-> 1, req |-> NoConn, opt |-> "web"]
    /\ slot = [w \in Worker |-> [status |-> 0, fd |-> 1, req |-> NoConn, opt |-> "web"]]
    /\ wpc = [w \in Worker |-> "check"]
    /\ webLock = 0
    /\ answers = {}

-----------------------------------------------------------------------------
(***************************************************************************)
(* The main thread.                                                        *)
(***************************************************************************)

\* accept returns the lowest descriptor that is free; while none is, it fails.
tcp_accept(c) ==
    /\ main.pc = "accept"
    /\ c \notin arrived /\ arrived' = arrived \cup {c}
    /\ \E f \in Fd :
          /\ table[f] = NoConn /\ \A g \in Fd : g < f => table[g] # NoConn
          /\ table' = [table EXCEPT ![f] = c]
          /\ main' = [main EXCEPT !.pc = "recv", !.fd = f]
    /\ UNCHANGED <<slot, wpc, webLock, answers>>

\* What is sent on a descriptor reaches the connection behind it, or is lost.
Answer(f, req) ==
    answers' \in {answers, answers \cup {<<table[f], req>>}}

\* The client closed, recv timed out, or the URL has no opt= (error answer).
Refused ==
    /\ main.pc = "recv"
    /\ Answer(main.fd, table[main.fd])
    /\ table' = [table EXCEPT ![main.fd] = NoConn]
    /\ main' = [main EXCEPT !.pc = "accept"]
    /\ UNCHANGED <<arrived, slot, wpc, webLock>>

recv_request ==
    /\ main.pc = "recv"
    /\ \E opt \in Opt :
          /\ (opt = "Login") <=> (table[main.fd] \in Login)
          /\ main' = [main EXCEPT !.pc = "alloc", !.req = table[main.fd], !.opt = opt]
    /\ UNCHANGED <<table, arrived, slot, wpc, webLock, answers>>

Waiting == {w \in Worker : wpc[w] = "wait"}

\* Mutant of Woken: pthread_cond_signal instead of pthread_cond_broadcast.
Signalled == {w \in Waiting : \A v \in Waiting : v <= w}

Woken == Waiting

\* Mutant of CloseCfd: the close(cfd) that is commented out in main.c.
MainCloses == table' = [table EXCEPT ![main.fd] = NoConn]

\* After the hand-over main leaves the descriptor to the worker.
CloseCfd == UNCHANGED table

\* The first idle slot, and a broadcast; no idle slot: try again in 200 ms.
multi_server_alloctask ==
    /\ main.pc = "alloc"
    /\ \E w \in Worker :
          /\ slot[w].status = 0 /\ \A v \in Worker : v < w => slot[v].status = 1
          /\ slot' = [slot EXCEPT ![w] = [status |-> 1, fd |-> main.fd,
                                          req |-> main.req, opt |-> main.opt]]
    /\ wpc' = [w \in Worker |-> IF w \in Woken THEN "check" ELSE wpc[w]]
    /\ CloseCfd
    /\ main' = [main EXCEPT !.pc = "accept"]
    /\ UNCHANGED <<arrived, webLock, answers>>

NoThread ==
    /\ main.pc = "alloc"
    /\ \A w \in Worker : slot[w].status = 1
    /\ main' = [main EXCEPT !.pc = "sleep"]
    /\ UNCHANGED <<table, arrived, slot, wpc, webLock, answers>>

usleep ==
    /\ main.pc = "sleep"
    /\ main' = [main EXCEPT !.pc = "alloc"]
    /\ UNCHANGED <<table, arrived, slot, wpc, webLock, answers>>

(***************************************************************************)
(* A worker (thread_http).                                                 *)
(***************************************************************************)
Goto(w, pc) == wpc' = [wpc EXCEPT ![w] = pc]

thread_http(w) ==
    /\ wpc[w] = "check"
    /\ Goto(w, IF slot[w].status = 0 THEN "wait" ELSE "handle")
    /\ UNCHANGED <<table, arrived, main, slot, webLock, answers>>

\* pthread_cond_wait may return without a broadcast.
SpuriousWakeup(w) ==
    /\ wpc[w] = "wait"
    /\ Goto(w, "check")
    /\ UNCHANGED <<table, arrived, main, slot, webLock, answers>>

\* Mutants of NeedsLock: nobody takes m_mutexWeb; Login takes it as well.
NoneLocks(opt) == FALSE
AllLock(opt)   == opt # "unknown"

NeedsLock(opt) == opt = "web"

\* Find the handler; wait for m_mutexWeb where it is needed.
cloud_handle_web_request(w) ==
    /\ wpc[w] = "handle" /\ slot[w].opt # "unknown"
    /\ IF NeedsLock(slot[w].opt) THEN webLock = 0 /\ webLock' = w
                                 ELSE UNCHANGED webLock
    /\ Goto(w, "serve")
    /\ UNCHANGED <<table, arrived, main, slot, answers>>

UnknownOpt(w) ==
    /\ wpc[w] = "handle" /\ slot[w].opt = "unknown"
    /\ Answer(slot[w].fd, slot[w].req)
    /\ Goto(w, "close")
    /\ UNCHANGED <<table, arrived, main, slot, webLock>>

\* The handler ends: it has sent its answer, and m_mutexWeb is released.
handle_func(w) ==
    /\ wpc[w] = "serve"
    /\ Answer(slot[w].fd, slot[w].req)
    /\ webLock' = IF NeedsLock(slot[w].opt) THEN 0 ELSE webLock
    /\ Goto(w, "close")
    /\ UNCHANGED <<table, arrived, main, slot>>

\* Mutant of Idle: status is reset and the descriptor left open.
NotClosed(w) ==
    /\ slot' = [slot EXCEPT ![w].status = 0]
    /\ UNCHANGED table

\* close(fd) and status = 0 in one section of m_thread.
Idle(w) ==
    /\ table' = [table EXCEPT ![slot[w].fd] = NoConn]
    /\ slot' = [slot EXCEPT ![w].status = 0]

EndRequest(w) ==
    /\ wpc[w] = "close"
    /\ Idle(w)
    /\ Goto(w, "check")
    /\ UNCHANGED <<arrived, main, webLock, answers>>

-----------------------------------------------------------------------------
Main == \/ Refused \/ recv_request
        \/ multi_server_alloctask \/ NoThread \/ usleep

\* What worker w does when it is scheduled; a stuck handler does not end.
Work(w) == \/ thread_http(w)
           \/ cloud_handle_web_request(w) \/ UnknownOpt(w)
           \/ slot[w].req \notin Stuck /\ handle_func(w)
           \/ EndRequest(w)

Next ==
    \/ \E c \in Conn : tcp_accept(c)
    \/ Main
    \/ \E w \in Worker : Work(w) \/ SpuriousWakeup(w)

Spec == Init /\ [][Next]_vars

\* Every thread is scheduled.  Clients need not come, and pthread_cond_wait
\* need not wake up by itself.
FairSpec == Spec /\ WF_vars(Main) /\ \A w \in Worker : WF_vars(Work(w))

-----------------------------------------------------------------------------
(***************************************************************************)
(* Properties.                                                             *)
(***************************************************************************)

\* Seen from its clients, the pool is the service of WebService: no answer goes
\* to another client although descriptors are used again, none is sent twice,
\* and a connection waits, is taken by a worker, and is closed once.
Service == INSTANCE WebService WITH
    waiting <- IF main.pc = "accept" THEN NoConn ELSE table[main.fd],
    handler <- [w \in Worker |-> IF slot[w].status = 1 THEN table[slot[w].fd]
                                                       ELSE NoConn],
    closed  <- arrived \ {table[f] : f \in Fd}
ServiceSpec == Service!Spec

\* No descriptor is lost: each open one is main's or that of a busy slot.
NoLeak ==
    \A f \in Fd : table[f] # NoConn =>
        \/ main.pc # "accept" /\ main.fd = f
        \/ \E w \in Worker : slot[w].status = 1 /\ slot[w].fd = f

\* One web request is handled at a time, Login aside: what the handlers' own
\* data, and module DownTask, rely on.
WebSerial ==
    \A v, w \in Worker :
        wpc[v] = "serve" /\ wpc[w] = "serve"
        /\ slot[v].opt = "web" /\ slot[w].opt = "web" => v = w

\* As long as a worker is left, every accepted connection is closed, although
\* logins may be stuck and a worker may look at its slot at any moment.
AllClosed ==
    \A c \in Conn \ Stuck :
        c \in arrived ~> c \in arrived /\ \A f \in Fd : table[f] # c

(***************************************************************************)
(* The inductive invariant: who owns which descriptor, who holds           *)
(* m_mutexWeb, and which connections have had their answer.                *)
(***************************************************************************)
Busy(w) == slot[w].status = 1

\* A connection is behind one descriptor; a descriptor has one owner, which
\* has the request of the connection behind it.
Descriptors ==
    /\ \A f \in Fd : table[f] \in arrived \cup {NoConn}
    /\ \A f, g \in Fd : table[f] # NoConn /\ table[f] = table[g] => f = g
    /\ main.pc # "accept" =>
          /\ table[main.fd] # NoConn
          /\ main.pc # "recv" => main.req = table[main.fd]
    /\ \A w \in Worker : Busy(w) =>
          /\ table[slot[w].fd] # NoConn
          /\ slot[w].req = table[slot[w].fd]
          /\ main.pc # "accept" => slot[w].fd # main.fd
          /\ \A v \in Worker : Busy(v) /\ slot[v].fd = slot[w].fd => v = w

\* m_mutexWeb is held by the worker in a handler other than Login.
LockHeld ==
    /\ \A w \in Worker : wpc[w] \in {"handle", "serve", "close"} => Busy(w)
    /\ \A w \in Worker : wpc[w] = "serve" /\ slot[w].opt = "web" <=> webLock = w

HasAnswer(c) == \E r \in AnyConn : <<c, r>> \in answers

\* Only own requests were answered, and none whose handler is still to end.
Answers ==
    /\ \A c, r \in AnyConn : <<c, r>> \in answers => c = r /\ c \in arrived
    /\ main.pc # "accept" => ~HasAnswer(table[main.fd])
    /\ \A w \in Worker : Busy(w) /\ wpc[w] # "close" => ~HasAnswer(table[slot[w].fd])

IInv == TypeOK /\ Descriptors /\ NoLeak /\ LockHeld /\ Answers
=============================================================================
