--------------------------- MODULE HttpPool_proofs ---------------------------
(***************************************************************************)
(* Proofs about HttpPool, for any number of workers, descriptors and       *)
(* connections.                                                            *)
(***************************************************************************)
EXTENDS HttpPool, TLAPS

USE DEF Worker, Fd, AnyConn, Opt

-----------------------------------------------------------------------------
(***************************************************************************)
(* Type correctness.                                                       *)
(***************************************************************************)
LEMMA TypeInit == Init => TypeOK
  <1> USE WorkersAssumption, MaxFdAssumption
  <1> QED  BY DEF Init, TypeOK

LEMMA TypeStep == TypeOK /\ [Next]_vars => TypeOK'
  <1> SUFFICES ASSUME TypeOK, [Next]_vars PROVE TypeOK'
    OBVIOUS
  <1> USE DEF TypeOK, Goto
  <1>1. ASSUME NEW c \in Conn, tcp_accept(c) PROVE TypeOK'
    <2>1. PICK f \in Fd : /\ table' = [table EXCEPT ![f] = c]
                          /\ main' = [main EXCEPT !.pc = "recv", !.fd = f]
      BY <1>1 DEF tcp_accept
    <2>2. table' \in [Fd -> AnyConn]
      BY <2>1
    <2>3. main' \in [pc : {"accept", "recv", "alloc", "sleep"}, fd : Fd,
                     req : AnyConn, opt : Opt]
      BY <2>1
    <2> QED  BY <1>1, <2>2, <2>3 DEF tcp_accept
  <1>2. CASE Refused
    BY <1>2 DEF Refused, Answer
  <1>3. CASE recv_request
    <2>1. PICK opt \in Opt :
            main' = [main EXCEPT !.pc = "alloc", !.req = table[main.fd], !.opt = opt]
      BY <1>3 DEF recv_request
    <2>2. table[main.fd] \in AnyConn
      OBVIOUS
    <2>3. main' \in [pc : {"accept", "recv", "alloc", "sleep"}, fd : Fd,
                     req : AnyConn, opt : Opt]
      BY <2>1, <2>2
    <2> QED  BY <1>3, <2>3 DEF recv_request
  <1>4. CASE multi_server_alloctask
    <2> DEFINE r == [status |-> 1, fd |-> main.fd, req |-> main.req, opt |-> main.opt]
    <2>1. r \in [status : {0, 1}, fd : Fd, req : AnyConn, opt : Opt]
      OBVIOUS
    <2>2. PICK w \in Worker : slot' = [slot EXCEPT ![w] = r]
      BY <1>4 DEF multi_server_alloctask
    <2> HIDE DEF r
    <2>3. slot' \in [Worker -> [status : {0, 1}, fd : Fd, req : AnyConn, opt : Opt]]
      BY <2>1, <2>2
    <2>4. main' = [main EXCEPT !.pc = "accept"]
          /\ UNCHANGED <<table, arrived, webLock, answers>>
      BY <1>4 DEF multi_server_alloctask, CloseCfd
    <2>5. wpc' \in [Worker -> {"check", "wait", "handle", "serve", "close"}]
      BY <1>4 DEF multi_server_alloctask
    <2> QED  BY <2>3, <2>4, <2>5
  <1>5. CASE NoThread
    BY <1>5 DEF NoThread
  <1>6. CASE usleep
    BY <1>6 DEF usleep
  <1>7. ASSUME NEW w \in Worker, Work(w) PROVE TypeOK'
    <2>1. CASE thread_http(w)
      BY <2>1 DEF thread_http
    <2>2. CASE cloud_handle_web_request(w)
      BY <2>2, WorkersAssumption DEF cloud_handle_web_request
    <2>3. CASE UnknownOpt(w)
      BY <2>3 DEF UnknownOpt, Answer
    <2>4. CASE handle_func(w)
      BY <2>4, WorkersAssumption DEF handle_func, Answer
    <2>5. CASE EndRequest(w)
      BY <2>5 DEF EndRequest, Idle
    <2> QED  BY <1>7, <2>1, <2>2, <2>3, <2>4, <2>5 DEF Work
  <1>8. ASSUME NEW w \in Worker, SpuriousWakeup(w) PROVE TypeOK'
    BY <1>8 DEF SpuriousWakeup
  <1>9. CASE UNCHANGED vars
    BY <1>9 DEF vars
  <1> QED
    BY <1>1, <1>2, <1>3, <1>4, <1>5, <1>6, <1>7, <1>8, <1>9 DEF Next, Main

\* Every variable keeps its type: m_mutexWeb is held by a worker or free, and
\* each slot has a status, a descriptor and a request.
THEOREM TypeCorrect == Spec => []TypeOK
  <1> QED  BY TypeInit, TypeStep, PTL DEF Spec

-----------------------------------------------------------------------------
(***************************************************************************)
(* The inductive invariant.                                                *)
(***************************************************************************)
LEMMA IInvInit == Init => IInv
  <1> SUFFICES ASSUME Init PROVE IInv
    OBVIOUS
  <1>1. TypeOK
    BY TypeInit
  <1>2. Descriptors /\ NoLeak /\ Answers
    BY DEF Init, Descriptors, NoLeak, Answers, Busy, HasAnswer
  <1>3. LockHeld
    BY WorkersAssumption DEF Init, LockHeld, Busy
  <1> QED  BY <1>1, <1>2, <1>3 DEF IInv

\* An answer to the request of the connection itself adds no other pair.
LEMMA AnswerOnce ==
  ASSUME NEW f \in Fd, Answer(f, table[f])
  PROVE  \A c, r \in AnyConn :
            <<c, r>> \in answers' => \/ <<c, r>> \in answers
                                     \/ c = table[f] /\ r = table[f]
  BY DEF Answer

LEMMA AcceptStep ==
  ASSUME IInv, NEW c \in Conn, tcp_accept(c) PROVE IInv'
  <1> USE DEF IInv
  <1>1. TypeOK'
    BY TypeStep DEF Next
  <1>2. PICK f \in Fd :
          /\ table[f] = NoConn
          /\ table' = [table EXCEPT ![f] = c]
          /\ main' = [main EXCEPT !.pc = "recv", !.fd = f]
    BY DEF tcp_accept
  <1>3. main'.pc = "recv" /\ main'.fd = f /\ table'[f] = c /\ c # NoConn
        /\ \A g \in Fd : g # f => table'[g] = table[g]
    BY <1>2, ConnAssumption DEF TypeOK
  <1>4. UNCHANGED <<slot, wpc, webLock, answers>> /\ arrived' = arrived \cup {c}
        /\ c \notin arrived /\ main.pc = "accept"
    BY DEF tcp_accept
  <1>5. \A w \in Worker : Busy(w) => slot[w].fd # f /\ slot[w].fd \in Fd
    BY <1>2 DEF Descriptors, TypeOK, Busy
  <1>6. Descriptors'
    <2>1. \A g \in Fd : table'[g] \in arrived' \cup {NoConn}
      BY <1>3, <1>4 DEF Descriptors
    <2>2. \A g, h \in Fd : table'[g] # NoConn /\ table'[g] = table'[h] => g = h
      BY <1>3, <1>4, ConnAssumption DEF Descriptors
    <2> QED  BY <1>3, <1>4, <1>5, <2>1, <2>2 DEF Descriptors, Busy
  <1>7. NoLeak'
    BY <1>3, <1>4 DEF NoLeak
  <1>8. LockHeld'
    BY <1>4 DEF LockHeld, Busy
  <1>9. Answers'
    BY <1>3, <1>4, <1>5 DEF Answers, HasAnswer, Busy
  <1> QED  BY <1>1, <1>6, <1>7, <1>8, <1>9

LEMMA RefusedStep ==
  ASSUME IInv, Refused PROVE IInv'
  <1> USE DEF IInv
  <1>1. TypeOK'
    BY TypeStep DEF Next, Main
  <1> DEFINE f == main.fd
  <1>2. f \in Fd /\ main.pc = "recv" /\ main'.pc = "accept" /\ table'[f] = NoConn
        /\ \A g \in Fd : g # f => table'[g] = table[g]
    BY DEF Refused, TypeOK
  <1>3. UNCHANGED <<arrived, slot, wpc, webLock>> /\ Answer(f, table[f])
    BY DEF Refused
  <1>4. table[f] # NoConn /\ ~HasAnswer(table[f]) /\ table[f] \in arrived
    BY <1>2 DEF Descriptors, Answers
  <1>5. \A c, r \in AnyConn : <<c, r>> \in answers' =>
            <<c, r>> \in answers \/ (c = table[f] /\ r = table[f])
    <2> HIDE DEF f
    <2> QED  BY <1>2, <1>3, AnswerOnce
  <1>6. \A w \in Worker : Busy(w) => slot[w].fd # f /\ slot[w].fd \in Fd
                                     /\ table[slot[w].fd] # table[f]
                                     /\ table[slot[w].fd] \in AnyConn
    BY <1>2 DEF Descriptors, TypeOK, Busy
  <1> HIDE DEF f
  <1>7. Descriptors'
    <2>1. \A g \in Fd : table'[g] \in arrived' \cup {NoConn}
      BY <1>2, <1>3 DEF Descriptors
    <2>2. \A g, h \in Fd : table'[g] # NoConn /\ table'[g] = table'[h] => g = h
      BY <1>2 DEF Descriptors
    <2> QED  BY <1>2, <1>3, <1>6, <2>1, <2>2 DEF Descriptors, Busy
  <1>8. NoLeak'
    BY <1>2, <1>3 DEF NoLeak, f
  <1>9. LockHeld'
    BY <1>3 DEF LockHeld, Busy
  <1>10. Answers'
    <2>1. \A c, r \in AnyConn : <<c, r>> \in answers' => c = r /\ c \in arrived'
      BY <1>3, <1>4, <1>5 DEF Answers
    <2>2. ASSUME NEW w \in Worker, Busy(w)', wpc'[w] # "close"
          PROVE  ~HasAnswer(table[slot[w].fd])'
      <3>1. Busy(w) /\ wpc[w] # "close" /\ slot'[w] = slot[w]
        BY <2>2, <1>3 DEF Busy
      <3>2. ~HasAnswer(table[slot[w].fd])
        BY <3>1 DEF Answers
      <3>3. table'[slot'[w].fd] = table[slot[w].fd]
        BY <3>1, <1>2, <1>6
      <3> QED  BY <3>1, <3>2, <3>3, <1>5, <1>6 DEF HasAnswer
    <2> QED  BY <1>2, <2>1, <2>2 DEF Answers
  <1> QED  BY <1>1, <1>7, <1>8, <1>9, <1>10

LEMMA RequestStep ==
  ASSUME IInv, recv_request PROVE IInv'
  <1> USE DEF IInv
  <1>1. TypeOK'
    BY TypeStep DEF Next, Main
  <1>2. main.pc = "recv" /\ main'.pc = "alloc" /\ main'.fd = main.fd
        /\ main'.req = table[main.fd]
    BY DEF recv_request, TypeOK
  <1>3. UNCHANGED <<table, arrived, slot, wpc, webLock, answers>>
    BY DEF recv_request
  <1>4. Descriptors' /\ NoLeak' /\ LockHeld' /\ Answers'
    BY <1>2, <1>3 DEF Descriptors, NoLeak, LockHeld, Answers, HasAnswer, Busy
  <1> QED  BY <1>1, <1>4

LEMMA AllocStep ==
  ASSUME IInv, multi_server_alloctask PROVE IInv'
  <1> USE DEF IInv
  <1>1. TypeOK'
    BY TypeStep DEF Next, Main
  <1> DEFINE r == [status |-> 1, fd |-> main.fd, req |-> main.req, opt |-> main.opt]
  <1>2. PICK w \in Worker : slot[w].status = 0 /\ slot' = [slot EXCEPT ![w] = r]
    BY DEF multi_server_alloctask
  <1>3. r.status = 1 /\ r.fd = main.fd /\ r.req = main.req
    OBVIOUS
  <1> HIDE DEF r
  <1>4. slot'[w] = r /\ \A v \in Worker : v # w => slot'[v] = slot[v]
    BY <1>2 DEF TypeOK
  <1>5. UNCHANGED <<table, arrived, webLock, answers>>
        /\ main.pc = "alloc" /\ main'.pc = "accept" /\ main.fd \in Fd
    BY DEF multi_server_alloctask, CloseCfd, TypeOK
  <1>6. ~Busy(w) /\ Busy(w)' /\ \A v \in Worker : v # w => (Busy(v)' <=> Busy(v))
    BY <1>2, <1>3, <1>4 DEF Busy
  <1>7. \A v \in Worker : wpc'[v] = wpc[v] \/ (wpc[v] = "wait" /\ wpc'[v] = "check")
    BY DEF multi_server_alloctask, Woken, Waiting, TypeOK
  <1>8. table[main.fd] # NoConn /\ main.req = table[main.fd]
        /\ ~HasAnswer(table[main.fd])
    BY <1>5 DEF Descriptors, Answers
  <1>9. Descriptors'
    <2>1. \A f \in Fd : table'[f] \in arrived' \cup {NoConn}
      BY <1>5 DEF Descriptors
    <2>2. \A f, g \in Fd : table'[f] # NoConn /\ table'[f] = table'[g] => f = g
      BY <1>5 DEF Descriptors
    <2>3. ASSUME NEW v \in Worker, Busy(v)'
          PROVE  /\ table'[slot'[v].fd] # NoConn
                 /\ slot'[v].req = table'[slot'[v].fd]
                 /\ \A u \in Worker : Busy(u)' /\ slot'[u].fd = slot'[v].fd => u = v
      BY <2>3, <1>3, <1>4, <1>5, <1>6, <1>8 DEF Descriptors
    <2> QED  BY <1>5, <2>1, <2>2, <2>3 DEF Descriptors
  <1>10. NoLeak'
    <2>1. ASSUME NEW f \in Fd, table'[f] # NoConn
          PROVE  \E v \in Worker : slot'[v].status = 1 /\ slot'[v].fd = f
      <3>1. CASE f = main.fd
        BY <3>1, <1>3, <1>4
      <3>2. CASE f # main.fd
        BY <3>2, <2>1, <1>4, <1>5, <1>2 DEF NoLeak
      <3> QED  BY <3>1, <3>2
    <2> QED  BY <2>1 DEF NoLeak
  <1>11. LockHeld'
    <2>1. wpc[w] \notin {"handle", "serve", "close"}
          /\ wpc'[w] \notin {"handle", "serve", "close"}
      BY <1>6, <1>7 DEF LockHeld, TypeOK
    <2>2. \A v \in Worker : wpc'[v] \in {"handle", "serve", "close"} =>
              v # w /\ wpc[v] = wpc'[v]
      BY <2>1, <1>7
    <2>3. \A v \in Worker : wpc'[v] \in {"handle", "serve", "close"} => Busy(v)'
      BY <2>2, <1>6 DEF LockHeld
    <2>4. \A v \in Worker : wpc'[v] = "serve" /\ slot'[v].opt = "web" <=>
                            wpc[v] = "serve" /\ slot[v].opt = "web"
      BY <2>1, <2>2, <1>4, <1>7
    <2> QED  BY <2>3, <2>4, <1>5 DEF LockHeld
  <1>12. Answers'
    <2>1. ASSUME NEW v \in Worker, Busy(v)', wpc'[v] # "close"
          PROVE  ~HasAnswer(table[slot'[v].fd])
      <3>1. CASE v = w
        BY <3>1, <1>3, <1>4, <1>8
      <3>2. CASE v # w
        BY <3>2, <2>1, <1>4, <1>6, <1>7 DEF Answers
      <3> QED  BY <3>1, <3>2
    <2> QED  BY <1>5, <2>1 DEF Answers, HasAnswer
  <1> QED  BY <1>1, <1>9, <1>10, <1>11, <1>12

LEMMA SleepStep ==
  ASSUME IInv, NoThread \/ usleep PROVE IInv'
  <1> USE DEF IInv
  <1>1. TypeOK'
    BY TypeStep DEF Next, Main
  <1>2. main.pc \in {"alloc", "sleep"} /\ main'.pc \in {"alloc", "sleep"}
        /\ main'.fd = main.fd /\ main'.req = main.req
    BY DEF NoThread, usleep, TypeOK
  <1>3. UNCHANGED <<table, arrived, slot, wpc, webLock, answers>>
    BY DEF NoThread, usleep
  <1> QED
    BY <1>1, <1>2, <1>3 DEF Descriptors, NoLeak, LockHeld, Answers, HasAnswer, Busy

\* A worker looks at its slot, with or without a broadcast.
LEMMA LookStep ==
  ASSUME IInv, NEW w \in Worker, thread_http(w) \/ SpuriousWakeup(w) PROVE IInv'
  <1> USE DEF IInv
  <1>1. TypeOK'
    BY TypeStep DEF Next, Work
  <1>2. UNCHANGED <<table, arrived, main, slot, webLock, answers>>
    BY DEF thread_http, SpuriousWakeup
  <1>3. /\ wpc[w] \in {"check", "wait"}
        /\ \/ wpc'[w] \in {"check", "wait"}
           \/ wpc'[w] = "handle" /\ slot[w].status = 1
        /\ \A v \in Worker : v # w => wpc'[v] = wpc[v]
    BY DEF thread_http, SpuriousWakeup, Goto, TypeOK
  <1>4. Descriptors' /\ NoLeak'
    BY <1>2 DEF Descriptors, NoLeak, Busy
  <1>5. LockHeld'
    <2>1. \A v \in Worker : wpc'[v] \in {"handle", "serve", "close"} => Busy(v)'
      BY <1>2, <1>3 DEF LockHeld, Busy
    <2>2. \A v \in Worker : (wpc'[v] = "serve") <=> (wpc[v] = "serve")
      BY <1>3
    <2> QED  BY <1>2, <2>1, <2>2 DEF LockHeld
  <1>6. Answers'
    <2>1. \A v \in Worker : wpc'[v] # "close" => wpc[v] # "close"
      BY <1>3
    <2> QED  BY <1>2, <2>1 DEF Answers, HasAnswer, Busy
  <1> QED  BY <1>1, <1>4, <1>5, <1>6

LEMMA LockStep ==
  ASSUME IInv, NEW w \in Worker, cloud_handle_web_request(w) PROVE IInv'
  <1> USE DEF IInv
  <1>1. TypeOK'
    BY TypeStep DEF Next, Work
  <1>2. UNCHANGED <<table, arrived, main, slot, answers>>
        /\ wpc[w] = "handle" /\ wpc'[w] = "serve"
        /\ \A v \in Worker : v # w => wpc'[v] = wpc[v]
    BY DEF cloud_handle_web_request, Goto, TypeOK
  <1>3. Descriptors' /\ NoLeak'
    BY <1>2 DEF Descriptors, NoLeak, Busy
  <1>4. LockHeld'
    <2>1. \A v \in Worker : wpc'[v] \in {"handle", "serve", "close"} => Busy(v)'
      BY <1>2 DEF LockHeld, Busy
    <2>2. CASE slot[w].opt = "web"
      <3>1. webLock = 0 /\ webLock' = w
        BY <2>2 DEF cloud_handle_web_request, NeedsLock
      <3>2. \A v \in Worker : ~(wpc[v] = "serve" /\ slot[v].opt = "web")
        BY <3>1 DEF LockHeld
      <3> QED  BY <1>2, <2>1, <2>2, <3>1, <3>2 DEF LockHeld
    <2>3. CASE slot[w].opt # "web"
      <3>1. webLock' = webLock
        BY <2>3 DEF cloud_handle_web_request, NeedsLock
      <3>2. \A v \in Worker : wpc'[v] = "serve" /\ slot'[v].opt = "web" <=>
                              wpc[v] = "serve" /\ slot[v].opt = "web"
        BY <1>2, <2>3
      <3> QED  BY <2>1, <3>1, <3>2 DEF LockHeld
    <2> QED  BY <2>2, <2>3
  <1>5. Answers'
    BY <1>2 DEF Answers, HasAnswer, Busy
  <1> QED  BY <1>1, <1>3, <1>4, <1>5

\* The two steps in which a worker answers.
LEMMA AnswerStep ==
  ASSUME IInv, NEW w \in Worker, UnknownOpt(w) \/ handle_func(w) PROVE IInv'
  <1> USE DEF IInv
  <1>1. TypeOK'
    <2>1. TypeOK /\ (\E v \in Worker : UnknownOpt(v) \/ handle_func(v)) => TypeOK'
      BY WorkersAssumption DEF TypeOK, UnknownOpt, handle_func, Answer, Goto
    <2> QED  BY <2>1
  <1>2. UNCHANGED <<table, arrived, main, slot>>
        /\ wpc[w] \in {"handle", "serve"} /\ wpc'[w] = "close"
        /\ Answer(slot[w].fd, slot[w].req)
        /\ \A v \in Worker : v # w => wpc'[v] = wpc[v]
    BY DEF UnknownOpt, handle_func, Goto, TypeOK
  <1> DEFINE f == slot[w].fd
  <1>3. Busy(w) /\ f \in Fd
    BY <1>2 DEF LockHeld, TypeOK
  <1>4. table[f] # NoConn /\ slot[w].req = table[f] /\ table[f] \in arrived
    BY <1>3 DEF Descriptors
  <1>5. /\ main.pc # "accept" => main.fd \in Fd /\ table[main.fd] \in AnyConn
                                 /\ table[main.fd] # table[f]
        /\ \A v \in Worker : v # w /\ Busy(v) =>
              table[slot[v].fd] \in AnyConn /\ table[slot[v].fd] # table[f]
    BY <1>3, <1>4 DEF Descriptors, TypeOK
  <1> HIDE DEF f
  <1>6. \A c, r \in AnyConn : <<c, r>> \in answers' =>
            <<c, r>> \in answers \/ (c = table[f] /\ r = table[f])
    BY <1>2, <1>3, <1>4, AnswerOnce DEF f
  <1>7. Descriptors' /\ NoLeak'
    BY <1>2 DEF Descriptors, NoLeak, Busy
  <1>8. LockHeld'
    <2>1. \A v \in Worker : wpc'[v] \in {"handle", "serve", "close"} => Busy(v)'
      BY <1>2, <1>3 DEF LockHeld, Busy
    <2>2. CASE UnknownOpt(w)
      <3>1. webLock' = webLock /\ wpc[w] = "handle"
        BY <2>2 DEF UnknownOpt
      <3> QED  BY <1>2, <2>1, <3>1 DEF LockHeld
    <2>3. CASE handle_func(w) /\ slot[w].opt = "web"
      <3>1. webLock' = 0 /\ wpc[w] = "serve"
        BY <2>3 DEF handle_func, NeedsLock
      <3>2. \A v \in Worker : v # w => ~(wpc[v] = "serve" /\ slot[v].opt = "web")
        BY <2>3, <3>1 DEF LockHeld
      <3>3. \A v \in Worker : webLock' # v
        BY <3>1
      <3> QED  BY <1>2, <2>1, <3>2, <3>3 DEF LockHeld
    <2>4. CASE handle_func(w) /\ slot[w].opt # "web"
      <3>1. webLock' = webLock
        BY <2>4 DEF handle_func, NeedsLock
      <3>2. \A v \in Worker : wpc'[v] = "serve" /\ slot'[v].opt = "web" <=>
                              wpc[v] = "serve" /\ slot[v].opt = "web"
        BY <1>2, <2>4
      <3> QED  BY <2>1, <3>1, <3>2 DEF LockHeld
    <2> QED  BY <2>2, <2>3, <2>4
  <1>9. Answers'
    <2>1. \A c, r \in AnyConn : <<c, r>> \in answers' => c = r /\ c \in arrived'
      BY <1>2, <1>4, <1>6 DEF Answers
    <2>2. main'.pc # "accept" => ~HasAnswer(table[main.fd])'
      BY <1>2, <1>5, <1>6 DEF Answers, HasAnswer
    <2>3. ASSUME NEW v \in Worker, Busy(v)', wpc'[v] # "close"
          PROVE  ~HasAnswer(table[slot[v].fd])'
      <3>1. v # w /\ Busy(v) /\ wpc[v] # "close"
        BY <2>3, <1>2 DEF Busy
      <3> QED  BY <3>1, <1>2, <1>5, <1>6 DEF Answers, HasAnswer
    <2> QED  BY <2>1, <2>2, <2>3 DEF Answers
  <1> QED  BY <1>1, <1>7, <1>8, <1>9

LEMMA EndStep ==
  ASSUME IInv, NEW w \in Worker, EndRequest(w) PROVE IInv'
  <1> USE DEF IInv
  <1>1. TypeOK'
    BY TypeStep DEF Next, Work
  <1> DEFINE f == slot[w].fd
  <1>2. UNCHANGED <<arrived, main, webLock, answers>>
        /\ wpc[w] = "close" /\ wpc'[w] = "check"
        /\ \A v \in Worker : v # w => wpc'[v] = wpc[v]
    BY DEF EndRequest, Goto, TypeOK
  <1>3. Busy(w) /\ f \in Fd
    BY <1>2 DEF LockHeld, TypeOK
  <1>4. table'[f] = NoConn /\ \A g \in Fd : g # f => table'[g] = table[g]
    BY <1>3 DEF EndRequest, Idle, TypeOK
  <1>5. slot'[w].status = 0 /\ \A v \in Worker : v # w => slot'[v] = slot[v]
    BY DEF EndRequest, Idle, TypeOK
  <1>6. /\ main.pc # "accept" => main.fd # f /\ main.fd \in Fd
        /\ \A v \in Worker : v # w /\ Busy(v) => slot[v].fd # f /\ slot[v].fd \in Fd
    BY <1>3 DEF Descriptors, TypeOK
  <1>7. \A v \in Worker : Busy(v)' => v # w /\ Busy(v) /\ slot'[v] = slot[v]
    BY <1>5 DEF Busy
  <1> HIDE DEF f
  <1>8. Descriptors'
    <2>1. \A g \in Fd : table'[g] \in arrived' \cup {NoConn}
      BY <1>2, <1>4 DEF Descriptors
    <2>2. \A g, h \in Fd : table'[g] # NoConn /\ table'[g] = table'[h] => g = h
      BY <1>4 DEF Descriptors
    <2>3. main'.pc # "accept" =>
             /\ table'[main'.fd] # NoConn
             /\ main'.pc # "recv" => main'.req = table'[main'.fd]
      BY <1>2, <1>4, <1>6 DEF Descriptors
    <2>4. ASSUME NEW v \in Worker, Busy(v)'
          PROVE  /\ table'[slot'[v].fd] # NoConn
                 /\ slot'[v].req = table'[slot'[v].fd]
                 /\ main'.pc # "accept" => slot'[v].fd # main'.fd
                 /\ \A u \in Worker : Busy(u)' /\ slot'[u].fd = slot'[v].fd => u = v
      BY <2>4, <1>2, <1>4, <1>6, <1>7 DEF Descriptors
    <2> QED  BY <2>1, <2>2, <2>3, <2>4 DEF Descriptors
  <1>9. NoLeak'
    BY <1>2, <1>4, <1>5 DEF NoLeak, f
  <1>10. LockHeld'
    BY <1>2, <1>5 DEF LockHeld, Busy
  <1>11. Answers'
    <2>1. main'.pc # "accept" => ~HasAnswer(table[main.fd])' 
      BY <1>2, <1>4, <1>6 DEF Answers, HasAnswer
    <2>2. ASSUME NEW v \in Worker, Busy(v)', wpc'[v] # "close"
          PROVE  ~HasAnswer(table[slot[v].fd])'
      <3>1. v # w /\ Busy(v) /\ slot'[v] = slot[v] /\ wpc[v] # "close"
        BY <2>2, <1>2, <1>7
      <3>2. table'[slot'[v].fd] = table[slot[v].fd]
        BY <3>1, <1>4, <1>6
      <3> QED  BY <3>1, <3>2, <1>2 DEF Answers, HasAnswer
    <2> QED  BY <1>2, <2>1, <2>2 DEF Answers
  <1> QED  BY <1>1, <1>8, <1>9, <1>10, <1>11

LEMMA IInvStep == IInv /\ [Next]_vars => IInv'
  <1> SUFFICES ASSUME IInv, [Next]_vars PROVE IInv'
    OBVIOUS
  <1>1. CASE UNCHANGED vars
    <2>1. UNCHANGED <<table, arrived, main, slot, wpc, webLock, answers>>
      BY <1>1 DEF vars
    <2>2. TypeOK'
      BY TypeStep DEF IInv
    <2>3. Descriptors' /\ NoLeak' /\ LockHeld'
      BY <2>1 DEF IInv, Descriptors, NoLeak, LockHeld, Busy
    <2>4. Answers'
      BY <2>1 DEF IInv, Answers, HasAnswer, Busy
    <2> QED  BY <2>2, <2>3, <2>4 DEF IInv
  <1>2. CASE \E c \in Conn : tcp_accept(c)
    BY <1>2, AcceptStep
  <1>3. CASE Main
    BY <1>3, RefusedStep, RequestStep, AllocStep, SleepStep DEF Main
  <1>4. ASSUME NEW w \in Worker, Work(w) \/ SpuriousWakeup(w) PROVE IInv'
    BY <1>4, LookStep, LockStep, AnswerStep, EndStep DEF Work
  <1> QED  BY <1>1, <1>2, <1>3, <1>4 DEF Next

LEMMA Invariance == Spec => []IInv
  BY IInvInit, IInvStep, PTL DEF Spec

\* No descriptor is leaked by main.c: each open one belongs to the main thread
\* or to a busy slot, whose worker will close it.
THEOREM NoDescriptorLost == Spec => []NoLeak
  <1>1. IInv => NoLeak
    BY DEF IInv
  <1> QED  BY <1>1, Invariance, PTL

\* m_mutexWeb does its work: no two handlers other than Login run at a time.
THEOREM OneWebHandler == Spec => []WebSerial
  <1>1. IInv => WebSerial
    BY DEF IInv, LockHeld, WebSerial
  <1> QED  BY <1>1, Invariance, PTL

-----------------------------------------------------------------------------
(***************************************************************************)
(* HttpPool implements WebService.  The mapped variables get names of      *)
(* their own, so that each step's lemma speaks of them only.               *)
(***************************************************************************)
waitingM == IF main.pc = "accept" THEN NoConn ELSE table[main.fd]
handlerM == [w \in Worker |-> IF slot[w].status = 1 THEN table[slot[w].fd]
                                                    ELSE NoConn]
closedM  == arrived \ {table[f] : f \in Fd}
abstract == <<waitingM, handlerM, closedM, answers>>

LEMMA MappedInit == Init => Service!Init
  <1> SUFFICES ASSUME Init PROVE Service!Init
    OBVIOUS
  <1>1. waitingM = NoConn /\ closedM = {} /\ answers = {}
    BY DEF Init, waitingM, closedM
  <1>2. handlerM = [w \in Worker |-> NoConn]
    BY DEF Init, handlerM
  <1> QED  BY <1>1, <1>2 DEF Service!Init, waitingM, handlerM, closedM

LEMMA MappedAccept ==
  ASSUME IInv, NEW c \in Conn, tcp_accept(c) PROVE Service!Arrive(c)
  <1> USE DEF IInv
  <1>1. PICK f \in Fd :
          /\ table[f] = NoConn
          /\ table' = [table EXCEPT ![f] = c]
          /\ main' = [main EXCEPT !.pc = "recv", !.fd = f]
    BY DEF tcp_accept
  <1>2. main'.pc = "recv" /\ main'.fd = f /\ table'[f] = c
        /\ \A g \in Fd : g # f => table'[g] = table[g]
    BY <1>1 DEF TypeOK
  <1>3. UNCHANGED <<slot, wpc, webLock, answers>> /\ arrived' = arrived \cup {c}
        /\ c \notin arrived /\ main.pc = "accept"
    BY DEF tcp_accept
  <1>4. \A w \in Worker : slot[w].status = 1 => slot[w].fd # f /\ slot[w].fd \in Fd
    BY <1>1 DEF Descriptors, TypeOK, Busy
  <1>5. waitingM = NoConn /\ waitingM' = c
    BY <1>2, <1>3 DEF waitingM
  <1>6. c \notin closedM /\ \A w \in Worker : handlerM[w] # c
    <2>1. \A g \in Fd : table[g] # c
      BY <1>3, ConnAssumption DEF Descriptors
    <2> QED  BY <2>1, <1>3, <1>4, ConnAssumption DEF closedM, handlerM
  <1>7. handlerM' = handlerM
    BY <1>2, <1>3, <1>4 DEF handlerM
  <1>8. closedM' = closedM
    <2>1. \A d \in Conn : (d \in closedM) <=> (d \in arrived /\ \A g \in Fd : table[g] # d)
      BY DEF closedM
    <2>2. \A d \in Conn : (d \in closedM') <=> (d \in arrived' /\ \A g \in Fd : table'[g] # d)
      BY DEF closedM
    <2>3. \A d \in Conn : (d \in closedM') <=> (d \in closedM)
      BY <2>1, <2>2, <1>1, <1>2, <1>3, ConnAssumption
    <2>4. closedM \subseteq Conn /\ closedM' \subseteq Conn
      BY <1>3 DEF TypeOK, closedM
    <2> QED  BY <2>3, <2>4
  <1> QED
    BY <1>3, <1>5, <1>6, <1>7, <1>8 DEF Service!Arrive, waitingM, handlerM, closedM

\* Closing the descriptor of a connection closes just that connection.
LEMMA MappedClose ==
  ASSUME IInv, NEW f \in Fd, table[f] # NoConn, UNCHANGED arrived,
         table' = [table EXCEPT ![f] = NoConn]
  PROVE  closedM' = closedM \cup {table[f]}
  <1> USE DEF IInv
  <1>1. table'[f] = NoConn /\ \A g \in Fd : g # f => table'[g] = table[g] /\ table[g] # table[f]
    BY DEF TypeOK, Descriptors
  <1>2. table[f] \in arrived /\ arrived \subseteq Conn
    BY DEF TypeOK, Descriptors
  <1>3. \A d \in Conn : (d \in closedM) <=> (d \in arrived /\ \A g \in Fd : table[g] # d)
    BY DEF closedM
  <1>4. \A d \in Conn : (d \in closedM') <=> (d \in arrived /\ \A g \in Fd : table'[g] # d)
    BY DEF closedM
  <1>5. \A d \in Conn : (d \in closedM') <=> (d \in closedM \/ d = table[f])
    BY <1>1, <1>2, <1>3, <1>4, ConnAssumption
  <1>6. closedM \subseteq Conn /\ closedM' \subseteq Conn
    BY <1>2 DEF closedM
  <1> QED  BY <1>2, <1>5, <1>6

LEMMA MappedRefused ==
  ASSUME IInv, Refused PROVE Service!Refuse
  <1> USE DEF IInv
  <1> DEFINE f == main.fd
  <1>1. f \in Fd /\ main.pc = "recv" /\ main'.pc = "accept"
        /\ table' = [table EXCEPT ![f] = NoConn]
        /\ UNCHANGED <<arrived, slot>> /\ Answer(f, table[f])
    BY DEF Refused, TypeOK
  <1>2. waitingM = table[f] /\ waitingM' = NoConn
    BY <1>1 DEF waitingM
  <1>3. table[f] # NoConn /\ ~HasAnswer(table[f])
    BY <1>1 DEF Descriptors, Answers
  <1>4. closedM' = closedM \cup {table[f]}
    BY <1>1, <1>3, MappedClose
  <1>5. handlerM' = handlerM
    <2>1. \A w \in Worker : slot[w].status = 1 => table'[slot[w].fd] = table[slot[w].fd]
      BY <1>1 DEF Descriptors, TypeOK, Busy
    <2> QED  BY <1>1, <2>1 DEF handlerM
  <1>6. answers' = answers \/ answers' = answers \cup {<<table[f], table[f]>>}
    BY <1>1 DEF Answer
  <1>7. ~ \E r \in Conn : <<table[f], r>> \in answers
    BY <1>3 DEF HasAnswer
  <1> HIDE DEF f
  <1> QED
    BY <1>2, <1>3, <1>4, <1>5, <1>6, <1>7
       DEF Service!Refuse, Service!Answered, waitingM, handlerM, closedM

LEMMA MappedAlloc ==
  ASSUME IInv, multi_server_alloctask PROVE \E w \in Worker : Service!Dispatch(w)
  <1> USE DEF IInv
  <1> DEFINE r == [status |-> 1, fd |-> main.fd, req |-> main.req, opt |-> main.opt]
  <1>1. PICK w \in Worker : slot[w].status = 0 /\ slot' = [slot EXCEPT ![w] = r]
    BY DEF multi_server_alloctask
  <1>2. r.status = 1 /\ r.fd = main.fd
    OBVIOUS
  <1> HIDE DEF r
  <1>3. slot'[w] = r /\ \A v \in Worker : v # w => slot'[v] = slot[v]
    BY <1>1 DEF TypeOK
  <1>4. UNCHANGED <<table, arrived, answers>> /\ main.pc = "alloc" /\ main'.pc = "accept"
    BY DEF multi_server_alloctask, CloseCfd, TypeOK
  <1>5. waitingM = table[main.fd] /\ waitingM' = NoConn /\ waitingM # NoConn
    BY <1>4 DEF waitingM, Descriptors
  <1>6. handlerM[w] = NoConn
    BY <1>1 DEF handlerM
  <1>7. handlerM' = [handlerM EXCEPT ![w] = waitingM]
    <2>1. handlerM' = [v \in Worker |-> IF v = w THEN table[main.fd] ELSE handlerM[v]]
      BY <1>2, <1>3, <1>4 DEF handlerM
    <2> QED  BY <2>1, <1>5 DEF handlerM
  <1>8. closedM' = closedM
    BY <1>4 DEF closedM
  <1> QED
    BY <1>4, <1>5, <1>6, <1>7, <1>8
       DEF Service!Dispatch, waitingM, handlerM, closedM

LEMMA MappedAnswer ==
  ASSUME IInv, NEW w \in Worker, UnknownOpt(w) \/ handle_func(w)
  PROVE  Service!Reply(w) \/ UNCHANGED abstract
  <1> USE DEF IInv
  <1>1. UNCHANGED <<table, arrived, main, slot>> /\ Answer(slot[w].fd, slot[w].req)
        /\ wpc[w] \in {"handle", "serve"}
    BY DEF UnknownOpt, handle_func
  <1>2. slot[w].status = 1 /\ table[slot[w].fd] # NoConn
        /\ slot[w].req = table[slot[w].fd] /\ ~HasAnswer(table[slot[w].fd])
    BY <1>1 DEF LockHeld, Descriptors, Answers, Busy
  <1>3. handlerM[w] = table[slot[w].fd]
    BY <1>2 DEF handlerM
  <1>4. waitingM' = waitingM /\ handlerM' = handlerM /\ closedM' = closedM
    BY <1>1 DEF waitingM, handlerM, closedM
  <1>5. CASE answers' = answers
    BY <1>4, <1>5 DEF abstract
  <1>6. CASE answers' = answers \cup {<<handlerM[w], handlerM[w]>>}
    <2>1. ~ \E r \in Conn : <<handlerM[w], r>> \in answers
      BY <1>2, <1>3 DEF HasAnswer
    <2> QED
      BY <1>2, <1>3, <1>4, <1>6, <2>1
         DEF Service!Reply, Service!Answered, waitingM, handlerM, closedM
  <1> QED  BY <1>1, <1>2, <1>3, <1>5, <1>6 DEF Answer

LEMMA MappedEnd ==
  ASSUME IInv, NEW w \in Worker, EndRequest(w) PROVE Service!Finish(w)
  <1> USE DEF IInv
  <1> DEFINE f == slot[w].fd
  <1>1. UNCHANGED <<arrived, main, answers>> /\ wpc[w] = "close"
        /\ table' = [table EXCEPT ![f] = NoConn]
        /\ slot' = [slot EXCEPT ![w].status = 0]
    BY DEF EndRequest, Idle
  <1>2. slot[w].status = 1 /\ f \in Fd /\ table[f] # NoConn
    BY <1>1 DEF LockHeld, Busy, Descriptors, TypeOK
  <1>3. slot'[w].status = 0 /\ \A v \in Worker : v # w => slot'[v] = slot[v]
    BY <1>1 DEF TypeOK
  <1>4. /\ main.pc # "accept" => table'[main.fd] = table[main.fd]
        /\ \A v \in Worker : v # w /\ slot[v].status = 1 =>
                             table'[slot[v].fd] = table[slot[v].fd]
    BY <1>1, <1>2 DEF Descriptors, Busy, TypeOK
  <1>5. handlerM[w] = table[f]
    BY <1>2 DEF handlerM
  <1>6. waitingM' = waitingM
    BY <1>1, <1>4 DEF waitingM
  <1>7. handlerM' = [handlerM EXCEPT ![w] = NoConn]
    <2>1. handlerM' = [v \in Worker |-> IF v = w THEN NoConn ELSE handlerM[v]]
      BY <1>3, <1>4 DEF handlerM
    <2> QED  BY <2>1 DEF handlerM
  <1>8. closedM' = closedM \cup {handlerM[w]}
    BY <1>1, <1>2, <1>5, MappedClose
  <1> HIDE DEF f
  <1> QED
    BY <1>1, <1>2, <1>5, <1>6, <1>7, <1>8
       DEF Service!Finish, waitingM, handlerM, closedM

\* The remaining steps change nothing a client can see.
LEMMA MappedQuiet ==
  ASSUME IInv,
         \/ recv_request \/ NoThread \/ usleep
         \/ \E w \in Worker : \/ thread_http(w) \/ SpuriousWakeup(w)
                              \/ cloud_handle_web_request(w)
         \/ UNCHANGED vars
  PROVE  UNCHANGED abstract
  <1>1. UNCHANGED <<table, arrived, slot, answers>>
    BY DEF recv_request, NoThread, usleep, thread_http, SpuriousWakeup,
           cloud_handle_web_request, vars
  <1>2. main'.fd = main.fd /\ (main'.pc = "accept" <=> main.pc = "accept")
    BY DEF recv_request, NoThread, usleep, thread_http, SpuriousWakeup,
           cloud_handle_web_request, vars, IInv, TypeOK
  <1> QED  BY <1>1, <1>2 DEF abstract, waitingM, handlerM, closedM

LEMMA MappedStep == IInv /\ [Next]_vars => Service!Next \/ UNCHANGED abstract
  <1> SUFFICES ASSUME IInv, [Next]_vars PROVE Service!Next \/ UNCHANGED abstract
    OBVIOUS
  <1>1. CASE \E c \in Conn : tcp_accept(c)
    BY <1>1, MappedAccept DEF Service!Next
  <1>2. CASE Main
    BY <1>2, MappedRefused, MappedAlloc, MappedQuiet DEF Main, Service!Next
  <1>3. ASSUME NEW w \in Worker, Work(w) \/ SpuriousWakeup(w)
        PROVE  Service!Next \/ UNCHANGED abstract
    BY <1>3, MappedAnswer, MappedEnd, MappedQuiet DEF Work, Service!Next
  <1>4. CASE UNCHANGED vars
    BY <1>4, MappedQuiet
  <1> QED  BY <1>1, <1>2, <1>3, <1>4 DEF Next

\* The thread pool implements the service: whatever the interleaving of main
\* and the workers, a client gets at most one answer, to its own request, and
\* its connection is closed once, by the one thread that has it.
THEOREM PoolImplementsService == Spec => ServiceSpec
  <1>1. Service!Next \/ UNCHANGED abstract <=>
        [Service!Next]_<<waitingM, handlerM, closedM, answers>>
    BY DEF abstract
  <1> QED
    BY <1>1, MappedInit, MappedStep, Invariance, PTL
       DEF Spec, ServiceSpec, Service!Spec, waitingM, handlerM, closedM
=============================================================================
