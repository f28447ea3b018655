----------------------------- MODULE Login_proofs -----------------------------
(***************************************************************************)
(* Proofs about Login: type correctness for any number of handlers, and    *)
(* for one handler at a time that logins leave nothing behind.             *)
(***************************************************************************)
EXTENDS Login, TLAPS

USE DEF Thread, Freed, Status, Request

-----------------------------------------------------------------------------
(***************************************************************************)
(* Sequences of length one and less: all the login FIFO ever holds here.   *)
(***************************************************************************)
LEMMA OneMessage ==
    ASSUME NEW S, NEW m \in S
    PROVE  /\ Append(<<>>, m) = <<m>> /\ Tail(<<m>>) = <<>> /\ Head(<<m>>) = m
           /\ <<m>> # <<>> /\ <<m>>[1] = m
  OBVIOUS

-----------------------------------------------------------------------------
(***************************************************************************)
(* Type correctness.                                                       *)
(***************************************************************************)
LEMMA TypeInit == Init => TypeOK
  BY ThreadsAssumption, MaxAskAssumption
     DEF Init, TypeOK, HandlerPc, ThreadPc, ThreadRec, HandlerRec

\* A handler goes on, with or without a status and a place to go to after a join.
LEMMA GotoType ==
    ASSUME TypeOK, NEW h \in Handlers, NEW pc \in HandlerPc
    PROVE  Goto(h, pc) => hnd' \in [Handlers -> HandlerRec]
  <1>1. hnd[h] \in HandlerRec
    BY DEF TypeOK
  <1>2. [hnd[h] EXCEPT !.pc = pc] \in HandlerRec
    BY <1>1 DEF HandlerRec
  <1> QED  BY <1>2 DEF TypeOK, Goto

LEMMA JoinType ==
    ASSUME TypeOK, NEW h \in Handlers, NEW s \in Status,
           NEW pc \in {"check", "reset", "finish"}
    PROVE  Join(h, s, pc) => hnd' \in [Handlers -> HandlerRec]
  <1>1. hnd[h] \in HandlerRec
    BY DEF TypeOK
  <1>2. [hnd[h] EXCEPT !.pc = "join", !.st = s, !.then = pc] \in HandlerRec
    BY <1>1 DEF HandlerRec, HandlerPc
  <1> QED  BY <1>2 DEF TypeOK, Join

\* The login thread goes on.
LEMMA RunType ==
    ASSUME TypeOK, NEW t \in Thread, NEW pc \in ThreadPc
    PROVE  thr' = [thr EXCEPT ![t].pc = pc] => thr' \in [Thread -> ThreadRec]
  <1>1. thr[t] \in ThreadRec
    BY DEF TypeOK
  <1>2. [thr[t] EXCEPT !.pc = pc] \in ThreadRec
    BY <1>1 DEF ThreadRec
  <1> QED  BY <1>2 DEF TypeOK

LEMMA EndType ==
    ASSUME TypeOK, NEW t \in Thread, NEW r \in {"ok", "fail"}
    PROVE  thr' = [thr EXCEPT ![t].pc = "end", ![t].res = r]
              => thr' \in [Thread -> ThreadRec]
  <1>1. thr[t] \in ThreadRec
    BY DEF TypeOK
  <1>2. [thr[t] EXCEPT !.pc = "end", !.res = r] \in ThreadRec
    BY <1>1 DEF ThreadRec, ThreadPc
  <1> QED  BY <1>2 DEF TypeOK

LEMMA HandlerType ==
    ASSUME TypeOK, NEW h \in Handlers, Handle(h)
    PROVE  TypeOK'
  <1> USE ThreadsAssumption DEF TypeOK, shared
  <1> DEFINE HndOK == hnd' \in [Handlers -> HandlerRec]
  <1>0. /\ \A pc \in HandlerPc : Goto(h, pc) => HndOK
        /\ \A s \in Status, pc \in {"check", "reset", "finish"} : Join(h, s, pc) => HndOK
    BY GotoType, JoinType
  <1>a. /\ hnd[h].st \in Status /\ hnd[h].then \in {"check", "reset", "finish"}
        /\ {"check", "reset", "finish", "idle", "cancel", "create", "spawn", "readlogin",
            "set2", "write", "readverify", "logout2", "joined"} \subseteq HandlerPc
    BY DEF HandlerRec, HandlerPc
  <1>b. ASSUME login # <<>>
        PROVE  Head(login).st \in Status /\ Tail(login) \in Seq(MessageRec)
    <2>1. Head(login) \in MessageRec /\ Tail(login) \in Seq(MessageRec)
      BY <1>b
    <2> QED  BY <2>1 DEF MessageRec
  <1>1. CASE pcs_web_api_login(h)
    BY <1>0, <1>a, <1>1 DEF pcs_web_api_login
  <1>2. CASE CancelEarlier(h)
    BY <1>0, <1>a, <1>2 DEF CancelEarlier, Cancelled
  <1>3. CASE pthread_join(h)
    <2>1. [hnd[h] EXCEPT !.pc = "joining", !.arg = tlogin] \in HandlerRec
      BY DEF HandlerRec, HandlerPc
    <2>2. HndOK
      BY <1>3, <2>1 DEF pthread_join
    <2> QED  BY <1>3, <2>2 DEF pthread_join
  <1>4. CASE Joined(h)
    <2>1. thr' \in [Thread -> ThreadRec]
      BY <1>4, RunType DEF Joined, ThreadPc
    <2> QED  BY <1>0, <1>a, <1>4, <2>1 DEF Joined
  <1>5. CASE ClearTlogin(h)
    BY <1>0, <1>a, <1>5 DEF ClearTlogin, Forgotten
  <1>6. CASE AlreadyLogin(h)
    BY <1>0, <1>a, <1>6 DEF AlreadyLogin
  <1>7. CASE NotConfirmed(h)
    BY <1>0, <1>a, <1>7 DEF NotConfirmed
  <1>8. CASE NotLogin(h)
    BY <1>0, <1>a, <1>8 DEF NotLogin
  <1>9. CASE SetLogin(h)
    BY <1>0, <1>a, <1>9 DEF SetLogin
  <1>10. CASE CreateThread(h)
    <2>1. PICK t \in Thread :
            /\ thr' = [thr EXCEPT ![t] = [pc |-> "pcs", asks |-> 0, res |-> "fail"]]
            /\ tlogin' = t
      BY <1>10 DEF CreateThread
    <2>2. [pc |-> "pcs", asks |-> 0, res |-> "fail"] \in ThreadRec
      BY MaxAskAssumption DEF ThreadRec, ThreadPc
    <2>3. thr' \in [Thread -> ThreadRec]
      BY <2>1, <2>2
    <2> QED  BY <1>0, <1>a, <1>10, <2>1, <2>3 DEF CreateThread
  <1>11. CASE CreateFails(h)
    BY <1>0, <1>a, <1>11 DEF CreateFails
  <1>12. CASE ReadLogin(h)
    BY <1>0, <1>a, <1>b, <1>12 DEF ReadLogin
  <1>13. CASE SetVerify(h)
    BY <1>0, <1>a, <1>13 DEF SetVerify
  <1>14. CASE Reset(h)
    BY <1>0, <1>a, <1>14 DEF Reset
  <1>15. CASE login_successful(h)
    BY <1>0, <1>a, <1>15 DEF login_successful
  <1>16. CASE pcs_web_api_verifycode(h)
    BY <1>0, <1>a, <1>16 DEF pcs_web_api_verifycode
  <1>17. CASE WriteCode(h)
    BY <1>0, <1>a, <1>17 DEF WriteCode
  <1>18. CASE ReadVerify(h)
    BY <1>0, <1>a, <1>b, <1>18 DEF ReadVerify
  <1>19. CASE pcs_web_api_logout(h)
    BY <1>0, <1>a, <1>19 DEF pcs_web_api_logout
  <1>20. CASE pcs_logout(h)
    BY <1>0, <1>a, <1>20 DEF pcs_logout
  <1> QED
    BY <1>1, <1>2, <1>3, <1>4, <1>5, <1>6, <1>7, <1>8, <1>9, <1>10, <1>11, <1>12,
       <1>13, <1>14, <1>15, <1>16, <1>17, <1>18, <1>19, <1>20 DEF Handle

LEMMA ThreadType ==
    ASSUME TypeOK, NEW t \in Thread, LoginThread(t)
    PROVE  TypeOK'
  <1> USE DEF TypeOK, Run, shared
  <1> DEFINE ThrOK == thr' \in [Thread -> ThreadRec]
  <1>0. /\ \A pc \in ThreadPc : thr' = [thr EXCEPT ![t].pc = pc] => ThrOK
        /\ \A r \in {"ok", "fail"} :
              thr' = [thr EXCEPT ![t].pc = "end", ![t].res = r] => ThrOK
    BY RunType, EndType
  <1>a. /\ thr[t].asks \in 0 .. MaxAsk /\ thr[t].res \in {"ok", "fail"}
        /\ {"pcs", "write", "clear", "dead"} \subseteq ThreadPc
    BY DEF ThreadRec, ThreadPc
  <1>b. \A s \in Status : [from |-> t, st |-> s] \in MessageRec
    BY DEF MessageRec
  <1>1. CASE pcs_login(t)
    <2>1. PICK r \in {"ok", "fail"} :
            /\ thr' = [thr EXCEPT ![t].pc = "end", ![t].res = r]
            /\ session' = IF r = "ok" THEN 1 ELSE session
      BY <1>1 DEF pcs_login
    <2>2. ThrOK
      BY <1>0, <2>1
    <2> QED  BY <1>1, <2>1, <2>2 DEF pcs_login
  <1>2. CASE verifycode(t)
    <2>1. login' \in Seq(MessageRec)
      BY <1>2, <1>b DEF verifycode
    <2>2. PICK w \in Waits : thr' = [thr EXCEPT ![t].pc = w, ![t].asks = @ + 1]
      BY <1>2 DEF verifycode
    <2>3. thr[t].asks + 1 \in 0 .. MaxAsk
      BY <1>2, <1>a, MaxAskAssumption DEF verifycode, MayAsk
    <2>4. [thr[t] EXCEPT !.pc = w, !.asks = @ + 1] \in ThreadRec
      BY <2>3, WaitsAssumption DEF ThreadRec, ThreadPc
    <2>5. ThrOK
      BY <2>2, <2>4
    <2> QED  BY <1>2, <2>1, <2>5 DEF verifycode
  <1>3. CASE input_str(t)
    <2>1. ASSUME NEW n \in {0, thr[t].asks}, thr' = [thr EXCEPT ![t].asks = n]
          PROVE  ThrOK
      <3>1. n \in 0 .. MaxAsk
        BY <1>a, MaxAskAssumption
      <3>2. [thr[t] EXCEPT !.asks = n] \in ThreadRec
        BY <3>1 DEF ThreadRec
      <3> QED  BY <2>1, <3>2
    <2>2. ThrOK
      BY <1>0, <1>3, <2>1 DEF input_str
    <2> QED  BY <1>3, <2>2 DEF input_str
  <1>4. CASE GiveUp(t)
    BY <1>0, <1>4 DEF GiveUp
  <1>5. CASE TakeCode(t)
    <2>1. ThrOK
      BY <1>0, <1>a, <1>5 DEF TakeCode
    <2> QED  BY <1>5, <2>1 DEF TakeCode
  <1>6. CASE get_mutex_login(t)
    BY <1>0, <1>a, <1>6 DEF get_mutex_login
  <1>7. CASE Notify(t)
    <2>1. login' \in Seq(MessageRec)
      BY <1>7, <1>a, <1>b DEF Notify
    <2> QED  BY <1>0, <1>a, <1>7, <2>1 DEF Notify
  <1>8. CASE thread_login(t)
    <2>1. ThrOK
      BY <1>0, <1>a, <1>8 DEF thread_login
    <2> QED  BY <1>8, <2>1 DEF thread_login, Cleared
  <1> QED
    BY <1>1, <1>2, <1>3, <1>4, <1>5, <1>6, <1>7, <1>8 DEF LoginThread

LEMMA TypeStep == TypeOK /\ [Next]_vars => TypeOK'
  <1> SUFFICES ASSUME TypeOK, [Next]_vars PROVE TypeOK'
    OBVIOUS
  <1>1. ASSUME NEW h \in Handlers, Handle(h) PROVE TypeOK'
    BY <1>1, HandlerType
  <1>2. ASSUME NEW h \in Handlers, NEW r \in Request, Arrive(h, r) PROVE TypeOK'
    <2>1. [hnd[h] EXCEPT !.req = r,
                         !.pc = IF r \in {"login", "logout"} THEN r ELSE "verify"]
            \in HandlerRec
      BY DEF TypeOK, HandlerRec, HandlerPc
    <2> QED  BY <1>2, <2>1 DEF Arrive, TypeOK, shared
  <1>3. ASSUME NEW t \in Thread, LoginThread(t) PROVE TypeOK'
    BY <1>3, ThreadType
  <1>4. ASSUME NEW t \in Thread, SelectAgain(t) PROVE TypeOK'
    BY <1>4 DEF SelectAgain, vars, TypeOK
  <1>5. CASE UNCHANGED vars
    BY <1>5 DEF vars, TypeOK
  <1> QED
    BY <1>1, <1>2, <1>3, <1>4, <1>5 DEF Next

\* Every state of the login is well typed, whatever its handlers do at once:
\* in particular no login asks for more codes than pcs_login allows.
THEOREM TypeCorrect == Spec => []TypeOK
  BY TypeInit, TypeStep, PTL DEF Spec

-----------------------------------------------------------------------------
(***************************************************************************)
(* What a step of the login thread does to each situation of Control.      *)
(***************************************************************************)
LEMMA NoThreadRuns ==
    ASSUME NEW t \in Thread, LoginThread(t)
    PROVE  /\ ~NoneRun /\ ~In(t, "none") /\ ~In(t, "dead")
           /\ hnd' = hnd /\ tlogin' = tlogin
  BY DEF LoginThread, NoneRun, In, Waiting, pcs_login, verifycode, input_str, GiveUp, TakeCode,
         get_mutex_login, Notify, thread_login, shared

LEMMA ParkedStays ==
    ASSUME NEW t \in Thread, LoginThread(t), NEW n \in {1, 2}
    PROVE  ~Parked(n)
  <1> SUFFICES ASSUME Parked(n) PROVE FALSE
    OBVIOUS
  <1>1. t = tlogin
    BY NoThreadRuns DEF Parked, Sole
  <1> QED
    BY <1>1 DEF Parked, Waiting, Empty, LoginThread, In, pcs_login, verifycode, input_str,
                GiveUp, TakeCode, get_mutex_login, Notify, thread_login

LEMMA CancelGoesOn ==
    ASSUME TypeOK, NEW t \in Thread, LoginThread(t), Cancelling
    PROVE  Cancelling'
  <1>1. t = tlogin /\ tlogin' = tlogin
    BY NoThreadRuns DEF Cancelling, Sole
  <1>2. thr[t].pc \in {"park", "deaf", "end", "clear"}
    BY <1>1, NoThreadRuns DEF Cancelling, In
  <1>3. CASE GiveUp(t)
    BY <1>1, <1>3 DEF GiveUp, Cancelling, Empty, Sole, In, Waiting, TypeOK, shared
  <1>4. CASE get_mutex_login(t)
    BY <1>1, <1>4
       DEF get_mutex_login, Wanted, Cancelling, Empty, Sole, In, Waiting, Run, TypeOK, shared
  <1>5. CASE thread_login(t)
    BY <1>1, <1>5 DEF thread_login, Cleared, Cancelling, Empty, Sole, In, Waiting, Run, TypeOK
  <1> QED
    BY <1>2, <1>3, <1>4, <1>5 DEF LoginThread, In, pcs_login, verifycode, input_str,
       TakeCode, Notify, Cancelling, Empty

LEMMA EndGoesOn ==
    ASSUME TypeOK, NEW t \in Thread, LoginThread(t), Ended
    PROVE  Ended'
  <1>1. t = tlogin /\ tlogin' = tlogin
    BY NoThreadRuns DEF Ended, Sole
  <1>2. thread_login(t)
    BY <1>1, NoThreadRuns DEF Ended, LoginThread, In, pcs_login, verifycode, input_str,
       GiveUp, TakeCode, get_mutex_login, Notify
  <1> QED
    BY <1>1, <1>2 DEF thread_login, Cleared, Ended, Empty, Sole, In, Waiting, Run, TypeOK

LEMMA AwaitedGoesOn ==
    ASSUME TypeOK, NEW t \in Thread, LoginThread(t), NEW n \in {1, 2}, Awaited(n)
    PROVE  Awaited(n)'
  <1>1. t = tlogin /\ tlogin' = tlogin
    BY NoThreadRuns DEF Awaited, Sole
  <1> DEFINE m(s) == [from |-> t, st |-> s]
  <1>2. \A s \in Status : Append(<<>>, m(s)) = <<m(s)>> /\ <<m(s)>> # <<>>
    BY OneMessage
  <1>3. CASE pcs_login(t)
    BY <1>1, <1>2, <1>3 DEF pcs_login, Awaited, Empty, Sole, In, Waiting, Message, TypeOK
  <1>4. CASE verifycode(t)
    <2>1. login = <<>> /\ code = 0 /\ loginState = n
      BY <1>1, <1>4 DEF verifycode, Awaited, Empty, In, Waiting
    <2>2. login' = <<m("verify")>>
      BY <1>2, <1>4, <2>1 DEF verifycode
    <2>3. Sole' /\ Waiting(tlogin)'
      BY <1>1, <1>4, WaitsAssumption DEF verifycode, Awaited, Sole, In, Waiting, TypeOK, ThreadRec
    <2> QED  BY <1>1, <1>4, <2>1, <2>2, <2>3 DEF verifycode, Awaited, Message
  <1>5. CASE input_str(t)
    <2>1. Empty /\ loginState = n
      BY <1>1, <1>5 DEF input_str, Awaited, In, Waiting
    <2>2. thr' = [thr EXCEPT ![t].pc = "end", ![t].res = "fail"]
      BY <1>5, <2>1 DEF input_str, Empty
    <2>3. Sole' /\ In(tlogin, "end")'
      BY <1>1, <2>2 DEF Awaited, Sole, In, TypeOK, ThreadRec
    <2> QED  BY <1>1, <1>5, <2>1, <2>3 DEF input_str, Awaited, Empty, In
  <1>6. CASE GiveUp(t)
    BY <1>1, <1>6 DEF GiveUp, Awaited, Empty, Sole, In, Waiting, Message
  <1>7. CASE TakeCode(t)
    BY <1>1, <1>7 DEF TakeCode, Awaited, Empty, Sole, In, Waiting, Run, Message, TypeOK
  <1>8. CASE get_mutex_login(t)
    BY <1>1, <1>8
       DEF get_mutex_login, Wanted, Awaited, Empty, Sole, In, Waiting, Run, Message, TypeOK, shared
  <1>9. CASE Notify(t)
    <2>1. login = <<>> /\ code = 0 /\ loginState = n
      BY <1>1, <1>9 DEF Notify, Awaited, Empty, In, Waiting
    <2>2. thr[t].res \in {"ok", "fail"}
      BY DEF TypeOK, ThreadRec
    <2>3. login' = <<m(thr[t].res)>>
      BY <1>2, <1>9, <2>1, <2>2 DEF Notify
    <2>4. Sole' /\ In(tlogin, "clear")'
      BY <1>1, <1>9 DEF Notify, Run, Awaited, Sole, In, Waiting, TypeOK
    <2>5. (code = 0)' /\ loginState' = n
      BY <1>9, <2>1 DEF Notify
    <2>6. \E s \in {"ok", "fail"} : Message(s)'
      BY <1>1, <2>2, <2>3 DEF Message
    <2> QED  BY <2>4, <2>5, <2>6 DEF Awaited
  <1>10. CASE thread_login(t)
    <2>1. code = 0 /\ \E s \in {"ok", "fail"} : Message(s)
      BY <1>1, <1>10 DEF thread_login, Awaited, In, Waiting
    <2>2. Sole' /\ In(tlogin, "dead")'
      BY <1>1, <1>10 DEF thread_login, Run, Awaited, Sole, In, Waiting, TypeOK
    <2>3. loginState' = 0 /\ login' = login /\ code' = code
      BY <1>10 DEF thread_login, Cleared
    <2> QED  BY <1>1, <2>1, <2>2, <2>3 DEF Awaited, Message
  <1> QED
    BY <1>3, <1>4, <1>5, <1>6, <1>7, <1>8, <1>9, <1>10 DEF LoginThread

-----------------------------------------------------------------------------
(***************************************************************************)
(* The handler's steps, when it is the only one.                           *)
(***************************************************************************)
LEMMA ControlInit == Init => Control
  <1> SUFFICES ASSUME Init PROVE Control
    OBVIOUS
  <1>1. Free
    BY DEF Init, Free, Empty, NoneRun, In
  <1>2. \A h \in Handlers : hnd[h].pc = "idle"
    BY DEF Init
  <1> QED  BY <1>1, <1>2 DEF Control, At

\* Control speaks of the handler's place and of the rest of the state, which
\* most of its steps leave alone.
Rest == <<loginState, tlogin, thr, login, code>>

LEMMA RestSame ==
    ASSUME UNCHANGED Rest
    PROVE  /\ Free' = Free /\ Cancelling' = Cancelling /\ Ended' = Ended
           /\ IsJoined' = IsJoined /\ Spawning' = Spawning
           /\ \A n \in {1, 2} : Parked(n)' = Parked(n) /\ Awaited(n)' = Awaited(n)
  BY DEF Rest, Free, Cancelling, Ended, IsJoined, Spawning, Parked, Awaited, Empty,
         Sole, NoneRun, In, Waiting, Message

LEMMA HandlerControl ==
    ASSUME NEW h, Handlers = {h}, ~Dangles, TypeOK, Control, Handle(h)
    PROVE  Control'
  <1> DEFINE c == hnd[h]
  <1>0. /\ hnd \in [Handlers -> HandlerRec] /\ h \in Handlers
        /\ thr \in [Thread -> ThreadRec]
    BY DEF TypeOK
  <1> USE <1>0 DEF At
  <1>g. \A pc : Goto(h, pc) =>
          /\ hnd'[h].pc = pc /\ hnd'[h].then = c.then /\ hnd'[h].arg = c.arg
    BY DEF Goto, HandlerRec
  <1>j. \A s, pc : Join(h, s, pc) => hnd'[h].pc = "join" /\ hnd'[h].then = pc
    BY DEF Join, HandlerRec
  <1>m. ASSUME login # <<>>, \E s \in Status : Message(s)
        PROVE  Tail(login) = <<>> /\ Message(Head(login).st)
    <2>1. PICK s \in Status : Message(s)
      BY <1>m
    <2> QED  BY <2>1, OneMessage DEF Message
  <1>1. CASE pcs_web_api_login(h)
    <2>1. Free \/ Parked(2)
      BY <1>1 DEF pcs_web_api_login, Control
    <2>2. UNCHANGED Rest
      BY <1>1 DEF pcs_web_api_login, shared, Rest
    <2>3. CASE Free
      <3>1. hnd'[h].pc = "check"
        BY <1>1, <1>g, <2>3 DEF pcs_web_api_login, Free
      <3> QED  BY <2>2, <2>3, <3>1, RestSame DEF Control
    <2>4. CASE Parked(2)
      <3>1. hnd'[h].pc = "cancel"
        BY <1>1, <1>g, <2>4 DEF pcs_web_api_login, Parked
      <3> QED  BY <2>2, <2>4, <3>1, RestSame DEF Control
    <2> QED  BY <2>1, <2>3, <2>4
  <1>2. CASE CancelEarlier(h)
    <2>1. Parked(2)
      BY <1>2 DEF CancelEarlier, Control
    <2>2. Cancelling'
      BY <1>2, <2>1 DEF CancelEarlier, Cancelled, Cancelling, Parked, Empty, Sole, In,
                        Waiting
    <2>3. hnd'[h].pc = "join" /\ hnd'[h].then = "check"
      BY <1>2, <1>j DEF CancelEarlier
    <2> QED  BY <2>2, <2>3 DEF Control
  <1>3. CASE pthread_join(h)
    <2>1. /\ hnd'[h].pc = "joining" /\ hnd'[h].then = c.then /\ hnd'[h].arg = tlogin
          /\ UNCHANGED Rest
      BY <1>3 DEF pthread_join, shared, Rest, HandlerRec
    <2>2. tlogin' = tlogin /\ c.pc = "join"
      BY <1>3, <2>1 DEF pthread_join, Rest
    <2> QED  BY <2>1, <2>2, RestSame DEF Control
  <1>4. CASE Joined(h)
    <2>1. c.arg = tlogin /\ (Cancelling \/ Ended \/ Parked(2))
      BY <1>4 DEF Joined, Control
    <2>2. In(tlogin, "dead")
      BY <1>4, <2>1 DEF Joined, In
    <2>3. Empty /\ Sole /\ loginState = 0
      BY <2>1, <2>2 DEF Cancelling, Ended, Parked, In, Waiting
    <2>4. /\ thr' = [thr EXCEPT ![tlogin].pc = "none"]
          /\ UNCHANGED <<loginState, tlogin, login, code>>
      BY <1>4, <2>1 DEF Joined, shared
    <2>5. IsJoined'
      BY <2>3, <2>4 DEF IsJoined, Empty, Sole, NoneRun, In, ThreadRec
    <2>6. hnd'[h].pc = "joined"
      BY <1>4, <1>g DEF Joined
    <2> QED  BY <2>5, <2>6 DEF Control
  <1>5. CASE ClearTlogin(h)
    <2>1. IsJoined
      BY <1>5 DEF ClearTlogin, Control
    <2>2. Free'
      BY <1>5, <2>1 DEF ClearTlogin, Forgotten, IsJoined, Free, Empty, NoneRun, In
    <2>3. hnd'[h].pc \in {"check", "reset", "finish"}
      BY <1>5, <1>g DEF ClearTlogin, HandlerRec
    <2> QED  BY <2>2, <2>3 DEF Control
  <1>6. CASE AlreadyLogin(h)
    <2>1. Free /\ UNCHANGED Rest /\ hnd'[h].pc = "idle"
      BY <1>6, <1>g DEF AlreadyLogin, Control, Rest
    <2> QED  BY <2>1, RestSame DEF Control
  <1>7. CASE NotConfirmed(h)
    <2>1. Free /\ UNCHANGED Rest /\ hnd'[h].pc = "idle"
      BY <1>7, <1>g DEF NotConfirmed, Control, Rest, shared
    <2> QED  BY <2>1, RestSame DEF Control
  <1>8. CASE NotLogin(h)
    <2>1. Free /\ UNCHANGED Rest /\ hnd'[h].pc = "create"
      BY <1>8, <1>g DEF NotLogin, Control, Rest, shared
    <2> QED  BY <2>1, RestSame DEF Control
  <1>9. CASE SetLogin(h)
    <2>1. Free /\ hnd'[h].pc = "spawn"
      BY <1>9, <1>g DEF SetLogin, Control
    <2>2. Spawning'
      BY <1>9, <2>1 DEF SetLogin, Free, Spawning, Empty, NoneRun, In
    <2> QED  BY <2>1, <2>2 DEF Control
  <1>10. CASE CreateThread(h)
    <2>1. Spawning /\ hnd'[h].pc = "readlogin"
      BY <1>10, <1>g DEF CreateThread, Control
    <2>2. PICK t \in Thread :
            /\ thr' = [thr EXCEPT ![t] = [pc |-> "pcs", asks |-> 0, res |-> "fail"]]
            /\ tlogin' = t
      BY <1>10 DEF CreateThread
    <2>3. Sole' /\ thr'[tlogin'].pc = "pcs"
      BY <2>1, <2>2 DEF Spawning, Sole, NoneRun, In
    <2>4. Empty' /\ loginState' = 1
      BY <1>10, <2>1 DEF CreateThread, Spawning, Empty
    <2>5. Awaited(1)'
      BY <2>3, <2>4 DEF Awaited
    <2> QED  BY <2>1, <2>5 DEF Control
  <1>11. CASE CreateFails(h)
    <2>1. Spawning /\ hnd'[h].pc = "idle"
      BY <1>11, <1>g DEF CreateFails, Control
    <2>2. Free'
      BY <1>11, <2>1 DEF CreateFails, Spawning, Free, Empty, NoneRun, In
    <2> QED  BY <2>1, <2>2 DEF Control
  <1>r. ASSUME NEW n \in {1, 2}, Awaited(n), login # <<>>, login' = Tail(login),
               UNCHANGED <<loginState, tlogin, thr, code>>
        PROVE  \/ Head(login).st = "verify" /\ Parked(n)'
               \/ Head(login).st # "verify" /\ Ended'
    <2>1. \E s \in Status : Message(s)
      BY <1>r DEF Awaited, Empty
    <2>2. Tail(login) = <<>> /\ Message(Head(login).st)
      BY <1>m, <1>r, <2>1
    <2>3. CASE Waiting(tlogin) /\ Message("verify") /\ code = 0 /\ loginState = n
      <3>1. Head(login).st = "verify"
        BY <2>3, OneMessage DEF Message
      <3>2. Parked(n)'
        BY <1>r, <2>2, <2>3 DEF Awaited, Parked, Empty, Sole, In, Waiting
      <3> QED  BY <3>1, <3>2
    <2>4. CASE /\ code = 0 /\ \E s \in {"ok", "fail"} : Message(s)
               /\ \/ In(tlogin, "clear") /\ loginState = n
                  \/ In(tlogin, "dead") /\ loginState = 0
      <3>1. Head(login).st # "verify"
        BY <2>4, OneMessage DEF Message
      <3>2. Ended'
        BY <1>r, <2>2, <2>4 DEF Awaited, Ended, Empty, Sole, In
      <3> QED  BY <3>1, <3>2
    <2> QED  BY <1>r, <2>3, <2>4 DEF Awaited, Empty
  <1>12. CASE ReadLogin(h)
    <2>1. /\ Awaited(1) /\ login # <<>> /\ login' = Tail(login)
          /\ UNCHANGED <<loginState, tlogin, thr, code>>
      BY <1>12 DEF ReadLogin, Control
    <2>2. CASE Head(login).st = "verify" /\ Parked(1)'
      <3>1. hnd'[h].pc = "set2"
        BY <1>12, <1>g, <2>2 DEF ReadLogin
      <3> QED  BY <2>2, <3>1 DEF Control
    <2>3. CASE Head(login).st # "verify" /\ Ended'
      <3>1. hnd'[h].pc = "join" /\ hnd'[h].then = "reset"
        BY <1>12, <1>j, <2>3 DEF ReadLogin
      <3> QED  BY <2>3, <3>1 DEF Control
    <2> QED  BY <1>r, <2>1, <2>2, <2>3
  <1>13. CASE SetVerify(h)
    <2>1. Parked(1) /\ hnd'[h].pc = "idle"
      BY <1>13, <1>g DEF SetVerify, Control
    <2>2. Parked(2)'
      BY <1>13, <2>1 DEF SetVerify, Parked, Empty, Sole, In, Waiting
    <2> QED  BY <2>1, <2>2 DEF Control
  <1>14. CASE Reset(h)
    <2>1. Free /\ hnd'[h].pc = "finish"
      BY <1>14, <1>g DEF Reset, Control
    <2>2. Free'
      BY <1>14, <2>1 DEF Reset, Free, Empty, NoneRun, In
    <2> QED  BY <2>1, <2>2 DEF Control
  <1>15. CASE login_successful(h)
    <2>1. Free /\ UNCHANGED Rest /\ hnd'[h].pc = "idle"
      BY <1>15, <1>g DEF login_successful, Control, Rest
    <2> QED  BY <2>1, RestSame DEF Control
  <1>16. CASE pcs_web_api_verifycode(h)
    <2>1. (Free \/ Parked(2)) /\ UNCHANGED Rest
      BY <1>16 DEF pcs_web_api_verifycode, Control, Rest, shared
    <2>2. CASE loginState # 2 \/ tlogin = 0
      <3>1. hnd'[h].pc = "idle"
        BY <1>16, <1>g, <2>2 DEF pcs_web_api_verifycode
      <3> QED  BY <2>1, <3>1, RestSame DEF Control
    <2>3. CASE ~(loginState # 2 \/ tlogin = 0)
      <3>1. Parked(2)
        BY <2>1, <2>3 DEF Free
      <3>2. \/ hnd'[h].pc = "join" /\ hnd'[h].then = "finish"
            \/ hnd'[h].pc = "write"
        BY <1>16, <1>g, <1>j, <2>3 DEF pcs_web_api_verifycode
      <3> QED  BY <2>1, <3>1, <3>2, RestSame DEF Control
    <2> QED  BY <2>2, <2>3
  <1>17. CASE WriteCode(h)
    <2>1. Parked(2) /\ hnd'[h].pc = "readverify"
      BY <1>17, <1>g DEF WriteCode, Control
    <2>2. Awaited(2)'
      BY <1>17, <2>1 DEF WriteCode, Parked, Awaited, Empty, Sole, In, Waiting
    <2> QED  BY <2>1, <2>2 DEF Control
  <1>18. CASE ReadVerify(h)
    <2>1. /\ Awaited(2) /\ login # <<>> /\ login' = Tail(login)
          /\ UNCHANGED <<loginState, tlogin, thr, code>>
      BY <1>18 DEF ReadVerify, Control
    <2>2. CASE Head(login).st = "verify" /\ Parked(2)'
      <3>1. hnd'[h].pc = "idle"
        BY <1>18, <1>g, <2>2 DEF ReadVerify
      <3> QED  BY <2>2, <3>1 DEF Control
    <2>3. CASE Head(login).st # "verify" /\ Ended'
      <3>1. hnd'[h].pc = "join" /\ hnd'[h].then = "finish"
        BY <1>18, <1>j, <2>3 DEF ReadVerify
      <3> QED  BY <2>3, <3>1 DEF Control
    <2> QED  BY <1>r, <2>1, <2>2, <2>3
  <1>19. CASE pcs_web_api_logout(h)
    <2>1. (Free \/ Parked(2)) /\ UNCHANGED Rest /\ hnd'[h].pc = "logout2"
      BY <1>19, <1>g DEF pcs_web_api_logout, Control, Rest
    <2> QED  BY <2>1, RestSame DEF Control
  <1>20. CASE pcs_logout(h)
    <2>1. (Free \/ Parked(2)) /\ UNCHANGED Rest /\ hnd'[h].pc = "idle"
      BY <1>20, <1>g DEF pcs_logout, Control, Rest
    <2> QED  BY <2>1, RestSame DEF Control
  <1> QED
    BY <1>1, <1>2, <1>3, <1>4, <1>5, <1>6, <1>7, <1>8, <1>9, <1>10, <1>11, <1>12,
       <1>13, <1>14, <1>15, <1>16, <1>17, <1>18, <1>19, <1>20 DEF Handle

-----------------------------------------------------------------------------
(***************************************************************************)
(* The invariant, and what follows from it.                                *)
(***************************************************************************)
LEMMA ControlStep ==
    ASSUME NEW h, Handlers = {h}, ~Dangles
    PROVE  TypeOK /\ Control /\ [Next]_vars => Control'
  <1> SUFFICES ASSUME TypeOK, Control, [Next]_vars PROVE Control'
    OBVIOUS
  <1> USE DEF At
  <1>1. CASE Handle(h)
    BY <1>1, HandlerControl
  <1>2. ASSUME NEW r \in Request, Arrive(h, r) PROVE Control'
    <2>1. hnd'[h].pc \in {"login", "logout", "verify"} /\ hnd[h].pc = "idle"
      BY <1>2 DEF Arrive, TypeOK, HandlerRec
    <2>2. (Free \/ Parked(2)) /\ UNCHANGED Rest
      BY <1>2, <2>1 DEF Arrive, Control, Rest, shared
    <2> QED  BY <2>1, <2>2, RestSame DEF Control
  <1>3. ASSUME NEW t \in Thread, LoginThread(t) PROVE Control'
    <2>1. /\ hnd' = hnd /\ tlogin' = tlogin /\ ~Free /\ ~Spawning /\ ~IsJoined
          /\ ~Parked(1) /\ ~Parked(2)
      BY <1>3, NoThreadRuns, ParkedStays DEF Free, Spawning, IsJoined
    <2>2. /\ Cancelling => Cancelling'
          /\ Ended => Ended'
          /\ Awaited(1) => Awaited(1)'
          /\ Awaited(2) => Awaited(2)'
      BY <1>3, CancelGoesOn, EndGoesOn, AwaitedGoesOn
    <2> QED  BY <2>1, <2>2 DEF Control
  <1>4. CASE UNCHANGED vars
    <2>1. hnd' = hnd /\ tlogin' = tlogin /\ UNCHANGED Rest
      BY <1>4 DEF vars, Rest
    <2> QED  BY <2>1, RestSame DEF Control
  <1>5. ASSUME NEW t \in Thread, SelectAgain(t) PROVE Control'
    BY <1>4, <1>5 DEF SelectAgain
  <1> QED
    BY <1>1, <1>2, <1>3, <1>4, <1>5 DEF Next

THEOREM Invariant ==
    ASSUME NEW h, Handlers = {h}, ~Dangles
    PROVE  Spec => []IInv
  <1>1. Init => TypeOK /\ Control
    BY TypeInit, ControlInit
  <1>2. TypeOK /\ Control /\ [Next]_vars => TypeOK' /\ Control'
    BY TypeStep, ControlStep
  <1> QED  BY <1>1, <1>2, PTL DEF Spec, IInv

\* With one request at a time a login leaves nothing behind: between requests
\* there is none, or one that waits for the code the client was asked for.
THEOREM NothingLeftOver ==
    ASSUME NEW h, Handlers = {h}, ~Dangles
    PROVE  Spec => []Quiet
  <1>1. IInv => Quiet
    BY DEF IInv, Control, Quiet, At, Free, Parked, Empty, NoneRun, Sole, In, Waiting
  <1> QED  BY <1>1, Invariant, PTL

\* With one request at a time every pthread_join is for a live thread.
THEOREM JoinsAreSound ==
    ASSUME NEW h, Handlers = {h}, ~Dangles
    PROVE  Spec => []JoinSound
  <1>1. ASSUME IInv PROVE JoinSound
    <2> SUFFICES ASSUME hnd[h].pc = "joining"
                 PROVE  hnd[h].arg \in Thread /\ ~In(hnd[h].arg, "none")
      BY DEF JoinSound, At
    <2>1. hnd[h].arg = tlogin /\ (Cancelling \/ Ended \/ Parked(2))
      BY <1>1 DEF IInv, Control, At
    <2> QED  BY <2>1 DEF Cancelling, Ended, Parked, Sole, In, Waiting
  <1> QED  BY <1>1, Invariant, PTL

\* With one request at a time each reads the status of its own login thread.
THEOREM AnswersAreOwn ==
    ASSUME NEW h, Handlers = {h}, ~Dangles
    PROVE  Spec => OwnAnswer
  <1>1. ASSUME IInv PROVE ReadsOwn
    <2> SUFFICES ASSUME Reads(h), login # <<>> PROVE login[1].from = tlogin
      BY DEF ReadsOwn
    <2>1. Awaited(1) \/ Awaited(2)
      BY <1>1 DEF IInv, Control, Reads, At
    <2>2. PICK s \in Status : login = <<[from |-> tlogin, st |-> s]>>
      BY <2>1 DEF Awaited, Empty, Message
    <2> QED  BY <2>2
  <1>2. IInv /\ [Next]_vars => [ReadsOwn]_vars
    BY <1>1
  <1> QED  BY <1>2, Invariant, PTL DEF Spec, OwnAnswer
=============================================================================
