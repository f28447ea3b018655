----------------------------- MODULE WebService -----------------------------
(***************************************************************************)
(* What the HTTP front end promises its clients, without descriptors, the  *)
(* slots' status words, locks or condition variables: one connection at a  *)
(* time waits, a free worker takes it, each connection is closed once, and *)
(* the only answer it can get is one answer, to its own request.           *)
(***************************************************************************)
CONSTANTS Worker, Conn, NoConn

VARIABLES
    waiting,   \* the accepted connection no worker has yet, or NoConn
    handler,   \* for each worker, the connection it has, or NoConn
    closed,    \* connections that were closed
    answers    \* <<connection, request answered on it>>

Init ==
    /\ waiting = NoConn
    /\ handler = [w \in Worker |-> NoConn]
    /\ closed = {}
    /\ answers = {}

Answered(c) == \E r \in Conn : <<c, r>> \in answers

Arrive(c) ==
    /\ waiting = NoConn
    /\ c \notin closed /\ \A w \in Worker : handler[w] # c
    /\ waiting' = c
    /\ UNCHANGED <<handler, closed, answers>>

\* Closed without a worker, with an error or without any answer.
Refuse ==
    /\ waiting # NoConn
    /\ \/ UNCHANGED answers
       \/ ~Answered(waiting) /\ answers' = answers \cup {<<waiting, waiting>>}
    /\ waiting' = NoConn
    /\ closed' = closed \cup {waiting}
    /\ UNCHANGED handler

Dispatch(w) ==
    /\ waiting # NoConn /\ handler[w] = NoConn
    /\ handler' = [handler EXCEPT ![w] = waiting]
    /\ waiting' = NoConn
    /\ UNCHANGED <<closed, answers>>

Reply(w) ==
    /\ handler[w] # NoConn /\ ~Answered(handler[w])
    /\ answers' = answers \cup {<<handler[w], handler[w]>>}
    /\ UNCHANGED <<waiting, handler, closed>>

Finish(w) ==
    /\ handler[w] # NoConn
    /\ closed' = closed \cup {handler[w]}
    /\ handler' = [handler EXCEPT ![w] = NoConn]
    /\ UNCHANGED <<waiting, answers>>

Next ==
    \/ \E c \in Conn : Arrive(c)
    \/ Refuse
    \/ \E w \in Worker : Dispatch(w) \/ Reply(w) \/ Finish(w)

Spec == Init /\ [][Next]_<<waiting, handler, closed, answers>>
=============================================================================
