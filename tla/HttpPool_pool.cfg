CONSTANTS
    Workers = 2
    MaxFd = 3
    Conn = {c1, c2, c3, c4}
    NoConn = NoConn
    Login = {c1, c2}
    Stuck = {c1}
SPECIFICATION FairSpec
INVARIANTS NoLeak WebSerial
PROPERTIES ServiceSpec AllClosed
