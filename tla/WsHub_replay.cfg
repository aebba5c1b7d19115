CONSTANTS
 Publishers = {p1}
 Conns = {c1, c2}
 NoConn = NoConn
 Cap = 2
 Keep = 2
 MaxSeq = 3
SPECIFICATION Spec
INVARIANT ReplayComplete
CHECK_DEADLOCK FALSE
