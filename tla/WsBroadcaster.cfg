SPECIFICATION Spec
CONSTANTS
    Conn = {c1, c2}
    Fd = {4}
    NoConn = NoConn
INVARIANTS DashboardServed
