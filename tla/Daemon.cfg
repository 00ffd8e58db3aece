SPECIFICATION DaemonFairSpec
CONSTANTS
    Conns = {c1, c2, c3}
    NoConn = NoConn
    N = 2
    Free = Free
    MaxFaults = 1
    Nobody = Nobody
    Owner = Owner
    TimerThread = TimerThread
    MaxPosts = 2
    MIN_DUTY = 1
    MAX_DUTY = 3
    Step = 1
    MaxGives = 4
INVARIANTS
    TypeOK
    AgentServesOne
    HeldOnce
    PoolBounded
    GateTypeOK
    MoversExclude
    DutyInRange
    NoRefusedStart
PROPERTIES
    ServiceSpec
    OpensOnRequest
    GateCloses
    TimerNotStuck
\* The server may stop, and the last request may have been served.
CHECK_DEADLOCK FALSE
