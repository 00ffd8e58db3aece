SPECIFICATION FairSpec
CONSTANTS
    IAgents = {a1}
    SAgents = {s1}
    Fds = {f1, f2}
    MAX_TX_SOCKET = 2
    MaxAnt = 1
    MaxSem = 2
    MaxReg = 1
    MaxReq = 1
    StartOnce = FALSE
    CleanClose = FALSE
    StartSentinels = {DATABASE_MAGIC}
    NoFd = NoFd
    NoOwner = NoOwner
    Executor = Executor
    DATABASE_MAGIC = DATABASE_MAGIC
    DATABASE_USER_MAGIC = DATABASE_USER_MAGIC
PROPERTIES
    Parks
    ServedAgain
    IdleStops
