SPECIFICATION Spec
CONSTANTS
    IAgents = {a1}
    SAgents = {s1}
    Fds = {f1, f2}
    MAX_TX_SOCKET = 2
    MaxAnt = 1
    MaxSem = 2
    MaxReg = 1
    MaxReq = 1
    StartOnce = TRUE
    CleanClose = FALSE
    StartSentinels = {DATABASE_MAGIC}
    NoFd = NoFd
    NoOwner = NoOwner
    Executor = Executor
    DATABASE_MAGIC = DATABASE_MAGIC
    DATABASE_USER_MAGIC = DATABASE_USER_MAGIC
PROPERTY SendTellsClosed
