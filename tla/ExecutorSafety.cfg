SPECIFICATION Spec
CONSTANTS
    IAgents = {a1, a2}
    SAgents = {s1}
    Fds = {f1, f2}
    MAX_TX_SOCKET = 3
    MaxAnt = 1
    MaxSem = 2
    MaxReg = 2
    MaxReq = 1
    StartOnce = TRUE
    CleanClose = TRUE
    StartSentinels = {DATABASE_MAGIC}
    NoFd = NoFd
    NoOwner = NoOwner
    Executor = Executor
    DATABASE_MAGIC = DATABASE_MAGIC
    DATABASE_USER_MAGIC = DATABASE_USER_MAGIC
SYMMETRY Symmetry
INVARIANTS
    TypeOK
    NoLostWakeup
    SlotPerStart
    CallbackLive
    RegistryLive
    DatabaseSlotReserved
