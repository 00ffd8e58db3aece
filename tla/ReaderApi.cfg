SPECIFICATION FairSpec
CONSTANTS
    Tasks = {t1, t2}
    Ants = {n1, n2}
    None = None
    Free = Free
    SlaveStatuses = {0, 1, 5}
    MAX_TAGS_PER_ANTENNA = 2
    Late = FALSE
INVARIANTS
    TypeOK
    OneCallAtATime
    RightModule
    MutexGiven
    ReadsNamedAntenna
PROPERTIES
    CallEnds
\* Every task may wait for a mutex that a call has kept.
CHECK_DEADLOCK FALSE
