SPECIFICATION Spec
CONSTANTS
    Tasks = {t1, t2}
    Ants = {n1, n2}
    None = None
    Free = Free
    SlaveStatuses = {0, 1, 5}
    MAX_TAGS_PER_ANTENNA = 2
    Late = TRUE
INVARIANT ReadsNamedAntenna
\* A mutex that is kept, or a port that is gone, blocks every task.
CHECK_DEADLOCK FALSE
