SPECIFICATION Spec
CONSTANTS
    Threads = {t1, t2}
    Objs = {1, 2}
    AntCount = 1
    Kernels = {"linux", "winsock"}
    Openers = {TRUE, FALSE}
    MaxUnanswered = 1
    MaxSessions = 2
    MinAcks = 0
    Triggers = {"null"}
    Modes = {"all", "listed"}
    Patient = TRUE
PROPERTY ExecutorHasExit
CHECK_DEADLOCK FALSE
