CONSTANTS
    t1 = t1
    t2 = t2
    Agents = {a1}
    Executor = ex
    Kinds = {"user_tag_action", "insert_user_tag"}
    Keys <- MCKeys
    Actions = {0}
    UserTable <- MCUserTable
    MaxCalls = 2
SPECIFICATION Spec
INVARIANT GateByAction
CHECK_DEADLOCK FALSE
