------------------------------- MODULE TagDb -------------------------------
(***************************************************************************)
(* The tag database (CSqlite.cpp) under its users: the executor thread,    *)
(* which looks up or records every tag it read and opens the gate          *)
(* (IAgent::iAgent_CallBack), and the agents of web clients, which insert  *)
(* and select.  The members sql_buff and parm of the one CSqlite object    *)
(* are used by all of them without a lock; a call of sqlite3_exec is one   *)
(* step (the library serialises them).                                     *)
(***************************************************************************)
EXTENDS Integers, Sequences, FiniteSets, SequencesExt

CONSTANTS
    Agents,       \* web agents' threads
    Executor,     \* the executor thread
    Kinds,        \* operations that take place: subset of OpKinds
    Keys,         \* <<tag, antenna>> pairs
    Actions,      \* action fields an agent inserts
    UserTable,    \* rows of TAG_USER_DATA at the start
    MaxCalls      \* bound: calls altogether

OpKinds == {"user_tag_action", "insert_tag", "insert_user_tag", "select_tag"}

VARIABLES
    table,     \* TAG_DATA and TAG_USER_DATA; the index of a row is its tag_id
    sqlBuff,   \* sql_buff: the statement last written into it
    parm,      \* parm[0..2]
    pc, op,    \* per thread: where it is, the call it makes
    intx,      \* between BEGIN TRANSACTION and COMMIT
    wild,      \* a statement with more columns than parm has was run into it
    opened,    \* (history) keys whose tag made the executor open the gate
    asked,     \* (history) keys whose action field has ever been 1
    calls

vars == <<table, sqlBuff, parm, pc, op, intx, wild, opened, asked, calls>>

Threads == Agents \union {Executor}
NoOp    == [kind |-> "none", key |-> << >>, action |-> 0]
Zero    == <<0, 0, 0>>

\* The two tables are made when they do not exist (the constructor).
Init ==
    /\ table = [data |-> << >>, user |-> UserTable]
    /\ sqlBuff = [verb |-> "none"]
    /\ parm = Zero
    /\ pc = [t \in Threads |-> "out"] /\ op = [t \in Threads |-> NoOp]
    /\ intx = FALSE /\ wild = FALSE
    /\ opened = {} /\ asked = {UserTable[i].key : i \in
                                {j \in DOMAIN UserTable : UserTable[j].action = 1}}
    /\ calls = 0
-----------------------------------------------------------------------------
(* Statements, and what sqlite3_exec makes of them. *)

TableOf(kind) == IF kind = "insert_tag" THEN "data" ELSE "user"

Columns(kind) ==
    IF kind = "user_tag_action" THEN <<"id", "action", "seen">> ELSE <<"id", "seen">>

SelectKey(o) == [verb |-> "select", in |-> TableOf(o.kind), key |-> o.key,
                 columns |-> Columns(o.kind)]
SelectAll(in) == [verb |-> "all", in |-> in]
\* An update by tag_id; insert_user_tag sets the action field too.
Update(o, id, seen) ==
    [verb |-> "update", in |-> TableOf(o.kind), id |-> id, seen |-> seen,
     action |-> IF o.kind = "insert_user_tag" THEN <<o.action>> ELSE << >>]
Insert(o) == [verb |-> "insert", in |-> TableOf(o.kind),
              row |-> [key |-> o.key, action |-> o.action, seen |-> 1]]

Hits(s) == {i \in DOMAIN table[s.in] : table[s.in][i].key = s.key}

Cell(s, i, column) ==
    IF column = "id" THEN i ELSE table[s.in][i][column]

\* callback(): the columns of a row go to parm from its start.
ToParm(s, i) ==
    [k \in 1 .. 3 |-> IF k \in DOMAIN s.columns THEN Cell(s, i, s.columns[k]) ELSE parm[k]]

\* Running what sql_buff holds, the result going to parm or, intoParm FALSE,
\* nowhere (callback with 0) or to the client.  A "select *" run into parm has
\* nine columns for four places.
Exec(intoParm) ==
    LET s == sqlBuff IN
    \/ /\ s.verb = "select"
       /\ parm' = IF intoParm /\ Hits(s) # {}
                  THEN ToParm(s, CHOOSE i \in Hits(s) : TRUE) ELSE parm
       /\ UNCHANGED <<table, wild>>
    \/ /\ s.verb = "all"
       /\ wild' = (intoParm /\ table[s.in] # << >>)
       /\ UNCHANGED <<table, parm>>
    \/ /\ s.verb = "update"
       /\ table' = IF s.id \notin DOMAIN table[s.in] THEN table
                   ELSE [table EXCEPT ![s.in][s.id].seen = s.seen,
                                      ![s.in][s.id].action =
                                         IF s.action = << >> THEN @ ELSE s.action[1]]
       /\ UNCHANGED <<parm, wild>>
    \/ /\ s.verb = "insert"
       /\ table' = [table EXCEPT ![s.in] = Append(@, s.row)]
       /\ UNCHANGED <<parm, wild>>

AskedNow == {r.key : r \in {q \in ToSet(table'.user) : q.action = 1}}
-----------------------------------------------------------------------------
(* The calls, a step between any two uses of the shared members. *)

Goto(t, l) == pc' = [pc EXCEPT ![t] = l]

\* The executor's callback begins a transaction for the tags of one read; an
\* agent answers one request.
Call(t) ==
    /\ pc[t] = "out" /\ calls < MaxCalls /\ ~ wild
    /\ \E k \in Kinds, key \in Keys, a \in Actions :
        /\ (t = Executor) <=> k \in {"user_tag_action", "insert_tag"}
        /\ k \notin {"insert_user_tag"} => a = 0
        /\ op' = [op EXCEPT ![t] = [kind |-> k, key |-> key, action |-> a]]
        /\ Goto(t, IF k = "select_tag" THEN "all" ELSE "select")
    /\ intx' = (intx \/ t = Executor)
    /\ calls' = calls + 1
    /\ UNCHANGED <<table, sqlBuff, parm, wild, opened, asked>>

\* sprintf(sql_buff, "select ...")
WriteSelect(t) ==
    /\ pc[t] = "select" /\ ~ wild
    /\ sqlBuff' = SelectKey(op[t])
    /\ Goto(t, "clear")
    /\ UNCHANGED <<table, parm, op, intx, wild, opened, asked, calls>>

\* parm[0] = parm[1] = 0, and parm[2] in user_tag_action
ClearParm(t) ==
    /\ pc[t] = "clear" /\ ~ wild
    /\ parm' = IF op[t].kind = "user_tag_action" THEN Zero ELSE <<0, 0, parm[3]>>
    /\ Goto(t, "find")
    /\ UNCHANGED <<table, sqlBuff, op, intx, wild, opened, asked, calls>>

Find(t) ==
    /\ pc[t] = "find" /\ ~ wild
    /\ Exec(TRUE)
    /\ asked' = asked \union AskedNow
    /\ Goto(t, "decide")
    /\ UNCHANGED <<sqlBuff, op, intx, opened, calls>>

\* parm[0] # 0: the row is there and its count goes up; else insert it, which
\* user_tag_action does not.
Decide(t) ==
    /\ pc[t] = "decide" /\ ~ wild
    /\ LET o == op[t]
           seen == (IF o.kind = "user_tag_action" THEN parm[3] ELSE parm[2]) + 1
       IN IF parm[1] # 0
          THEN sqlBuff' = Update(o, parm[1], seen) /\ Goto(t, "store")
          ELSE IF o.kind = "user_tag_action"
               THEN Goto(t, "out") /\ UNCHANGED sqlBuff
               ELSE sqlBuff' = Insert(o) /\ Goto(t, "store")
    /\ UNCHANGED <<table, parm, op, intx, wild, opened, asked, calls>>

Store(t) ==
    /\ pc[t] = "store" /\ ~ wild
    /\ Exec(FALSE)
    /\ asked' = asked \union AskedNow
    /\ Goto(t, IF op[t].kind = "user_tag_action" THEN "act" ELSE "out")
    /\ UNCHANGED <<sqlBuff, op, intx, opened, calls>>

\* *action = parm[1]; action 1 gives the gate's semaphore.
Act(t) ==
    /\ pc[t] = "act" /\ ~ wild
    /\ opened' = IF parm[2] = 1 THEN opened \union {op[t].key} ELSE opened
    /\ Goto(t, "out")
    /\ UNCHANGED <<table, sqlBuff, parm, op, intx, wild, asked, calls>>

\* select_tag: the rows go to the client's callback, not to parm.
SelectTag(t) ==
    /\ pc[t] = "all" /\ ~ wild
    /\ \E in \in DOMAIN table : sqlBuff' = SelectAll(in)
    /\ Goto(t, "list")
    /\ UNCHANGED <<table, parm, op, intx, wild, opened, asked, calls>>

ListRows(t) ==
    /\ pc[t] = "list" /\ ~ wild
    /\ Exec(FALSE)
    /\ asked' = asked \union AskedNow
    /\ Goto(t, "out")
    /\ UNCHANGED <<sqlBuff, op, intx, opened, calls>>

Commit ==
    /\ intx /\ pc[Executor] = "out" /\ ~ wild
    /\ intx' = FALSE
    /\ UNCHANGED <<table, sqlBuff, parm, pc, op, wild, opened, asked, calls>>

Step(t) == \/ Call(t) \/ WriteSelect(t) \/ ClearParm(t) \/ Find(t) \/ Decide(t)
           \/ Store(t) \/ Act(t) \/ SelectTag(t) \/ ListRows(t)

Next == Commit \/ \E t \in Threads : Step(t)

Spec == Init /\ [][Next]_vars
-----------------------------------------------------------------------------
\* The gate is opened for a tag at an antenna only when the action field of
\* their row is, or has been, 1: iAgent.cpp:537, "look up database and perform
\* the action field".
GateByAction == opened \subseteq asked
=============================================================================
