----------------------------- MODULE AgentPool -----------------------------
(***************************************************************************)
(* LLRP_MntServer and its agents: one thread that listens on a port per    *)
(* kind of agent, accepts, and hands each connection to an idle agent of   *)
(* its kind or to a new one; a thread per connection that serves it,       *)
(* closes it and marks its agent idle; and the CLI, which walks the pool   *)
(* of the LLRP agents.                                                     *)
(*                                                                         *)
(* The server and the CLI bracket their use of a pool by mpMutex->take(0)  *)
(* and give(), but take(0) does not wait and its result is not looked at.  *)
(* The agents' idle flags are not protected at all.                        *)
(***************************************************************************)
EXTENDS Integers, Sequences, FiniteSets

CONSTANTS
    Conns,       \* client connections
    NoConn,      \* -1
    N,           \* ports; in the code LLRP, binary protocol and SCGI
    Free,        \* mpMutex has no owner
    MaxFaults    \* bound: failures of socket(), bind(), ..., pthread_create()

ASSUME PoolAssumption ==
    /\ NoConn \notin Conns
    /\ N \in Nat \ {0}
    /\ Free \notin {"server", "cli"}
    /\ MaxFaults \in Nat

Kinds == 1 .. N
LLRP == 1

VARIABLES
    socketState,
    bill_out,
    listening,  \* ports that clients can connect to
    leaked,     \* sockets that socketCreate opened and forgot
    backlog,    \* connections that wait to be accepted, per port
    spc, sk,    \* where the server thread is, and which port it deals with
    ready,      \* the ports select() has named, still to be looked at
    client,     \* clientSocket, iclientSocket, sclientSocket
    ap,         \* the agent socketDeliver looks at or has chosen
    pool,       \* agentPool, iagentPool, sagentPool
    threads,    \* the agents' threads; conn: what each was started for
    mpMutex,
    cpc, ci,    \* where showAgentStatus is
    closed,     \* history: connections that have been closed
    peak,       \* history: most agents that were busy at a time, per kind
    faults

socketVars == <<socketState, listening, leaked, backlog>>
serverVars == <<spc, sk, ready, client, ap>>
poolVars == <<pool, threads, closed, peak>>
cliVars == <<cpc, ci>>
vars == <<socketVars, bill_out, serverVars, poolVars, mpMutex, cliVars, faults>>

Init ==
    /\ socketState = "SOCKET_IDLE"
    /\ bill_out = FALSE
    /\ listening = {} /\ leaked = 0
    /\ backlog = [k \in Kinds |-> <<>>]
    /\ spc = "main" /\ sk = 1 /\ ready = {} /\ ap = 0
    /\ client = [k \in Kinds |-> NoConn]
    /\ pool = [k \in Kinds |-> <<>>]
    /\ threads = {}
    /\ mpMutex = Free
    /\ cpc = "out" /\ ci = 0
    /\ closed = {}
    /\ peak = [k \in Kinds |-> 0]
    /\ faults = 0

Fault == faults < MaxFaults /\ faults' = faults + 1

-----------------------------------------------------------------------------
(* The server thread: main() and what it does in each socketState.  Once   *)
(* bill_out is set main() returns.                                         *)

In(state) == spc = "main" /\ ~ bill_out /\ socketState = state

BillOut == Fault /\ bill_out' = TRUE /\ UNCHANGED socketVars

SocketInitialize ==
    /\ In("SOCKET_IDLE")
    /\ socketState' = "SOCKET_INITIAL"
    /\ UNCHANGED <<listening, leaked, backlog, bill_out, serverVars, poolVars, mpMutex,
                   cliVars, faults>>

(* A socket() that fails: again from the first, what was opened is lost. *)
SocketCreate ==
    /\ In("SOCKET_INITIAL")
    /\ \/ socketState' = "SOCKET_CREATE" /\ UNCHANGED <<leaked, faults>>
       \/ /\ Fault
          /\ \E opened \in 0 .. N - 1 : leaked' = leaked + opened
          /\ UNCHANGED socketState
    /\ UNCHANGED <<listening, backlog, bill_out, serverVars, poolVars, mpMutex, cliVars>>

SocketBind ==
    /\ In("SOCKET_CREATE")
    /\ \/ /\ socketState' = "SOCKET_BIND"
          /\ UNCHANGED <<listening, leaked, backlog, bill_out, faults>>
       \/ BillOut
    /\ UNCHANGED <<serverVars, poolVars, mpMutex, cliVars>>

(* Clients can connect to a port from its listen() on, whatever follows. *)
SocketListen ==
    /\ In("SOCKET_BIND")
    /\ \/ /\ listening' = listening \cup {sk}
          /\ IF sk < N THEN sk' = sk + 1 /\ UNCHANGED socketState
                       ELSE sk' = 1 /\ socketState' = "SOCKET_LISTEN"
          /\ UNCHANGED <<leaked, backlog, bill_out, faults>>
       \/ BillOut /\ UNCHANGED sk
    /\ UNCHANGED <<spc, ready, client, ap, poolVars, mpMutex, cliVars>>

(* select() waits until a port has a connection. *)
Select ==
    /\ In("SOCKET_LISTEN")
    /\ \/ /\ ready' = {k \in Kinds : backlog[k] # <<>>}
          /\ ready' # {}
          /\ spc' = "accept"
          /\ UNCHANGED <<socketVars, bill_out, faults>>
       \/ BillOut /\ UNCHANGED <<spc, ready>>
    /\ UNCHANGED <<sk, client, ap, poolVars, mpMutex, cliVars>>

(* accept() on the ports that are ready, in order.  A failure ends the     *)
(* server, and what it has accepted so far is not delivered.               *)
Accept ==
    /\ spc = "accept"
    /\ \/ /\ IF sk \in ready
               THEN /\ client' = [client EXCEPT ![sk] = Head(backlog[sk])]
                    /\ backlog' = [backlog EXCEPT ![sk] = Tail(@)]
               ELSE UNCHANGED <<client, backlog>>
          /\ ready' = ready \ {sk}
          /\ IF sk < N THEN sk' = sk + 1 /\ UNCHANGED <<spc, socketState>>
                       ELSE sk' = 1 /\ spc' = "main" /\ socketState' = "SOCKET_ACCEPT"
          /\ UNCHANGED <<listening, leaked, bill_out, faults>>
       \/ /\ sk \in ready
          /\ BillOut
          /\ spc' = "main"
          /\ UNCHANGED <<sk, ready, client>>
    /\ UNCHANGED <<ap, poolVars, mpMutex, cliVars>>

(* socketDeliver() is called for the ports with a client, in order. *)
NextPort ==
    IF sk < N THEN sk' = sk + 1 /\ UNCHANGED socketState
              ELSE sk' = 1 /\ socketState' = "SOCKET_LISTEN"

NoClient ==
    /\ In("SOCKET_ACCEPT") /\ client[sk] = NoConn
    /\ NextPort
    /\ UNCHANGED <<listening, leaked, backlog, bill_out, spc, ready, client, ap, poolVars,
                   mpMutex, cliVars, faults>>

(* Mutant of TakePool: the server waits for the CLI. *)
TakePoolWaits ==
    /\ In("SOCKET_ACCEPT") /\ client[sk] # NoConn /\ mpMutex = Free
    /\ mpMutex' = "server"
    /\ spc' = "search" /\ ap' = 1
    /\ UNCHANGED <<socketVars, bill_out, sk, ready, client, poolVars, cliVars, faults>>

(* take(0): if the CLI has the mutex, on without it *)
TakePool ==
    /\ In("SOCKET_ACCEPT") /\ client[sk] # NoConn
    /\ mpMutex' = IF mpMutex = Free THEN "server" ELSE mpMutex
    /\ spc' = "search" /\ ap' = 1
    /\ UNCHANGED <<socketVars, bill_out, sk, ready, client, poolVars, cliVars, faults>>

Busy(p) == {a \in DOMAIN p : ~ p[a].idle}

CountBusy ==
    LET busy == Cardinality(Busy(pool'[sk])) IN
    peak' = [peak EXCEPT ![sk] = IF busy > @ THEN busy ELSE @]

(* Mutant of SearchPool: a new agent does not enter the pool. *)
SearchForgetsNew ==
    /\ spc = "search"
    /\ IF ap <= Len(pool[sk]) /\ ~ pool[sk][ap].idle
         THEN ap' = ap + 1 /\ UNCHANGED spc
         ELSE spc' = "assign" /\ UNCHANGED ap
    /\ UNCHANGED <<socketVars, bill_out, sk, ready, client, poolVars, mpMutex, cliVars,
                   faults>>

(* Mutant of SearchPool: no agent is found idle. *)
SearchFindsNone ==
    /\ spc = "search"
    /\ IF ap <= Len(pool[sk])
         THEN ap' = ap + 1 /\ UNCHANGED <<spc, pool>>
         ELSE /\ pool' = [pool EXCEPT ![sk] = Append(@, [idle |-> FALSE, sock |-> NoConn])]
              /\ spc' = "assign" /\ UNCHANGED ap
    /\ CountBusy
    /\ UNCHANGED <<socketVars, bill_out, sk, ready, client, threads, closed, mpMutex,
                   cliVars, faults>>

(* The first idle agent, or else a new one, which is created busy. *)
SearchPool ==
    /\ spc = "search"
    /\ IF ap <= Len(pool[sk])
         THEN /\ IF pool[sk][ap].idle THEN spc' = "assign" /\ UNCHANGED ap
                                      ELSE ap' = ap + 1 /\ UNCHANGED spc
              /\ UNCHANGED pool
         ELSE /\ pool' = [pool EXCEPT ![sk] = Append(@, [idle |-> FALSE, sock |-> NoConn])]
              /\ spc' = "assign" /\ UNCHANGED ap
    /\ CountBusy
    /\ UNCHANGED <<socketVars, bill_out, sk, ready, client, threads, closed, mpMutex,
                   cliVars, faults>>

(* Mutant of Assign: the client descriptor is not reset. *)
AssignKeepsClient ==
    /\ spc = "assign"
    /\ pool' = [pool EXCEPT ![sk][ap] = [idle |-> FALSE, sock |-> client[sk]]]
    /\ CountBusy
    /\ spc' = "give"
    /\ UNCHANGED <<socketVars, bill_out, sk, ready, client, ap, threads, closed, mpMutex,
                   cliVars, faults>>

(* setConnection(), setRunning().  The descriptor, which socketAccept      *)
(* resets before its next use, is reset here.                              *)
Assign ==
    /\ spc = "assign"
    /\ pool' = [pool EXCEPT ![sk][ap] = [idle |-> FALSE, sock |-> client[sk]]]
    /\ CountBusy
    /\ client' = [client EXCEPT ![sk] = NoConn]
    /\ spc' = "give"
    /\ UNCHANGED <<socketVars, bill_out, sk, ready, ap, threads, closed, mpMutex, cliVars,
                   faults>>

(* give(): the error-checking mutex is released by its owner only *)
GivePool ==
    /\ spc = "give"
    /\ mpMutex' = IF mpMutex = "server" THEN Free ELSE mpMutex
    /\ spc' = "run"
    /\ UNCHANGED <<socketVars, bill_out, sk, ready, client, ap, poolVars, cliVars, faults>>

Thread(k, a) == [kind |-> k, agent |-> a, conn |-> pool[k][a].sock, pc |-> "main"]

(* run(): a pthread_create that fails is only reported on the console. *)
Run ==
    /\ spc = "run"
    /\ \/ threads' = threads \cup {Thread(sk, ap)} /\ UNCHANGED faults
       \/ Fault /\ UNCHANGED threads
    /\ NextPort
    /\ spc' = "main" /\ ap' = 0
    /\ UNCHANGED <<listening, leaked, backlog, bill_out, ready, client, pool, closed, peak,
                   mpMutex, cliVars>>

Server ==
    \/ SocketInitialize \/ SocketCreate \/ SocketBind \/ SocketListen \/ Select \/ Accept
    \/ NoClient \/ TakePool \/ SearchPool \/ Assign \/ GivePool \/ Run

-----------------------------------------------------------------------------
(* An agent's thread.  What it does for its connection is IAgentExecutor's *)
(* matter; here it ends at any time, by the client's doing or its own.     *)

OthersOf(t, pc) == (threads \ {t}) \cup {[t EXCEPT !.pc = pc]}

(* ::close(clientSocket) *)
CloseConnection(t) ==
    /\ t.pc = "main"
    /\ closed' = closed \cup {pool[t.kind][t.agent].sock}
    /\ threads' = OthersOf(t, "closed")
    /\ UNCHANGED <<socketVars, bill_out, serverVars, pool, peak, mpMutex, cliVars, faults>>

(* Mutant of GoIdle: the flag is set before the connection is closed. *)
GoIdleEarly(t) ==
    /\ t.pc = "main"
    /\ pool' = [pool EXCEPT ![t.kind][t.agent].idle = TRUE]
    /\ UNCHANGED <<socketVars, bill_out, serverVars, threads, closed, peak, mpMutex, cliVars,
                   faults>>

(* idle = true, and the thread is gone *)
GoIdle(t) ==
    /\ t.pc = "closed"
    /\ pool' = [pool EXCEPT ![t.kind][t.agent].idle = TRUE]
    /\ threads' = threads \ {t}
    /\ UNCHANGED <<socketVars, bill_out, serverVars, closed, peak, mpMutex, cliVars, faults>>

-----------------------------------------------------------------------------
(* showAgentStatus(), in the CLI's thread.  main() returning deletes the   *)
(* server; what the CLI does with it afterwards is undefined, not modelled. *)

CliTake ==
    /\ cpc = "out" /\ ~ bill_out
    /\ mpMutex' = IF mpMutex = Free THEN "cli" ELSE mpMutex
    /\ cpc' = "walk" /\ ci' = 1
    /\ UNCHANGED <<socketVars, bill_out, serverVars, poolVars, faults>>

CliWalk ==
    /\ cpc = "walk" /\ ~ bill_out
    /\ IF ci <= Len(pool[LLRP]) THEN ci' = ci + 1 /\ UNCHANGED cpc
                                ELSE cpc' = "give" /\ ci' = 0
    /\ UNCHANGED <<socketVars, bill_out, serverVars, poolVars, mpMutex, faults>>

CliGive ==
    /\ cpc = "give" /\ ~ bill_out
    /\ mpMutex' = IF mpMutex = "cli" THEN Free ELSE mpMutex
    /\ cpc' = "out"
    /\ UNCHANGED <<socketVars, bill_out, serverVars, poolVars, ci, faults>>

-----------------------------------------------------------------------------
(* The clients; each connection is made once. *)

Pending(c) == \E k \in Kinds : client[k] = c \/ \E i \in DOMAIN backlog[k] : backlog[k][i] = c
Holds(k, a, c) == pool[k][a].sock = c /\ ~ pool[k][a].idle
Held(c) == \E k \in Kinds : \E a \in DOMAIN pool[k] : Holds(k, a, c)
Known(c) == c \in closed \/ Pending(c) \/ Held(c)

Connect(c, k) ==
    /\ k \in listening /\ ~ Known(c)
    /\ backlog' = [backlog EXCEPT ![k] = Append(@, c)]
    /\ UNCHANGED <<socketState, listening, leaked, bill_out, serverVars, poolVars, mpMutex,
                   cliVars, faults>>

Next ==
    \/ Server
    \/ \E t \in threads : CloseConnection(t) \/ GoIdle(t)
    \/ CliTake \/ CliWalk \/ CliGive
    \/ \E c \in Conns, k \in Kinds : Connect(c, k)

Spec == Init /\ [][Next]_vars

(* The server's thread runs.  Nothing is asked of clients, agents and CLI. *)
FairSpec == Spec /\ WF_vars(Server)

-----------------------------------------------------------------------------
Agents == [idle : BOOLEAN, sock : Conns \cup {NoConn}]

TypeOK ==
    /\ socketState \in {"SOCKET_IDLE", "SOCKET_INITIAL", "SOCKET_CREATE", "SOCKET_BIND",
                        "SOCKET_LISTEN", "SOCKET_ACCEPT"}
    /\ bill_out \in BOOLEAN
    /\ listening \subseteq Kinds /\ leaked \in Nat
    /\ backlog \in [Kinds -> Seq(Conns)]
    /\ spc \in {"main", "accept", "search", "assign", "give", "run"}
    /\ sk \in Kinds /\ ready \subseteq Kinds /\ ap \in Nat
    /\ client \in [Kinds -> Conns \cup {NoConn}]
    /\ pool \in [Kinds -> Seq(Agents)]
    /\ spc \in {"give", "run"} => ap \in DOMAIN pool[sk]
    /\ threads \subseteq [kind : Kinds, agent : Nat, conn : Conns, pc : {"main", "closed"}]
    /\ mpMutex \in {Free, "server", "cli"}
    /\ cpc \in {"out", "walk", "give"} /\ ci \in Nat
    /\ closed \subseteq Conns
    /\ peak \in [Kinds -> Nat]
    /\ faults \in Nat

(* An agent has at most one thread, the thread has the connection it was   *)
(* started for, and the agent is not idle, so the server does not give it  *)
(* another, until the thread has closed it and has set idle.               *)
AgentServesOne ==
    /\ \A t, u \in threads : t.kind = u.kind /\ t.agent = u.agent => t = u
    /\ \A t \in threads :
          /\ ~ pool[t.kind][t.agent].idle
          /\ pool[t.kind][t.agent].sock = t.conn

(* A connection is in one place only: it waits, or the server has it in    *)
(* hand, or one agent has it.                                              *)
HeldOnce ==
    /\ \A c \in Conns : ~ (Pending(c) /\ Held(c))
    /\ \A k, l \in Kinds : \A a \in DOMAIN pool[k], b \in DOMAIN pool[l] :
          /\ ~ pool[k][a].idle /\ pool[k][a].sock # NoConn
          /\ Holds(l, b, pool[k][a].sock)
          => k = l /\ a = b

(* Agents are reused: a pool grows with the connections that were open at  *)
(* a time, by one more for an agent that turns idle after the search has   *)
(* passed it, and not with the number of connections served.               *)
PoolBounded == \A k \in Kinds : Len(pool[k]) <= peak[k] + 1

(* The server with its agents keeps the promise of ConnService: every      *)
(* connection is served once and closed by the thread that served it, and  *)
(* no client can keep the server from another by holding its connection.   *)
Started(c) == \E t \in threads : t.conn = c /\ t.pc = "main"
AboutToRun(c) == spc \in {"give", "run"} /\ pool[sk][ap].sock = c

life == [c \in Conns |->
    CASE c \in closed -> "closed"
      [] c \notin closed /\ Started(c) -> "served"
      [] c \notin closed /\ ~ Started(c) /\ (Pending(c) \/ AboutToRun(c)) -> "waiting"
      [] c \notin closed /\ ~ Started(c) /\ ~ Pending(c) /\ ~ AboutToRun(c) ->
            IF Held(c) THEN "lost" ELSE "new"]

Service == INSTANCE ConnService WITH up <- ~ bill_out
ServiceSpec == Service!Spec
=============================================================================
