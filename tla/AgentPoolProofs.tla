-------------------------- MODULE AgentPoolProofs --------------------------
(***************************************************************************)
(* Proofs about the connection server and its pools of agents, for every   *)
(* number of ports, connections and failures: a connection is in one place *)
(* at a time, an agent serves one connection at a time, the pools do not   *)
(* grow with the connections served, and what a client sees is a behaviour *)
(* of ConnService.                                                         *)
(***************************************************************************)
EXTENDS AgentPool, FiniteSetTheorems, SequenceTheorems, TLAPS

-----------------------------------------------------------------------------
(* The inductive invariant. *)

(* What main() is doing, in each of the states of the sockets. *)
ServerPhase ==
    /\ spc = "accept" => ~ bill_out /\ socketState = "SOCKET_LISTEN"
    /\ spc \in {"search", "assign", "give", "run"}
          => ~ bill_out /\ socketState = "SOCKET_ACCEPT"
    /\ spc = "main" /\ ~ bill_out /\ socketState = "SOCKET_LISTEN" => sk = 1
    /\ spc = "accept" => \A k \in ready : backlog[k] # <<>>

(* The descriptors in hand: those of the ports accepted so far, then those *)
(* of the ports not delivered yet.  No other is overwritten by accept().   *)
ClientsInHand ==
    /\ ~ bill_out =>
          \A k \in Kinds : client[k] # NoConn =>
              \/ spc = "accept" /\ k < sk
              \/ spc # "accept" /\ socketState = "SOCKET_ACCEPT" /\ k >= sk
    /\ spc \in {"search", "assign"} => client[sk] # NoConn
    /\ spc \in {"give", "run"} => client[sk] = NoConn

(* The agent that socketDeliver has chosen has no thread; once it has been *)
(* given the connection, the connection is an open one.                    *)
ChosenAgent ==
    /\ spc = "search" => ap \in 1 .. Len(pool[sk]) + 1
    /\ spc = "assign" => /\ ap \in DOMAIN pool[sk]
                         /\ pool[sk][ap].idle \/ pool[sk][ap].sock = NoConn
    /\ spc \in {"give", "run"} =>
          /\ ap \in DOMAIN pool[sk]
          /\ ~ pool[sk][ap].idle
          /\ pool[sk][ap].sock \in Conns \ closed
          /\ \A t \in threads : ~ (t.kind = sk /\ t.agent = ap)

(* A thread has the connection of its agent, open until the thread closes it. *)
ThreadsServe ==
    /\ \A t \in threads :
          /\ t.agent \in DOMAIN pool[t.kind]
          /\ ~ pool[t.kind][t.agent].idle
          /\ pool[t.kind][t.agent].sock = t.conn
          /\ t.pc = "closed" <=> t.conn \in closed
    /\ \A t, u \in threads : t.kind = u.kind /\ t.agent = u.agent => t = u

(* Where a connection waits: one place in one backlog, or one descriptor. *)
WaitsOnce ==
    /\ \A k, l \in Kinds : \A i \in DOMAIN backlog[k], j \in DOMAIN backlog[l] :
          backlog[k][i] = backlog[l][j] => k = l /\ i = j
    /\ \A k, l \in Kinds : client[k] # NoConn /\ client[k] = client[l] => k = l
    /\ \A k, l \in Kinds : \A i \in DOMAIN backlog[k] : backlog[k][i] # client[l]

(* One that waits is neither held by an agent nor closed, and one that is  *)
(* held is held by one agent.                                              *)
PlacesApart ==
    /\ \A c \in Conns : Pending(c) => ~ Held(c) /\ c \notin closed
    /\ \A k, l \in Kinds : \A a \in DOMAIN pool[k], b \in DOMAIN pool[l] :
          /\ ~ pool[k][a].idle /\ pool[k][a].sock # NoConn
          /\ Holds(l, b, pool[k][a].sock)
          => k = l /\ a = b

(* What the search has passed was busy when it began, together with what   *)
(* still is.                                                               *)
Seen(k, i) == (1 .. i - 1) \cup Busy(pool[k])
SearchSeen == spc = "search" /\ ap > 1 => Cardinality(Seen(sk, ap)) <= peak[sk]

PoolInv ==
    /\ TypeOK /\ ServerPhase /\ ClientsInHand /\ ChosenAgent /\ ThreadsServe
    /\ WaitsOnce /\ PlacesApart /\ SearchSeen /\ PoolBounded
-----------------------------------------------------------------------------
(* The phases of the server. *)

(* What the agents, the CLI and the clients leave to the server. *)
Outside ==
    \/ \E t \in threads : CloseConnection(t) \/ GoIdle(t)
    \/ CliTake \/ CliWalk \/ CliGive
    \/ \E c \in Conns, k \in Kinds : Connect(c, k)

LEMMA OutsideKeepsPhase ==
    ASSUME TypeOK, ServerPhase, ClientsInHand, Outside
    PROVE  ServerPhase' /\ ClientsInHand'
<1>1. UNCHANGED <<socketState, bill_out, spc, sk, ready, client>>
  BY DEF Outside, CloseConnection, GoIdle, CliTake, CliWalk, CliGive, Connect, socketVars,
         serverVars
<1>2. \A k \in Kinds : backlog[k] # <<>> => backlog'[k] # <<>>
  <2>1. CASE backlog' = backlog
    BY <2>1
  <2>2. CASE backlog' # backlog
    <3> PICK c \in Conns, l \in Kinds : backlog' = [backlog EXCEPT ![l] = Append(@, c)]
      BY <2>2 DEF Outside, CloseConnection, GoIdle, CliTake, CliWalk, CliGive, Connect,
                  socketVars
    <3>1. Append(backlog[l], c) # <<>>
      BY DEF TypeOK
    <3> QED
      BY <3>1 DEF TypeOK
  <2> QED
    BY <2>1, <2>2
<1> QED
  BY <1>1, <1>2 DEF ServerPhase, ClientsInHand, TypeOK

LEMMA ServerKeepsPhase ==
    ASSUME TypeOK, ServerPhase, ClientsInHand, Server
    PROVE  ServerPhase' /\ ClientsInHand'
<1> USE PoolAssumption DEF TypeOK, ServerPhase, ClientsInHand, Kinds
<1>1. CASE SocketInitialize
  BY <1>1 DEF SocketInitialize, In, serverVars
<1>2. CASE SocketCreate
  <2>1. UNCHANGED <<spc, sk, client>> /\ socketState' \in {"SOCKET_INITIAL", "SOCKET_CREATE"}
    BY <1>2 DEF SocketCreate, In, serverVars
  <2> QED
    BY <1>2, <2>1 DEF SocketCreate, In
<1>3. CASE SocketBind
  BY <1>3 DEF SocketBind, In, BillOut, serverVars, socketVars
<1>4. CASE SocketListen
  BY <1>4 DEF SocketListen, In, BillOut, socketVars
<1>5. CASE Select
  BY <1>5 DEF Select, In, BillOut, socketVars
<1>6. CASE Accept
  <2>1. CASE BillOut
    BY <1>6, <2>1 DEF Accept, BillOut, socketVars
  <2>2. CASE ~ BillOut
    <3>1. /\ spc = "accept" /\ ready' = ready \ {sk} /\ UNCHANGED bill_out
          /\ IF sk < N THEN sk' = sk + 1 /\ UNCHANGED <<spc, socketState>>
                       ELSE sk' = 1 /\ spc' = "main" /\ socketState' = "SOCKET_ACCEPT"
          /\ \A k \in Kinds \ {sk} : client'[k] = client[k] /\ backlog'[k] = backlog[k]
      BY <1>6, <2>2 DEF Accept
    <3>2. ServerPhase'
      BY <3>1
    <3>3. ClientsInHand'
      BY <3>1
    <3> QED
      BY <3>2, <3>3
  <2> QED
    BY <2>1, <2>2
<1>7. CASE NoClient
  BY <1>7 DEF NoClient, In, NextPort
<1>8. CASE TakePool
  BY <1>8 DEF TakePool, In, socketVars
<1>9. CASE SearchPool
  BY <1>9 DEF SearchPool, socketVars
<1>10. CASE Assign
  BY <1>10 DEF Assign, socketVars
<1>11. CASE GivePool
  BY <1>11 DEF GivePool, socketVars
<1>12. CASE Run
  <2>1. spc = "run" /\ spc' = "main" /\ UNCHANGED <<bill_out, client>> /\ NextPort
    BY <1>12 DEF Run
  <2> QED
    BY <2>1 DEF NextPort
<1> QED
  BY <1>1, <1>2, <1>3, <1>4, <1>5, <1>6, <1>7, <1>8, <1>9, <1>10, <1>11, <1>12 DEF Server
-----------------------------------------------------------------------------
(* The tables: one agent written, one added, one connection queued or     *)
(* accepted.                                                               *)

LEMMA AgentWritten ==
    ASSUME TypeOK, NEW k \in Kinds, NEW a \in DOMAIN pool[k], NEW x \in Agents,
           pool' = [pool EXCEPT ![k][a] = x]
    PROVE  /\ pool' \in [Kinds -> Seq(Agents)]
           /\ \A l \in Kinds : DOMAIN pool'[l] = DOMAIN pool[l] /\ Len(pool'[l]) = Len(pool[l])
           /\ pool'[k][a] = x
           /\ \A l \in Kinds : \A b \in DOMAIN pool[l] :
                  l # k \/ b # a => pool'[l][b] = pool[l][b]
<1> DEFINE q == [pool[k] EXCEPT ![a] = x]
<1>1. pool \in [Kinds -> Seq(Agents)] /\ pool[k] \in Seq(Agents)
  BY DEF TypeOK
<1>2. q \in Seq(Agents) /\ Len(q) = Len(pool[k]) /\ DOMAIN q = DOMAIN pool[k]
  BY <1>1, ExceptSeq
<1>3. pool' = [pool EXCEPT ![k] = q]
  BY <1>1
<1>4. q[a] = x /\ \A b \in DOMAIN pool[k] : b # a => q[b] = pool[k][b]
  BY <1>1
<1> HIDE DEF q
<1> QED
  BY <1>1, <1>2, <1>3, <1>4

LEMMA AgentAdded ==
    ASSUME TypeOK, NEW k \in Kinds, NEW x \in Agents,
           pool' = [pool EXCEPT ![k] = Append(@, x)]
    PROVE  /\ pool' \in [Kinds -> Seq(Agents)]
           /\ \A l \in Kinds : l # k => pool'[l] = pool[l]
           /\ Len(pool'[k]) = Len(pool[k]) + 1
           /\ DOMAIN pool'[k] = DOMAIN pool[k] \cup {Len(pool[k]) + 1}
           /\ Len(pool[k]) + 1 \notin DOMAIN pool[k]
           /\ pool'[k][Len(pool[k]) + 1] = x
           /\ \A b \in DOMAIN pool[k] : pool'[k][b] = pool[k][b]
<1>1. pool \in [Kinds -> Seq(Agents)] /\ pool[k] \in Seq(Agents) /\ Len(pool[k]) \in Nat
  BY DEF TypeOK
<1>2. pool'[k] = Append(pool[k], x) /\ \A l \in Kinds : l # k => pool'[l] = pool[l]
  BY <1>1
<1>3. pool'[k] \in Seq(Agents)
  BY <1>1, <1>2
<1> QED
  BY <1>1, <1>2, <1>3

LEMMA ConnectionQueued ==
    ASSUME TypeOK, NEW k \in Kinds, NEW c \in Conns,
           backlog' = [backlog EXCEPT ![k] = Append(@, c)]
    PROVE  /\ backlog' \in [Kinds -> Seq(Conns)]
           /\ \A l \in Kinds : l # k => backlog'[l] = backlog[l]
           /\ DOMAIN backlog'[k] = DOMAIN backlog[k] \cup {Len(backlog[k]) + 1}
           /\ backlog'[k][Len(backlog[k]) + 1] = c
           /\ \A i \in DOMAIN backlog[k] : backlog'[k][i] = backlog[k][i]
<1>1. backlog \in [Kinds -> Seq(Conns)] /\ backlog[k] \in Seq(Conns) /\ Len(backlog[k]) \in Nat
  BY DEF TypeOK
<1>2. /\ backlog'[k] = Append(backlog[k], c)
      /\ \A l \in Kinds : l # k => backlog'[l] = backlog[l]
  BY <1>1
<1> QED
  BY <1>1, <1>2

LEMMA ConnectionAccepted ==
    ASSUME TypeOK, NEW k \in Kinds, backlog[k] # <<>>,
           backlog' = [backlog EXCEPT ![k] = Tail(@)]
    PROVE  /\ backlog' \in [Kinds -> Seq(Conns)]
           /\ \A l \in Kinds : l # k => backlog'[l] = backlog[l]
           /\ Head(backlog[k]) \in Conns
           /\ 1 \in DOMAIN backlog[k] /\ Head(backlog[k]) = backlog[k][1]
           /\ \A i \in DOMAIN backlog'[k] :
                  /\ i \in Nat \ {0} /\ i + 1 \in DOMAIN backlog[k]
                  /\ backlog'[k][i] = backlog[k][i + 1]
           /\ \A i \in DOMAIN backlog[k] \ {1} :
                  /\ i - 1 \in DOMAIN backlog'[k]
                  /\ backlog'[k][i - 1] = backlog[k][i]
<1>1. backlog \in [Kinds -> Seq(Conns)] /\ backlog[k] \in Seq(Conns)
  BY DEF TypeOK
<1>2. /\ backlog'[k] = Tail(backlog[k])
      /\ \A l \in Kinds : l # k => backlog'[l] = backlog[l]
  BY <1>1
<1>3. /\ Tail(backlog[k]) \in Seq(Conns)
      /\ Len(Tail(backlog[k])) = Len(backlog[k]) - 1
      /\ Len(backlog[k]) \in Nat \ {0}
      /\ \A i \in 1 .. Len(backlog[k]) - 1 : Tail(backlog[k])[i] = backlog[k][i + 1]
  BY <1>1
<1> QED
  BY <1>1, <1>2, <1>3

LEMMA BusyCounted ==
    ASSUME NEW p \in Seq(Agents)
    PROVE  IsFiniteSet(Busy(p)) /\ Cardinality(Busy(p)) \in Nat
<1>1. Len(p) \in Nat /\ Busy(p) \subseteq 1 .. Len(p)
  BY DEF Busy
<1>2. IsFiniteSet(1 .. Len(p))
  BY <1>1, FS_Interval
<1> QED
  BY <1>1, <1>2, FS_Subset, FS_CardinalityType

LEMMA FlagWritten ==
    ASSUME NEW r \in Agents, NEW c, r.sock = c, NEW b
    PROVE  [r EXCEPT !.idle = b] = [idle |-> b, sock |-> c]
BY DEF Agents

(* What GoIdle writes: its agent keeps the descriptor. *)
LEMMA IdleWritten ==
    ASSUME TypeOK, ThreadsServe, NEW t \in threads, GoIdle(t)
    PROVE  /\ t.kind \in Kinds /\ t.agent \in DOMAIN pool[t.kind]
           /\ pool' = [pool EXCEPT ![t.kind][t.agent] = [idle |-> TRUE, sock |-> t.conn]]
           /\ [idle |-> TRUE, sock |-> t.conn] \in Agents
<1>1. t.kind \in Kinds /\ t.agent \in DOMAIN pool[t.kind] /\ t.conn \in Conns
  BY DEF TypeOK, ThreadsServe
<1>2. pool[t.kind] \in Seq(Agents) /\ pool[t.kind][t.agent] \in Agents
  BY <1>1 DEF TypeOK
<1>3. pool[t.kind][t.agent].sock = t.conn
  BY DEF ThreadsServe
<1>4. [pool[t.kind][t.agent] EXCEPT !.idle = TRUE] = [idle |-> TRUE, sock |-> t.conn]
  BY <1>2, <1>3, FlagWritten
<1> QED
  BY <1>1, <1>4 DEF GoIdle, Agents

-----------------------------------------------------------------------------
(* Types. *)

LEMMA ServerKeepsTypes ==
    ASSUME TypeOK, ServerPhase, ClientsInHand, ChosenAgent, Server
    PROVE  TypeOK'
<1> USE PoolAssumption DEF Kinds, Fault, BillOut
<1>0. /\ listening \subseteq Kinds /\ sk \in Kinds /\ ready \subseteq Kinds /\ ap \in Nat
      /\ leaked \in Nat
  BY DEF TypeOK
<1>b. bill_out' \in BOOLEAN /\ faults' \in Nat
  <2>1. faults' = faults \/ Fault
    BY DEF Server, SocketInitialize, SocketCreate, SocketBind, SocketListen, Select, Accept,
           NoClient, TakePool, SearchPool, Assign, GivePool, Run, BillOut
  <2>2. bill_out' = bill_out \/ bill_out' = TRUE
    BY Zenon DEF Server, SocketInitialize, SocketCreate, SocketBind, SocketListen, Select,
       Accept, NoClient, TakePool, SearchPool, Assign, GivePool, Run, BillOut
  <2>3. faults' \in Nat
    BY <2>1 DEF TypeOK
  <2>4. bill_out' \in BOOLEAN
    BY <2>2, Zenon DEF TypeOK
  <2> QED
    BY <2>3, <2>4
<1>1. CASE SocketInitialize
  BY <1>1, <1>b DEF TypeOK, SocketInitialize, In, serverVars, poolVars, cliVars
<1>2. CASE SocketCreate
  <2>1. leaked' \in Nat /\ socketState' \in {"SOCKET_INITIAL", "SOCKET_CREATE"}
    BY <1>0, <1>2 DEF SocketCreate, In
  <2> QED
    BY <1>2, <1>b, <2>1 DEF TypeOK, SocketCreate, serverVars, poolVars, cliVars
<1>3. CASE SocketBind
  <2>1. socketState' \in {"SOCKET_BIND", "SOCKET_CREATE"}
    BY <1>3 DEF SocketBind, In, socketVars
  <2>2. UNCHANGED <<listening, leaked, backlog, serverVars, poolVars, mpMutex, cliVars>>
    BY <1>3 DEF SocketBind, socketVars
  <2> QED
    BY <1>b, <2>1, <2>2 DEF TypeOK, serverVars, poolVars, cliVars
<1>4. CASE SocketListen
  <2>0. socketState' \in {"SOCKET_BIND", "SOCKET_LISTEN"}
    BY <1>4 DEF SocketListen, In, socketVars
  <2>1. listening' \subseteq Kinds
    BY <1>0, <1>4 DEF SocketListen, socketVars
  <2>3. sk' \in Kinds
    BY <1>0, <1>4 DEF SocketListen
  <2>2. UNCHANGED <<spc, leaked, backlog, ready, client, ap, poolVars, mpMutex, cliVars>>
    BY <1>4 DEF SocketListen, socketVars
  <2> QED
    BY <1>4, <1>b, <2>0, <2>1, <2>2, <2>3 DEF TypeOK, SocketListen, In, poolVars, cliVars
<1>5. CASE Select
  <2>1. spc' \in {"main", "accept"} /\ ready' \subseteq Kinds
    BY <1>0, <1>5 DEF Select, In
  <2>2. UNCHANGED <<socketVars, sk, client, ap, poolVars, mpMutex, cliVars>>
    BY <1>5 DEF Select
  <2> QED
    BY <1>b, <1>5, <2>1, <2>2 DEF TypeOK, Select, In, socketVars, poolVars, cliVars
<1>6. CASE Accept
  <2>1. /\ client' \in [Kinds -> Conns \cup {NoConn}] /\ backlog' \in [Kinds -> Seq(Conns)]
    <3>1. CASE UNCHANGED <<client, backlog>>
      BY <3>1 DEF TypeOK
    <3>2. CASE /\ spc = "accept" /\ sk \in ready
               /\ client' = [client EXCEPT ![sk] = Head(backlog[sk])]
               /\ backlog' = [backlog EXCEPT ![sk] = Tail(@)]
      BY <3>2, ConnectionAccepted DEF TypeOK, ServerPhase
    <3> QED
      BY <1>6, <3>1, <3>2 DEF Accept, socketVars
  <2>2. spc' \in {"main", "accept"} /\ socketState' \in {"SOCKET_LISTEN", "SOCKET_ACCEPT"}
    BY <1>6 DEF Accept, ServerPhase, socketVars
  <2>4. ready' \subseteq Kinds
    BY <1>0, <1>6 DEF Accept
  <2>5. sk' \in Kinds
    BY <1>0, <1>6 DEF Accept
  <2>3. UNCHANGED <<listening, leaked, ap, poolVars, mpMutex, cliVars>>
    BY <1>6 DEF Accept, socketVars
  <2> QED
    BY <1>b, <2>1, <2>2, <2>3, <2>4, <2>5 DEF TypeOK, poolVars, cliVars
<1>7. CASE NoClient
  <2>1. sk' \in Kinds /\ socketState' \in {"SOCKET_LISTEN", "SOCKET_ACCEPT"} /\ spc' = "main"
    BY <1>7 DEF TypeOK, NoClient, NextPort, In
  <2> QED
    BY <1>7, <2>1 DEF TypeOK, NoClient, poolVars, cliVars
<1>8. CASE TakePool
  BY <1>8 DEF TypeOK, TakePool, In, socketVars, poolVars, cliVars
<1>9. CASE SearchPool
  <2>1. pool' \in [Kinds -> Seq(Agents)] /\ \A k \in Kinds : Busy(pool'[k]) \subseteq DOMAIN pool'[k]
    BY <1>9, AgentAdded DEF TypeOK, SearchPool, Agents, Busy
  <2>2. peak' \in [Kinds -> Nat]
    BY <1>9, <2>1, BusyCounted DEF TypeOK, SearchPool, CountBusy
  <2>3. spc' \in {"search", "assign"} /\ ap' \in Nat
    BY <1>0, <1>9 DEF SearchPool
  <2> QED
    BY <1>9, <2>1, <2>2, <2>3 DEF TypeOK, SearchPool, socketVars, cliVars
<1>10. CASE Assign
  <2>1. /\ pool' \in [Kinds -> Seq(Agents)] /\ ap \in DOMAIN pool'[sk]
    BY <1>10, AgentWritten DEF TypeOK, Assign, ChosenAgent, Agents
  <2>2. peak' \in [Kinds -> Nat]
    BY <1>10, <2>1, BusyCounted DEF TypeOK, Assign, CountBusy
  <2>3. client' \in [Kinds -> Conns \cup {NoConn}]
    BY <1>10 DEF TypeOK, Assign
  <2> QED
    BY <1>10, <2>1, <2>2, <2>3 DEF TypeOK, Assign, socketVars, cliVars
<1>11. CASE GivePool
  BY <1>11 DEF TypeOK, GivePool, socketVars, poolVars, cliVars
<1>12. CASE Run
  <2>1. threads' \subseteq [kind : Kinds, agent : Nat, conn : Conns, pc : {"main", "closed"}]
    BY <1>12 DEF TypeOK, Run, ChosenAgent, Thread
  <2>2. /\ sk' \in Kinds /\ socketState' \in {"SOCKET_LISTEN", "SOCKET_ACCEPT"}
        /\ spc' = "main" /\ ap' = 0
    BY <1>0, <1>12 DEF Run, NextPort, ServerPhase
  <2>3. UNCHANGED <<listening, leaked, backlog, bill_out, ready, client, pool, closed, peak,
                    mpMutex, cliVars>>
    BY <1>12 DEF Run
  <2> QED
    BY <1>b, <2>1, <2>2, <2>3 DEF TypeOK, cliVars
<1> QED
  BY <1>1, <1>2, <1>3, <1>4, <1>5, <1>6, <1>7, <1>8, <1>9, <1>10, <1>11, <1>12 DEF Server

LEMMA OutsideKeepsTypes ==
    ASSUME TypeOK, ThreadsServe, Outside PROVE TypeOK'
<1>1. CASE \E t \in threads : CloseConnection(t)
  <2> PICK t \in threads : CloseConnection(t)
    BY <1>1
  <2>1. threads' \subseteq [kind : Kinds, agent : Nat, conn : Conns, pc : {"main", "closed"}]
    BY DEF TypeOK, CloseConnection, OthersOf
  <2>2. closed' \subseteq Conns
    BY DEF TypeOK, CloseConnection, ThreadsServe
  <2> QED
    BY <2>1, <2>2 DEF TypeOK, CloseConnection, socketVars, serverVars, cliVars
<1>2. CASE \E t \in threads : GoIdle(t)
  <2> PICK t \in threads : GoIdle(t)
    BY <1>2
  <2>1. /\ t.kind \in Kinds /\ t.agent \in DOMAIN pool[t.kind]
        /\ pool' = [pool EXCEPT ![t.kind][t.agent] = [idle |-> TRUE, sock |-> t.conn]]
        /\ [idle |-> TRUE, sock |-> t.conn] \in Agents
    BY IdleWritten
  <2>2. pool' \in [Kinds -> Seq(Agents)] /\ \A k \in Kinds : DOMAIN pool'[k] = DOMAIN pool[k]
    BY <2>1, AgentWritten
  <2>3. threads' \subseteq threads
    BY DEF GoIdle
  <2> QED
    BY <2>2, <2>3 DEF TypeOK, GoIdle, socketVars, serverVars, cliVars
<1>3. CASE CliTake \/ CliWalk \/ CliGive
  BY <1>3 DEF TypeOK, CliTake, CliWalk, CliGive, socketVars, serverVars, poolVars
<1>4. CASE \E c \in Conns, k \in Kinds : Connect(c, k)
  <2> PICK c \in Conns, k \in Kinds : Connect(c, k)
    BY <1>4
  <2>1. backlog' \in [Kinds -> Seq(Conns)]
    BY ConnectionQueued DEF Connect
  <2> QED
    BY <2>1 DEF TypeOK, Connect, serverVars, poolVars, cliVars
<1> QED
  BY <1>1, <1>2, <1>3, <1>4 DEF Outside

-----------------------------------------------------------------------------
(* The agents and their threads. *)

(* One agent is written, none of another kind or number is. *)
LEMMA ThreadsKept ==
    ASSUME TypeOK, ThreadsServe, UNCHANGED <<threads, closed>>,
           \A t \in threads : /\ t.agent \in DOMAIN pool'[t.kind]
                              /\ pool'[t.kind][t.agent] = pool[t.kind][t.agent]
    PROVE  ThreadsServe'
BY DEF ThreadsServe

(* The connection of a thread is held by the thread's agent and no other. *)
LEMMA OneHolder ==
    ASSUME TypeOK, ThreadsServe, PlacesApart, NEW t \in threads
    PROVE  /\ t.kind \in Kinds /\ t.agent \in DOMAIN pool[t.kind]
           /\ Holds(t.kind, t.agent, t.conn)
           /\ \A k \in Kinds : \A a \in DOMAIN pool[k] :
                  Holds(k, a, t.conn) => k = t.kind /\ a = t.agent
<1>1. t.kind \in Kinds /\ t.agent \in DOMAIN pool[t.kind] /\ t.conn \in Conns
  BY DEF ThreadsServe, TypeOK
<1>2. /\ ~ pool[t.kind][t.agent].idle /\ pool[t.kind][t.agent].sock = t.conn
      /\ t.conn # NoConn
  BY <1>1, PoolAssumption DEF ThreadsServe
<1> QED
  BY <1>1, <1>2 DEF PlacesApart, Holds

LEMMA ServerKeepsThreads ==
    ASSUME TypeOK, ServerPhase, ClientsInHand, ChosenAgent, ThreadsServe, PlacesApart, Server
    PROVE  ChosenAgent' /\ ThreadsServe'
<1> USE PoolAssumption
<1>0. sk \in Kinds /\ pool[sk] \in Seq(Agents) /\ Len(pool[sk]) \in Nat
  BY DEF TypeOK
<1>1. CASE SocketInitialize \/ SocketCreate \/ SocketBind \/ SocketListen \/ Select \/ Accept
           \/ NoClient
  <2>1. spc' \in {"main", "accept"} /\ UNCHANGED <<pool, threads, closed>>
    BY <1>1 DEF SocketInitialize, SocketCreate, SocketBind, SocketListen, Select, Accept,
       NoClient, In, serverVars, poolVars
  <2>2. ThreadsServe'
    BY <2>1 DEF ThreadsServe
  <2> QED
    BY <2>1, <2>2 DEF ChosenAgent
<1>2. CASE TakePool
  <2>1. spc' = "search" /\ ap' = 1 /\ UNCHANGED <<sk, pool, threads, closed>>
    BY <1>2 DEF TakePool, poolVars
  <2>2. ThreadsServe'
    BY <2>1 DEF ThreadsServe
  <2> QED
    BY <1>0, <2>1, <2>2 DEF ChosenAgent
<1>3. CASE GivePool
  <2>1. spc = "give" /\ spc' = "run" /\ UNCHANGED <<sk, ap, pool, threads, closed>>
    BY <1>3 DEF GivePool, poolVars
  <2>2. ThreadsServe'
    BY <2>1 DEF ThreadsServe
  <2> QED
    BY <2>1, <2>2 DEF ChosenAgent
<1>4. CASE SearchPool
  <2>0. spc = "search" /\ ap \in 1 .. Len(pool[sk]) + 1 /\ UNCHANGED <<sk, threads, closed>>
    BY <1>4 DEF SearchPool, ChosenAgent
  <2>1. CASE ap <= Len(pool[sk])
    <3>1. /\ UNCHANGED pool
          /\ \/ pool[sk][ap].idle /\ spc' = "assign" /\ ap' = ap
             \/ ap' = ap + 1 /\ spc' = "search"
      BY <1>4, <2>0, <2>1 DEF SearchPool
    <3>2. ThreadsServe'
      BY <2>0, <3>1 DEF ThreadsServe
    <3>3. ChosenAgent'
      BY <1>0, <2>0, <2>1, <3>1 DEF ChosenAgent
    <3> QED
      BY <3>2, <3>3
  <2>2. CASE ap = Len(pool[sk]) + 1
    <3>1. /\ pool' = [pool EXCEPT ![sk] = Append(@, [idle |-> FALSE, sock |-> NoConn])]
          /\ spc' = "assign" /\ ap' = ap
      BY <1>0, <1>4, <2>2 DEF SearchPool
    <3>2. [idle |-> FALSE, sock |-> NoConn] \in Agents
      BY DEF Agents
    <3> DEFINE x == [idle |-> FALSE, sock |-> NoConn]
    <3>a. x.sock = NoConn
      OBVIOUS
    <3> HIDE DEF x
    <3>5. /\ \A l \in Kinds : l # sk => pool'[l] = pool[l]
          /\ DOMAIN pool'[sk] = DOMAIN pool[sk] \cup {Len(pool[sk]) + 1}
          /\ pool'[sk][Len(pool[sk]) + 1] = x
          /\ \A b \in DOMAIN pool[sk] : pool'[sk][b] = pool[sk][b]
      BY <1>0, <3>1, <3>2, AgentAdded DEF x
    <3>3. ThreadsServe'
      <4>1. \A t \in threads : t.kind \in Kinds /\ t.agent \in DOMAIN pool[t.kind]
        BY DEF ThreadsServe, TypeOK
      <4>2. \A t \in threads : /\ t.agent \in DOMAIN pool'[t.kind]
                               /\ pool'[t.kind][t.agent] = pool[t.kind][t.agent]
        BY <3>5, <4>1
      <4> QED
        BY <2>0, <4>2, ThreadsKept
    <3>4. ChosenAgent'
      <4>1. ap \in DOMAIN pool'[sk] /\ pool'[sk][ap].sock = NoConn
        BY <2>2, <3>5, <3>a
      <4> QED
        BY <2>0, <3>1, <4>1 DEF ChosenAgent
    <3> QED
      BY <3>3, <3>4
  <2> QED
    BY <1>0, <2>0, <2>1, <2>2
<1>5. CASE Assign
  <2> DEFINE x == [idle |-> FALSE, sock |-> client[sk]]
  <2>0. /\ spc = "assign" /\ spc' = "give" /\ UNCHANGED <<sk, ap, threads, closed>>
        /\ pool' = [pool EXCEPT ![sk][ap] = x]
        /\ ap \in DOMAIN pool[sk] /\ client[sk] \in Conns
    BY <1>5 DEF Assign, ChosenAgent, ClientsInHand, TypeOK
  <2>1. x \in Agents
    BY <2>0 DEF Agents
  <2>2. \A t \in threads : ~ (t.kind = sk /\ t.agent = ap)
    BY <2>0 DEF ThreadsServe, ChosenAgent, TypeOK
  <2> HIDE DEF x
  <2>3. /\ \A l \in Kinds : DOMAIN pool'[l] = DOMAIN pool[l]
        /\ pool'[sk][ap] = x
        /\ \A l \in Kinds : \A b \in DOMAIN pool[l] :
               l # sk \/ b # ap => pool'[l][b] = pool[l][b]
    BY <1>0, <2>0, <2>1, AgentWritten
  <2>4. ThreadsServe'
    BY <2>0, <2>2, <2>3, ThreadsKept DEF ThreadsServe, TypeOK
  <2>5. client[sk] \notin closed
    BY <1>0, <2>0 DEF PlacesApart, Pending
  <2>6. ~ x.idle /\ x.sock = client[sk]
    BY DEF x
  <2>7. ChosenAgent'
    BY <1>0, <2>0, <2>2, <2>3, <2>5, <2>6 DEF ChosenAgent
  <2> QED
    BY <2>4, <2>7
<1>6. CASE Run
  <2>1. /\ spc = "run" /\ spc' = "main" /\ UNCHANGED <<pool, closed>>
        /\ threads' = threads \/ threads' = threads \cup {Thread(sk, ap)}
    BY <1>6 DEF Run
  <2>2. /\ Thread(sk, ap).kind = sk /\ Thread(sk, ap).agent = ap
        /\ Thread(sk, ap).conn = pool[sk][ap].sock /\ Thread(sk, ap).pc = "main"
    BY DEF Thread
  <2>3. ThreadsServe'
    BY <1>0, <2>1, <2>2 DEF ThreadsServe, ChosenAgent
  <2> QED
    BY <2>1, <2>3 DEF ChosenAgent
<1> QED
  BY <1>1, <1>2, <1>3, <1>4, <1>5, <1>6 DEF Server

LEMMA OutsideKeepsThreads ==
    ASSUME TypeOK, ChosenAgent, ThreadsServe, PlacesApart, Outside
    PROVE  ChosenAgent' /\ ThreadsServe'
<1>a. UNCHANGED <<spc, sk, ap>>
  BY Zenon DEF Outside, CloseConnection, GoIdle, CliTake, CliWalk, CliGive, Connect, serverVars
<1>0. /\ UNCHANGED <<spc, sk, ap>>
      /\ sk \in Kinds /\ pool[sk] \in Seq(Agents) /\ Len(pool[sk]) \in Nat
  BY <1>a DEF TypeOK
<1>1. CASE \E t \in threads : CloseConnection(t)
  <2> PICK t \in threads : CloseConnection(t)
    BY <1>1
  <2> DEFINE d == [t EXCEPT !.pc = "closed"]
  <2>1. /\ t.kind \in Kinds /\ t.agent \in DOMAIN pool[t.kind] /\ t.conn \in Conns
        /\ d.kind = t.kind /\ d.agent = t.agent /\ d.conn = t.conn /\ d.pc = "closed"
    BY DEF ThreadsServe, TypeOK
  <2>2. /\ threads' = (threads \ {t}) \cup {d} /\ UNCHANGED pool
        /\ closed' = closed \cup {t.conn}
    <3>1. pool[t.kind][t.agent].sock = t.conn
      BY DEF ThreadsServe
    <3> QED
      BY <3>1 DEF CloseConnection, OthersOf
  <2>3. \A k \in Kinds : \A a \in DOMAIN pool[k] :
            Holds(k, a, t.conn) => k = t.kind /\ a = t.agent
    BY OneHolder
  <2>4. \A u \in threads \ {t} : u.conn # t.conn
    <3> SUFFICES ASSUME NEW u \in threads, u # t, u.conn = t.conn PROVE FALSE
      OBVIOUS
    <3>1. u.kind \in Kinds /\ u.agent \in DOMAIN pool[u.kind] /\ Holds(u.kind, u.agent, t.conn)
      BY DEF ThreadsServe, Holds, TypeOK
    <3> QED
      BY <2>3, <3>1 DEF ThreadsServe
  <2> HIDE DEF d
  <2>5. ThreadsServe'
    BY <2>1, <2>2, <2>4 DEF ThreadsServe, TypeOK
  <2>6. ChosenAgent'
    BY <1>0, <2>1, <2>2, <2>3 DEF ChosenAgent, Holds
  <2> QED
    BY <2>5, <2>6
<1>2. CASE \E t \in threads : GoIdle(t)
  <2> PICK t \in threads : GoIdle(t)
    BY <1>2
  <2> DEFINE x == [idle |-> TRUE, sock |-> t.conn]
  <2>1. /\ t.kind \in Kinds /\ t.agent \in DOMAIN pool[t.kind] /\ t.conn \in Conns
        /\ pool' = [pool EXCEPT ![t.kind][t.agent] = x] /\ x \in Agents
        /\ threads' = threads \ {t} /\ UNCHANGED closed
    BY IdleWritten DEF GoIdle, TypeOK
  <2>2. x.sock = t.conn /\ x.idle
    OBVIOUS
  <2> HIDE DEF x
  <2>3. /\ \A l \in Kinds : DOMAIN pool'[l] = DOMAIN pool[l] /\ Len(pool'[l]) = Len(pool[l])
        /\ pool'[t.kind][t.agent] = x
        /\ \A l \in Kinds : \A b \in DOMAIN pool[l] :
               l # t.kind \/ b # t.agent => pool'[l][b] = pool[l][b]
    BY <2>1, AgentWritten
  <2>4. ThreadsServe'
    BY <2>1, <2>3 DEF ThreadsServe, TypeOK
  <2>5. ChosenAgent'
    BY <1>0, <2>1, <2>2, <2>3 DEF ChosenAgent
  <2> QED
    BY <2>4, <2>5
<1>3. CASE CliTake \/ CliWalk \/ CliGive \/ \E c \in Conns, k \in Kinds : Connect(c, k)
  <2>1. UNCHANGED <<pool, threads, closed>>
    BY <1>3 DEF CliTake, CliWalk, CliGive, Connect, poolVars
  <2> QED
    BY <1>0, <2>1 DEF ChosenAgent, ThreadsServe
<1> QED
  BY <1>1, <1>2, <1>3 DEF Outside

-----------------------------------------------------------------------------
(* Where connections are: what the steps that move one do to Pending and   *)
(* Held, and that they leave each in one place.                            *)

LEMMA SamePlaces ==
    ASSUME UNCHANGED <<backlog, client, pool>>
    PROVE  /\ \A c : Pending(c)' <=> Pending(c)
           /\ \A c : Held(c)' <=> Held(c)
           /\ WaitsOnce => WaitsOnce'
           /\ PlacesApart /\ UNCHANGED closed => PlacesApart'
<1>1. /\ \A c : Pending(c)' <=> Pending(c)
      /\ \A c : Held(c)' <=> Held(c)
  BY DEF Pending, Held, Holds
<1> QED
  BY <1>1 DEF WaitsOnce, PlacesApart, Holds

LEMMA AcceptMoves ==
    ASSUME TypeOK, ServerPhase, ClientsInHand, WaitsOnce, PlacesApart, Accept
    PROVE  /\ \A c \in Conns : Pending(c)' <=> Pending(c)
           /\ WaitsOnce' /\ PlacesApart'
<1>0. UNCHANGED <<pool, closed>> /\ sk \in Kinds
  BY DEF Accept, poolVars, TypeOK
<1>1. CASE UNCHANGED <<client, backlog>>
  BY <1>0, <1>1, SamePlaces
<1>2. CASE ~ UNCHANGED <<client, backlog>>
  <2> DEFINE h == Head(backlog[sk])
  <2>1. /\ client' = [client EXCEPT ![sk] = h]
        /\ backlog' = [backlog EXCEPT ![sk] = Tail(@)]
        /\ spc = "accept" /\ backlog[sk] # <<>>
    <3>1. /\ spc = "accept" /\ sk \in ready
          /\ client' = [client EXCEPT ![sk] = Head(backlog[sk])]
          /\ backlog' = [backlog EXCEPT ![sk] = Tail(@)]
      BY <1>2 DEF Accept, BillOut, socketVars
    <3> QED
      BY <3>1 DEF ServerPhase
  <2>0. client[sk] = NoConn
    <3>1. ~ bill_out /\ ~ (sk < sk)
      BY <1>0, <2>1 DEF ServerPhase, Kinds
    <3> QED
      BY <1>0, <2>1, <3>1 DEF ClientsInHand
  <2>2. /\ \A l \in Kinds : l # sk => backlog'[l] = backlog[l]
        /\ h \in Conns /\ 1 \in DOMAIN backlog[sk] /\ h = backlog[sk][1]
        /\ \A i \in DOMAIN backlog'[sk] :
               /\ i \in Nat \ {0} /\ i + 1 \in DOMAIN backlog[sk]
               /\ backlog'[sk][i] = backlog[sk][i + 1]
        /\ \A i \in DOMAIN backlog[sk] \ {1} :
               i - 1 \in DOMAIN backlog'[sk] /\ backlog'[sk][i - 1] = backlog[sk][i]
    BY <1>0, <2>1, ConnectionAccepted
  <2>3. client'[sk] = h /\ \A l \in Kinds : l # sk => client'[l] = client[l]
    BY <1>0, <2>1 DEF TypeOK
  <2> HIDE DEF h
  <2>4. \A k \in Kinds : \A i \in DOMAIN backlog'[k] :
            \E j \in DOMAIN backlog[k] :
                /\ backlog'[k][i] = backlog[k][j]
                /\ i \in DOMAIN backlog'[k] /\ (k = sk => i \in Nat \ {0} /\ j = i + 1)
                /\ (k # sk => j = i)
    BY <2>2
  <2>5. \A c \in Conns : Pending(c)' <=> Pending(c)
    <3> TAKE c \in Conns
    <3>1. Pending(c)' => Pending(c)
      BY <1>0, <2>2, <2>3, <2>4 DEF Pending
    <3>2. ASSUME NEW k \in Kinds, client[k] = c PROVE Pending(c)'
      BY <2>0, <2>2, <2>3, <3>2, PoolAssumption DEF Pending
    <3>3. ASSUME NEW k \in Kinds, NEW i \in DOMAIN backlog[k], backlog[k][i] = c
          PROVE  Pending(c)'
      BY <1>0, <2>2, <2>3, <3>3 DEF Pending
    <3> QED
      BY <3>1, <3>2, <3>3 DEF Pending
  <2>6. WaitsOnce'
    <3>1. ASSUME NEW k \in Kinds, NEW l \in Kinds, NEW i \in DOMAIN backlog'[k],
                 NEW j \in DOMAIN backlog'[l], backlog'[k][i] = backlog'[l][j]
          PROVE  k = l /\ i = j
      BY <2>4, <3>1 DEF WaitsOnce
    <3>2. \A k \in Kinds : client[k] # h
      BY <1>0, <2>2 DEF WaitsOnce
    <3>3. \A k, l \in Kinds : client'[k] # NoConn /\ client'[k] = client'[l] => k = l
      BY <2>3, <3>2 DEF WaitsOnce
    <3>4. ASSUME NEW k \in Kinds, NEW l \in Kinds, NEW i \in DOMAIN backlog'[k]
          PROVE  backlog'[k][i] # client'[l]
      <4> PICK j \in DOMAIN backlog[k] : /\ backlog'[k][i] = backlog[k][j]
                                         /\ (k = sk => i \in Nat \ {0} /\ j = i + 1)
        BY <2>4
      <4>1. CASE l # sk
        BY <2>3, <4>1 DEF WaitsOnce
      <4>2. CASE l = sk
        <5>1. k = sk => j # 1
          OBVIOUS
        <5>2. backlog[k][j] # backlog[sk][1]
          BY <1>0, <2>2, <5>1 DEF WaitsOnce
        <5> QED
          BY <2>2, <2>3, <4>2, <5>2
      <4> QED
        BY <4>1, <4>2
    <3> QED
      BY <3>1, <3>3, <3>4 DEF WaitsOnce
  <2>7. \A c : Held(c)' <=> Held(c)
    BY <1>0 DEF Held, Holds
  <2>8. PlacesApart'
    BY <1>0, <2>5, <2>7 DEF PlacesApart, Holds
  <2> QED
    BY <2>5, <2>6, <2>8
<1> QED
  BY <1>1, <1>2

LEMMA SearchMoves ==
    ASSUME TypeOK, SearchPool
    PROVE  /\ \A c : Pending(c)' <=> Pending(c)
           /\ \A c \in Conns : Held(c)' <=> Held(c)
           /\ WaitsOnce => WaitsOnce'
           /\ PlacesApart => PlacesApart'
<1>0. UNCHANGED <<backlog, client, closed>> /\ sk \in Kinds
  BY DEF SearchPool, socketVars, TypeOK
<1>1. CASE UNCHANGED pool
  BY <1>0, <1>1, SamePlaces
<1>2. CASE ~ UNCHANGED pool
  <2> DEFINE x == [idle |-> FALSE, sock |-> NoConn]
             n == Len(pool[sk]) + 1
  <2>1. pool' = [pool EXCEPT ![sk] = Append(@, x)] /\ x \in Agents /\ x.sock = NoConn
    BY <1>2 DEF SearchPool, Agents
  <2> HIDE DEF x
  <2>2. /\ \A l \in Kinds : l # sk => pool'[l] = pool[l]
        /\ DOMAIN pool'[sk] = DOMAIN pool[sk] \cup {n} /\ n \notin DOMAIN pool[sk]
        /\ pool'[sk][n] = x
        /\ \A b \in DOMAIN pool[sk] : pool'[sk][b] = pool[sk][b]
    BY <1>0, <2>1, AgentAdded
  <2> HIDE DEF n
  <2>3. \A k \in Kinds : \A a \in DOMAIN pool'[k] :
            \/ pool'[k][a].sock = NoConn
            \/ a \in DOMAIN pool[k] /\ pool'[k][a] = pool[k][a]
    BY <1>0, <2>1, <2>2
  <2>4. \A k \in Kinds : \A a \in DOMAIN pool[k] :
            a \in DOMAIN pool'[k] /\ pool'[k][a] = pool[k][a]
    BY <1>0, <2>2
  <2>5. \A c : Pending(c)' <=> Pending(c)
    BY <1>0 DEF Pending
  <2>6. \A c \in Conns : Held(c)' <=> Held(c)
    BY <2>3, <2>4, PoolAssumption DEF Held, Holds
  <2>7. WaitsOnce => WaitsOnce'
    BY <1>0 DEF WaitsOnce
  <2>8. PlacesApart => PlacesApart'
    <3> SUFFICES ASSUME PlacesApart PROVE PlacesApart'
      OBVIOUS
    <3>1. \A c \in Conns : Pending(c)' => ~ Held(c)' /\ c \notin closed'
      BY <1>0, <2>5, <2>6 DEF PlacesApart
    <3>2. ASSUME NEW k \in Kinds, NEW l \in Kinds, NEW a \in DOMAIN pool'[k],
                 NEW b \in DOMAIN pool'[l], ~ pool'[k][a].idle, pool'[k][a].sock # NoConn,
                 Holds(l, b, pool[k][a].sock)'
          PROVE  k = l /\ a = b
      BY <2>3, <3>2 DEF PlacesApart, Holds
    <3> QED
      BY <3>1, <3>2 DEF PlacesApart
  <2> QED
    BY <2>5, <2>6, <2>7, <2>8
<1> QED
  BY <1>1, <1>2

LEMMA AssignMoves ==
    ASSUME TypeOK, ClientsInHand, ChosenAgent, WaitsOnce, PlacesApart, Assign
    PROVE  /\ client[sk] \in Conns /\ Pending(client[sk])
           /\ pool'[sk][ap].sock = client[sk]
           /\ \A c \in Conns : Pending(c)' <=> Pending(c) /\ c # client[sk]
           /\ \A c \in Conns : Held(c)' <=> Held(c) \/ c = client[sk]
           /\ WaitsOnce' /\ PlacesApart'
<1> DEFINE x == [idle |-> FALSE, sock |-> client[sk]]
           d == client[sk]
<1>0. UNCHANGED <<backlog, closed>> /\ sk \in Kinds /\ spc = "assign"
  BY DEF Assign, socketVars, TypeOK
<1>1. d \in Conns /\ d # NoConn
  BY <1>0, PoolAssumption DEF ClientsInHand, TypeOK
<1>2. /\ ap \in DOMAIN pool[sk] /\ x \in Agents /\ ~ x.idle /\ x.sock = d
      /\ pool' = [pool EXCEPT ![sk][ap] = x]
  BY <1>0, <1>1 DEF Assign, ChosenAgent, Agents
<1>3. client'[sk] = NoConn /\ \A l \in Kinds : l # sk => client'[l] = client[l]
  BY <1>0 DEF Assign, TypeOK
<1> HIDE DEF x
<1>4. /\ \A l \in Kinds : DOMAIN pool'[l] = DOMAIN pool[l]
      /\ pool'[sk][ap] = x
      /\ \A l \in Kinds : \A b \in DOMAIN pool[l] :
             l # sk \/ b # ap => pool'[l][b] = pool[l][b]
  BY <1>0, <1>2, AgentWritten
<1>5. pool[sk][ap].idle \/ pool[sk][ap].sock = NoConn
  BY <1>0 DEF ChosenAgent
<1>6. Pending(d)
  BY <1>0 DEF Pending
<1>7. \A c \in Conns : Pending(c)' <=> Pending(c) /\ c # d
  <2>1. \A k \in Kinds : k # sk => client[k] # d
    BY <1>0, <1>1 DEF WaitsOnce
  <2>2. \A k \in Kinds : \A i \in DOMAIN backlog[k] : backlog[k][i] # d
    BY <1>0 DEF WaitsOnce
  <2> QED
    BY <1>0, <1>3, <2>1, <2>2, PoolAssumption DEF Pending
<1>8. \A c \in Conns : Held(c)' <=> Held(c) \/ c = d
  <2> TAKE c \in Conns
  <2>1. c # NoConn
    BY PoolAssumption
  <2>2. ASSUME NEW k \in Kinds, NEW a \in DOMAIN pool[k]
        PROVE  Holds(k, a, c)' <=> Holds(k, a, c) \/ (k = sk /\ a = ap /\ c = d)
    <3>1. CASE k = sk /\ a = ap
      <4>1. Holds(k, a, c)' <=> c = d
        BY <1>2, <1>4, <3>1 DEF Holds
      <4>2. ~ Holds(k, a, c)
        BY <1>5, <2>1, <3>1 DEF Holds
      <4> QED
        BY <3>1, <4>1, <4>2
    <3>2. CASE ~ (k = sk /\ a = ap)
      BY <1>4, <3>2 DEF Holds
    <3> QED
      BY <3>1, <3>2
  <2>3. Held(c)' <=> \E k \in Kinds : \E a \in DOMAIN pool[k] : Holds(k, a, c)'
    BY <1>4 DEF Held
  <2> QED
    BY <1>0, <1>2, <2>2, <2>3 DEF Held
<1>9. WaitsOnce'
  <2>1. \A k \in Kinds : \A i \in DOMAIN backlog[k] : backlog[k][i] # NoConn
    BY PoolAssumption DEF TypeOK
  <2> QED
    BY <1>0, <1>3, <2>1 DEF WaitsOnce
<1>10. PlacesApart'
  <2>1. \A c \in Conns : Pending(c)' => ~ Held(c)' /\ c \notin closed'
    BY <1>0, <1>7, <1>8 DEF PlacesApart
  <2>2. \A k \in Kinds : \A a \in DOMAIN pool[k] : ~ Holds(k, a, d)
    BY <1>1, <1>6 DEF PlacesApart, Held
  <2>3. ASSUME NEW k \in Kinds, NEW l \in Kinds, NEW a \in DOMAIN pool'[k],
               NEW b \in DOMAIN pool'[l], ~ pool'[k][a].idle, pool'[k][a].sock # NoConn,
               ~ pool'[l][b].idle, pool'[l][b].sock = pool'[k][a].sock
        PROVE  k = l /\ a = b
    <3>0. a \in DOMAIN pool[k] /\ b \in DOMAIN pool[l]
      BY <1>4
    <3>1. CASE k = sk /\ a = ap
      BY <1>2, <1>4, <2>2, <2>3, <3>0, <3>1 DEF Holds
    <3>2. CASE l = sk /\ b = ap
      BY <1>2, <1>4, <2>2, <2>3, <3>0, <3>2 DEF Holds
    <3>3. CASE ~ (k = sk /\ a = ap) /\ ~ (l = sk /\ b = ap)
      BY <1>4, <2>3, <3>0, <3>3 DEF PlacesApart, Holds
    <3> QED
      BY <3>1, <3>2, <3>3
  <2> QED
    BY <2>1, <2>3 DEF PlacesApart, Holds
<1> QED
  BY <1>0, <1>1, <1>2, <1>4, <1>6, <1>7, <1>8, <1>9, <1>10

LEMMA CloseMoves ==
    ASSUME TypeOK, ThreadsServe, WaitsOnce, PlacesApart, NEW t \in threads, CloseConnection(t)
    PROVE  /\ closed' = closed \cup {t.conn}
           /\ WaitsOnce' /\ PlacesApart'
<1>1. Holds(t.kind, t.agent, t.conn) /\ t.kind \in Kinds /\ t.agent \in DOMAIN pool[t.kind]
  BY OneHolder
<1>2. closed' = closed \cup {t.conn} /\ UNCHANGED <<backlog, client, pool>>
  BY <1>1 DEF CloseConnection, Holds, socketVars, serverVars
<1>3. Held(t.conn)
  BY <1>1 DEF Held
<1>4. /\ \A c : Pending(c)' <=> Pending(c)
      /\ \A c : Held(c)' <=> Held(c)
      /\ WaitsOnce'
  BY <1>2, SamePlaces
<1>5. PlacesApart'
  BY <1>2, <1>3, <1>4 DEF PlacesApart, Holds
<1> QED
  BY <1>2, <1>4, <1>5

LEMMA GoIdleMoves ==
    ASSUME TypeOK, ThreadsServe, WaitsOnce, PlacesApart, NEW t \in threads, GoIdle(t)
    PROVE  /\ \A c \in Conns : Pending(c)' <=> Pending(c)
           /\ \A c \in Conns : Held(c)' <=> Held(c) /\ c # t.conn
           /\ WaitsOnce' /\ PlacesApart'
<1> DEFINE x == [idle |-> TRUE, sock |-> t.conn]
<1>0. UNCHANGED <<backlog, client, closed>>
  BY DEF GoIdle, socketVars, serverVars
<1>1. /\ t.kind \in Kinds /\ t.agent \in DOMAIN pool[t.kind]
      /\ pool' = [pool EXCEPT ![t.kind][t.agent] = x] /\ x \in Agents /\ x.idle
  BY IdleWritten
<1>2. /\ Holds(t.kind, t.agent, t.conn)
      /\ \A k \in Kinds : \A a \in DOMAIN pool[k] :
             Holds(k, a, t.conn) => k = t.kind /\ a = t.agent
  BY OneHolder
<1> HIDE DEF x
<1>3. /\ \A l \in Kinds : DOMAIN pool'[l] = DOMAIN pool[l]
      /\ pool'[t.kind][t.agent] = x
      /\ \A l \in Kinds : \A b \in DOMAIN pool[l] :
             l # t.kind \/ b # t.agent => pool'[l][b] = pool[l][b]
  BY <1>1, AgentWritten
<1>4. \A c : Pending(c)' <=> Pending(c)
  BY <1>0 DEF Pending
<1>5. \A c \in Conns : Held(c)' <=> Held(c) /\ c # t.conn
  <2> TAKE c \in Conns
  <2>1. \A k \in Kinds : \A a \in DOMAIN pool[k] :
            Holds(k, a, c)' <=> Holds(k, a, c) /\ c # t.conn
    BY <1>1, <1>2, <1>3 DEF Holds
  <2>2. Held(c)' <=> \E k \in Kinds : \E a \in DOMAIN pool[k] : Holds(k, a, c)'
    BY <1>3 DEF Held
  <2> QED
    BY <2>1, <2>2 DEF Held
<1>6. WaitsOnce'
  BY <1>0 DEF WaitsOnce
<1>7. PlacesApart'
  <2>1. \A c \in Conns : Pending(c)' => ~ Held(c)' /\ c \notin closed'
    BY <1>0, <1>4, <1>5 DEF PlacesApart
  <2>2. \A k \in Kinds : \A a \in DOMAIN pool'[k] :
            /\ a \in DOMAIN pool[k]
            /\ ~ pool'[k][a].idle => pool'[k][a] = pool[k][a]
    BY <1>1, <1>3
  <2> QED
    BY <2>1, <2>2 DEF PlacesApart, Holds
<1> QED
  BY <1>4, <1>5, <1>6, <1>7

LEMMA ConnectMoves ==
    ASSUME TypeOK, WaitsOnce, PlacesApart, NEW c \in Conns, NEW k \in Kinds, Connect(c, k)
    PROVE  /\ \A e \in Conns : Pending(e)' <=> Pending(e) \/ e = c
           /\ \A e : Held(e)' <=> Held(e)
           /\ WaitsOnce' /\ PlacesApart'
<1> DEFINE n == Len(backlog[k]) + 1
<1>0. /\ UNCHANGED <<client, pool, closed>> /\ ~ Pending(c) /\ ~ Held(c) /\ c \notin closed
      /\ backlog' = [backlog EXCEPT ![k] = Append(@, c)]
  BY DEF Connect, serverVars, poolVars, Known
<1>1. /\ \A l \in Kinds : l # k => backlog'[l] = backlog[l]
      /\ DOMAIN backlog'[k] = DOMAIN backlog[k] \cup {n}
      /\ backlog'[k][n] = c
      /\ \A i \in DOMAIN backlog[k] : backlog'[k][i] = backlog[k][i]
  BY <1>0, ConnectionQueued
<1> HIDE DEF n
<1>2. \A l \in Kinds : \A i \in DOMAIN backlog'[l] :
          \/ i \in DOMAIN backlog[l] /\ backlog'[l][i] = backlog[l][i]
          \/ l = k /\ i = n /\ backlog'[l][i] = c
  BY <1>1
<1>3. \A l \in Kinds : \A i \in DOMAIN backlog[l] :
          i \in DOMAIN backlog'[l] /\ backlog'[l][i] = backlog[l][i]
  BY <1>1
<1>4. \A e \in Conns : Pending(e)' <=> Pending(e) \/ e = c
  <2>1. Pending(c)'
    BY <1>1 DEF Pending
  <2>2. \A e \in Conns : Pending(e) => Pending(e)'
    BY <1>0, <1>3 DEF Pending
  <2>3. \A e \in Conns : Pending(e)' => Pending(e) \/ e = c
    BY <1>0, <1>2 DEF Pending
  <2> QED
    BY <2>1, <2>2, <2>3
<1>5. \A e : Held(e)' <=> Held(e)
  BY <1>0 DEF Held, Holds
<1>6. WaitsOnce'
  BY <1>0, <1>2 DEF WaitsOnce, Pending
<1>7. PlacesApart'
  BY <1>0, <1>4, <1>5 DEF PlacesApart, Holds
<1> QED
  BY <1>4, <1>5, <1>6, <1>7

LEMMA StepKeepsPlaces ==
    ASSUME TypeOK, ServerPhase, ClientsInHand, ChosenAgent, ThreadsServe, WaitsOnce,
           PlacesApart, Server \/ Outside
    PROVE  WaitsOnce' /\ PlacesApart'
<1>1. CASE UNCHANGED <<backlog, client, pool, closed>>
  BY <1>1, SamePlaces
<1>2. CASE ~ UNCHANGED <<backlog, client, pool, closed>>
  <2>1. \/ Accept \/ SearchPool \/ Assign
        \/ \E t \in threads : CloseConnection(t) \/ GoIdle(t)
        \/ \E c \in Conns, k \in Kinds : Connect(c, k)
    BY <1>2, Zenon DEF Server, Outside, SocketInitialize, SocketCreate, SocketBind, SocketListen,
       Select, NoClient, TakePool, GivePool, Run, CliTake, CliWalk, CliGive, BillOut, socketVars,
       serverVars, poolVars
  <2> QED
    BY <2>1, AcceptMoves, SearchMoves, AssignMoves, CloseMoves, GoIdleMoves, ConnectMoves
<1> QED
  BY <1>1, <1>2

-----------------------------------------------------------------------------
(* The size of the pools. *)

LEMMA IntervalSize == ASSUME NEW n \in Nat PROVE Cardinality(1 .. n) = n
<1>1. n \in Int /\ 1 \in Int
  OBVIOUS
<1>2. Cardinality(1 .. n) = IF 1 > n THEN 0 ELSE n - 1 + 1
  BY <1>1, FS_Interval
<1> QED
  BY <1>2

LEMMA SeenFinite ==
    ASSUME TypeOK, NEW k \in Kinds, NEW i \in Nat
    PROVE  /\ IsFiniteSet(Seen(k, i)) /\ Cardinality(Seen(k, i)) \in Nat
           /\ IsFiniteSet(Busy(pool[k])) /\ Cardinality(Busy(pool[k])) \in Nat
<1>1. IsFiniteSet(Busy(pool[k])) /\ Cardinality(Busy(pool[k])) \in Nat
  BY BusyCounted DEF TypeOK
<1>2. IsFiniteSet(1 .. i - 1)
  BY FS_Interval
<1> QED
  BY <1>1, <1>2, FS_Union, FS_CardinalityType DEF Seen

(* Agents that turn idle only make the set smaller. *)
LEMMA SeenShrinks ==
    ASSUME TypeOK, SearchSeen, PoolBounded, UNCHANGED <<spc, sk, ap, peak>>,
           \A k \in Kinds : /\ Len(pool'[k]) = Len(pool[k])
                            /\ Busy(pool'[k]) \subseteq Busy(pool[k])
    PROVE  SearchSeen' /\ PoolBounded'
<1>1. SearchSeen'
  <2> SUFFICES ASSUME spc = "search", ap > 1 PROVE Cardinality(Seen(sk, ap)') <= peak[sk]
    BY DEF SearchSeen
  <2>1. sk \in Kinds /\ ap \in Nat /\ peak[sk] \in Nat /\ Cardinality(Seen(sk, ap)) <= peak[sk]
    BY DEF TypeOK, SearchSeen
  <2>2. Seen(sk, ap)' \subseteq Seen(sk, ap)
    BY <2>1 DEF Seen
  <2>3. /\ Cardinality(Seen(sk, ap)') <= Cardinality(Seen(sk, ap))
        /\ Cardinality(Seen(sk, ap)') \in Nat /\ Cardinality(Seen(sk, ap)) \in Nat
    BY <2>1, <2>2, SeenFinite, FS_Subset, FS_CardinalityType
  <2> QED
    BY <2>1, <2>3
<1>2. PoolBounded'
  BY DEF PoolBounded
<1> QED
  BY <1>1, <1>2

LEMMA ServerKeepsBound ==
    ASSUME TypeOK, TypeOK', ChosenAgent, SearchSeen, PoolBounded, Server
    PROVE  SearchSeen' /\ PoolBounded'
<1>0. /\ sk \in Kinds /\ pool[sk] \in Seq(Agents) /\ Len(pool[sk]) \in Nat /\ ap \in Nat
      /\ peak \in [Kinds -> Nat] /\ peak' \in [Kinds -> Nat]
  BY DEF TypeOK
<1>a. \A k \in Kinds : /\ Cardinality(Busy(pool'[k])) \in Nat
                       /\ Len(pool[k]) \in Nat /\ Len(pool'[k]) \in Nat
  <2> TAKE k \in Kinds
  <2>1. pool[k] \in Seq(Agents) /\ pool'[k] \in Seq(Agents)
    BY DEF TypeOK
  <2> QED
    BY <2>1, BusyCounted
<1>1. CASE SearchPool
  <2> DEFINE busy == Cardinality(Busy(pool'[sk]))
  <2>1. /\ spc = "search" /\ UNCHANGED sk
        /\ peak' = [peak EXCEPT ![sk] = IF busy > @ THEN busy ELSE @]
    BY <1>1 DEF SearchPool, CountBusy
  <2>2. /\ peak'[sk] >= busy /\ peak'[sk] >= peak[sk] /\ peak'[sk] \in Nat
        /\ \A k \in Kinds : k # sk => peak'[k] = peak[k]
    BY <1>0, <1>a, <2>1
  <2> HIDE DEF busy
  <2>3. CASE ap <= Len(pool[sk])
    <3>1. /\ UNCHANGED pool
          /\ (pool[sk][ap].idle /\ spc' = "assign") \/ (~ pool[sk][ap].idle /\ ap' = ap + 1)
      BY <1>1, <2>3 DEF SearchPool
    <3>2. PoolBounded'
      BY <1>0, <1>a, <2>1, <2>2, <3>1 DEF PoolBounded
    <3>3. ASSUME ~ pool[sk][ap].idle, ap' = ap + 1 PROVE Cardinality(Seen(sk, ap)') <= peak'[sk]
      <4>1. ap >= 1 /\ ap \in Busy(pool[sk])
        BY <1>0, <2>1, <2>3, <3>3 DEF ChosenAgent, Busy
      <4>2. Seen(sk, ap)' = (1 .. ap) \cup Busy(pool[sk])
        BY <1>0, <2>1, <3>1, <3>3 DEF Seen
      <4>3. CASE ap = 1
        <5>1. Seen(sk, ap)' = Busy(pool'[sk])
          BY <3>1, <4>1, <4>2, <4>3
        <5> QED
          BY <2>2, <5>1 DEF busy
      <4>4. CASE ap > 1
        <5>1. Seen(sk, ap)' = Seen(sk, ap)
          BY <1>0, <4>1, <4>2 DEF Seen
        <5>2. Cardinality(Seen(sk, ap)) <= peak[sk] /\ Cardinality(Seen(sk, ap)) \in Nat
          BY <1>0, <2>1, <4>4, SeenFinite DEF SearchSeen
        <5> QED
          BY <1>0, <2>2, <5>1, <5>2
      <4> QED
        BY <1>0, <4>1, <4>3, <4>4
    <3> QED
      BY <2>1, <3>1, <3>2, <3>3 DEF SearchSeen
  <2>4. CASE ap = Len(pool[sk]) + 1
    <3>1. /\ pool' = [pool EXCEPT ![sk] = Append(@, [idle |-> FALSE, sock |-> NoConn])]
          /\ spc' = "assign"
      <4>1. ~ (ap <= Len(pool[sk]))
        BY <1>0, <2>4
      <4> QED
        BY <1>1, <4>1 DEF SearchPool
    <3>2. [idle |-> FALSE, sock |-> NoConn] \in Agents
      BY DEF Agents
    <3>3. Len(pool'[sk]) = Len(pool[sk]) + 1 /\ \A k \in Kinds : k # sk => pool'[k] = pool[k]
      BY <1>0, <3>1, <3>2, AgentAdded
    <3>4. Len(pool[sk]) <= peak[sk]
      <4>1. CASE Len(pool[sk]) = 0
        BY <1>0, <4>1
      <4>2. CASE Len(pool[sk]) > 0
        <5>1. Seen(sk, ap) = 1 .. Len(pool[sk])
          BY <1>0, <2>4 DEF Seen, Busy
        <5>2. Cardinality(1 .. Len(pool[sk])) = Len(pool[sk])
          BY <1>0, IntervalSize
        <5>3. spc = "search" /\ ap > 1
          BY <1>0, <2>1, <2>4, <4>2
        <5> QED
          BY <5>1, <5>2, <5>3 DEF SearchSeen
      <4> QED
        BY <1>0, <4>1, <4>2
    <3>5. PoolBounded'
      BY <1>0, <1>a, <2>1, <2>2, <3>3, <3>4 DEF PoolBounded
    <3> QED
      BY <3>1, <3>5 DEF SearchSeen
  <2> QED
    BY <1>0, <2>1, <2>3, <2>4 DEF ChosenAgent
<1>2. CASE Assign
  <2> DEFINE x == [idle |-> FALSE, sock |-> client[sk]]
             busy == Cardinality(Busy(pool'[sk]))
  <2>1. /\ spc' = "give" /\ spc = "assign" /\ ap \in DOMAIN pool[sk] /\ x \in Agents
        /\ pool' = [pool EXCEPT ![sk][ap] = x]
        /\ peak' = [peak EXCEPT ![sk] = IF busy > @ THEN busy ELSE @]
    BY <1>2 DEF Assign, CountBusy, ChosenAgent, Agents, TypeOK
  <2>2. \A k \in Kinds : Len(pool'[k]) = Len(pool[k])
    BY <1>0, <2>1, AgentWritten
  <2>3. \A k \in Kinds : peak'[k] >= peak[k] /\ peak[k] \in Nat /\ peak'[k] \in Nat
    BY <1>0, <1>a, <2>1
  <2>4. PoolBounded'
    BY <1>a, <2>2, <2>3 DEF PoolBounded
  <2> QED
    BY <2>1, <2>4 DEF SearchSeen
<1>3. CASE ~ SearchPool /\ ~ Assign
  <2>1. /\ UNCHANGED <<pool, peak>>
        /\ spc' = "search" => ap' = 1
    BY <1>3 DEF Server, SocketInitialize, SocketCreate, SocketBind, SocketListen, Select, Accept,
       NoClient, TakePool, GivePool, Run, In, serverVars, poolVars
  <2> QED
    BY <1>0, <2>1 DEF SearchSeen, PoolBounded
<1> QED
  BY <1>1, <1>2, <1>3

LEMMA OutsideKeepsBound ==
    ASSUME TypeOK, ThreadsServe, SearchSeen, PoolBounded, Outside
    PROVE  SearchSeen' /\ PoolBounded'
<1>1. UNCHANGED <<spc, sk, ap, peak>>
  BY Zenon DEF Outside, CloseConnection, GoIdle, CliTake, CliWalk, CliGive, Connect, serverVars,
     poolVars
<1>2. CASE \E t \in threads : GoIdle(t)
  <2> PICK t \in threads : GoIdle(t)
    BY <1>2
  <2> DEFINE x == [idle |-> TRUE, sock |-> t.conn]
  <2>1. /\ t.kind \in Kinds /\ t.agent \in DOMAIN pool[t.kind] /\ x \in Agents /\ x.idle
        /\ pool' = [pool EXCEPT ![t.kind][t.agent] = x]
    BY IdleWritten
  <2> HIDE DEF x
  <2>2. /\ \A l \in Kinds : DOMAIN pool'[l] = DOMAIN pool[l] /\ Len(pool'[l]) = Len(pool[l])
        /\ pool'[t.kind][t.agent] = x
        /\ \A l \in Kinds : \A b \in DOMAIN pool[l] :
               l # t.kind \/ b # t.agent => pool'[l][b] = pool[l][b]
    BY <2>1, AgentWritten
  <2>3. \A k \in Kinds : Busy(pool'[k]) \subseteq Busy(pool[k])
    BY <2>1, <2>2 DEF Busy
  <2> QED
    BY <1>1, <2>2, <2>3, SeenShrinks
<1>3. CASE ~ \E t \in threads : GoIdle(t)
  <2>1. UNCHANGED pool
    BY <1>3 DEF Outside, CloseConnection, CliTake, CliWalk, CliGive, Connect, poolVars
  <2> QED
    BY <1>1, <2>1, SeenShrinks
<1> QED
  BY <1>2, <1>3

-----------------------------------------------------------------------------
(* The theorems. *)

LEMMA PoolInvInit == Init => PoolInv
<1> SUFFICES ASSUME Init PROVE PoolInv
  OBVIOUS
<1> USE PoolAssumption DEF Init
<1>1. TypeOK
  <2>1. bill_out \in BOOLEAN
    OBVIOUS
  <2>2. client \in [Kinds -> Conns \cup {NoConn}] /\ peak \in [Kinds -> Nat] /\ sk \in Kinds
    BY DEF Kinds
  <2>3. backlog \in [Kinds -> Seq(Conns)] /\ pool \in [Kinds -> Seq(Agents)]
    OBVIOUS
  <2> QED
    BY <2>1, <2>2, <2>3 DEF TypeOK
<1>2. ServerPhase /\ ClientsInHand /\ ChosenAgent /\ ThreadsServe /\ SearchSeen
  BY DEF ServerPhase, ClientsInHand, ChosenAgent, ThreadsServe, SearchSeen
<1>3. WaitsOnce
  BY DEF WaitsOnce
<1>4. PlacesApart
  BY DEF PlacesApart, Pending, Held, Holds
<1>5. PoolBounded
  BY DEF PoolBounded
<1> QED
  BY <1>1, <1>2, <1>3, <1>4, <1>5 DEF PoolInv

LEMMA PoolInvStep == PoolInv /\ [Next]_vars => PoolInv'
<1> SUFFICES ASSUME PoolInv, [Next]_vars PROVE PoolInv'
  OBVIOUS
<1> USE DEF PoolInv
<1>1. CASE Server
  <2>1. TypeOK'
    BY <1>1, ServerKeepsTypes
  <2> QED
    BY <1>1, <2>1, ServerKeepsPhase, ServerKeepsThreads, StepKeepsPlaces, ServerKeepsBound
<1>2. CASE Outside
  BY <1>2, OutsideKeepsTypes, OutsideKeepsPhase, OutsideKeepsThreads, StepKeepsPlaces,
     OutsideKeepsBound
<1>3. CASE UNCHANGED vars
  <2>1. UNCHANGED <<socketState, bill_out, listening, leaked, backlog, spc, sk, ready, client, ap,
                    pool, threads, closed, peak, mpMutex, cpc, ci, faults>>
    BY <1>3 DEF vars, socketVars, serverVars, poolVars, cliVars
  <2>2. TypeOK'
    BY <2>1 DEF TypeOK
  <2>3. ServerPhase' /\ ClientsInHand' /\ ChosenAgent' /\ ThreadsServe'
    BY <2>1 DEF ServerPhase, ClientsInHand, ChosenAgent, ThreadsServe
  <2>4. WaitsOnce' /\ PlacesApart'
    BY <2>1, SamePlaces
  <2>5. SearchSeen' /\ PoolBounded'
    BY <2>1 DEF SearchSeen, Seen, PoolBounded
  <2> QED
    BY <2>2, <2>3, <2>4, <2>5
<1> QED
  BY <1>1, <1>2, <1>3 DEF Next, Outside

LEMMA PoolInvariant == Spec => []PoolInv
<1>1. Init => PoolInv
  BY PoolInvInit
<1>2. PoolInv /\ [Next]_vars => PoolInv'
  BY PoolInvStep
<1> QED
  BY <1>1, <1>2, PTL DEF Spec

(* Every variable keeps its type; among others, the agent that give() and  *)
(* run() are about is in its pool, for any number of ports.                *)
THEOREM PoolTypeCorrect == Spec => []TypeOK
<1>1. PoolInv => TypeOK
  BY DEF PoolInv
<1> QED
  BY <1>1, PoolInvariant, PTL

(* The server never gives an agent a second connection while its thread    *)
(* runs, though nothing protects the idle flags: only the server clears    *)
(* them, and each is set by the one thread that its agent has.             *)
THEOREM AgentsServeOne == Spec => []AgentServesOne
<1>1. PoolInv => AgentServesOne
  BY DEF PoolInv, ThreadsServe, AgentServesOne
<1> QED
  BY <1>1, PoolInvariant, PTL

(* No connection is in two places: not in two pools or two agents, and not *)
(* both waiting and held.                                                  *)
THEOREM ConnectionHeldOnce == Spec => []HeldOnce
<1>1. PoolInv => HeldOnce
  BY DEF PoolInv, PlacesApart, HeldOnce
<1> QED
  BY <1>1, PoolInvariant, PTL

(* The pools grow with the agents busy at a time, not with the connections *)
(* served: what a search passes was all busy when it began.                *)
THEOREM PoolsBounded == Spec => []PoolBounded
<1>1. PoolInv => PoolBounded
  BY DEF PoolInv
<1> QED
  BY <1>1, PoolInvariant, PTL

-----------------------------------------------------------------------------
(* The refinement of ConnService, but for its fairness. *)

LEMMA LifeOf ==
    ASSUME NEW c \in Conns
    PROVE  /\ c \in closed => life[c] = "closed"
           /\ c \notin closed /\ Started(c) => life[c] = "served"
           /\ c \notin closed /\ ~ Started(c) /\ (Pending(c) \/ AboutToRun(c))
                 => life[c] = "waiting"
           /\ c \notin closed /\ ~ Started(c) /\ ~ Pending(c) /\ ~ AboutToRun(c)
                 => life[c] = IF Held(c) THEN "lost" ELSE "new"
BY DEF life

(* life depends on these four facts about a connection only. *)
LEMMA SameLife ==
    ASSUME NEW c \in Conns,
           c \in closed' <=> c \in closed,
           c \notin closed => /\ Started(c)' <=> Started(c)
                              /\ (Pending(c) \/ AboutToRun(c))' <=> Pending(c) \/ AboutToRun(c)
                              /\ Held(c)' <=> Held(c)
    PROVE  life'[c] = life[c]
<1>1. /\ c \in closed' => life'[c] = "closed"
      /\ c \notin closed' /\ Started(c)' => life'[c] = "served"
      /\ c \notin closed' /\ ~ Started(c)' /\ (Pending(c)' \/ AboutToRun(c)')
            => life'[c] = "waiting"
      /\ c \notin closed' /\ ~ Started(c)' /\ ~ Pending(c)' /\ ~ AboutToRun(c)'
            => life'[c] = IF Held(c)' THEN "lost" ELSE "new"
  BY DEF life
<1> QED
  BY <1>1, LifeOf

LEMMA LifeMoves ==
    ASSUME NEW c \in Conns, NEW to, life'[c] = to,
           \A e \in Conns : e # c => life'[e] = life[e]
    PROVE  life' = [life EXCEPT ![c] = to]
BY DEF life

LEMMA LifeStays ==
    ASSUME \A c \in Conns : life'[c] = life[c]
    PROVE  life' = life
BY DEF life

(* Connections, agents and threads stay as they are; the server goes on.   *)
LEMMA LifeUntouched ==
    ASSUME UNCHANGED <<backlog, client, pool, threads, closed>>,
           \A c \in Conns : AboutToRun(c)' <=> AboutToRun(c)
    PROVE  life' = life
<1>1. \A c \in Conns : /\ Pending(c)' <=> Pending(c)
                       /\ Held(c)' <=> Held(c)
                       /\ Started(c)' <=> Started(c)
  BY DEF Pending, Held, Holds, Started
<1> QED
  BY <1>1, SameLife, LifeStays

(* Who has a thread is held by it, and who is about to have one is held by *)
(* the agent that has been chosen, which has none.                         *)
LEMMA HolderOf ==
    ASSUME PoolInv, NEW c \in Conns
    PROVE  /\ Started(c) => Held(c) /\ ~ Pending(c) /\ ~ AboutToRun(c)
           /\ AboutToRun(c) => Held(c) /\ ~ Pending(c) /\ c \notin closed
<1>1. Held(c) => ~ Pending(c)
  BY DEF PoolInv, PlacesApart
<1>2. AboutToRun(c) => /\ sk \in Kinds /\ ap \in DOMAIN pool[sk] /\ Holds(sk, ap, c)
                       /\ c \notin closed
                       /\ \A t \in threads : ~ (t.kind = sk /\ t.agent = ap)
  BY DEF PoolInv, ChosenAgent, AboutToRun, TypeOK, Holds
<1>3. ASSUME NEW t \in threads, t.conn = c
      PROVE  /\ t.kind \in Kinds /\ t.agent \in DOMAIN pool[t.kind]
             /\ Holds(t.kind, t.agent, c)
             /\ \A k \in Kinds : \A a \in DOMAIN pool[k] :
                    Holds(k, a, c) => k = t.kind /\ a = t.agent
  BY <1>3, OneHolder DEF PoolInv
<1>4. Started(c) => Held(c) /\ ~ AboutToRun(c)
  BY <1>2, <1>3 DEF Started, Held
<1>5. AboutToRun(c) => Held(c) /\ c \notin closed
  BY <1>2 DEF Held
<1> QED
  BY <1>1, <1>4, <1>5

LEMMA ServerLife ==
    ASSUME PoolInv, Server, UNCHANGED bill_out
    PROVE  \/ life' = life
           \/ \E c \in Conns : Service!Serve(c) \/ Service!Lose(c)
<1> USE DEF PoolInv
<1>1. CASE Accept \/ SearchPool
  <2>1. /\ UNCHANGED <<threads, closed>>
        /\ spc \in {"accept", "search"} /\ spc' \in {"main", "accept", "search", "assign"}
    BY <1>1 DEF Accept, SearchPool, poolVars
  <2>2. \A c \in Conns : ~ AboutToRun(c) /\ ~ AboutToRun(c)'
    BY <2>1 DEF AboutToRun
  <2>3. \A c \in Conns : (Pending(c)' <=> Pending(c)) /\ (Started(c)' <=> Started(c))
    BY <1>1, <2>1, AcceptMoves, SearchMoves DEF Started
  <2>4. \A c \in Conns : Held(c)' <=> Held(c)
    <3>1. CASE Accept
      BY <3>1 DEF Accept, poolVars, Held, Holds
    <3> QED
      BY <1>1, <3>1, SearchMoves
  <2> QED
    BY <2>1, <2>2, <2>3, <2>4, SameLife, LifeStays
<1>2. CASE Assign
  <2> DEFINE d == client[sk]
  <2>1. /\ UNCHANGED <<threads, closed, sk, ap>> /\ spc = "assign" /\ spc' = "give"
    BY <1>2 DEF Assign
  <2>2. /\ d \in Conns /\ Pending(d) /\ pool'[sk][ap].sock = d
        /\ \A c \in Conns : Pending(c)' <=> Pending(c) /\ c # d
        /\ \A c \in Conns : Held(c)' <=> Held(c) \/ c = d
    BY <1>2, AssignMoves
  <2> HIDE DEF d
  <2>3. \A c \in Conns : ~ AboutToRun(c) /\ (AboutToRun(c)' <=> c = d)
    BY <2>1, <2>2 DEF AboutToRun
  <2>4. \A c \in Conns : Started(c)' <=> Started(c)
    BY <2>1 DEF Started
  <2>5. \A c \in Conns : c # d => life'[c] = life[c]
    BY <2>1, <2>2, <2>3, <2>4, SameLife
  <2>6. life[d] = "waiting" /\ life'[d] = "waiting"
    <3>1. d \notin closed /\ ~ Started(d)
      BY <2>2, HolderOf DEF PlacesApart
    <3> QED
      BY <2>1, <2>2, <2>3, <2>4, <3>1 DEF life
  <2> QED
    BY <2>5, <2>6, LifeStays
<1>3. CASE Run
  <2>0. pool[sk][ap].sock \in Conns /\ ~ bill_out
    BY <1>3 DEF Run, ServerPhase, ChosenAgent
  <2> PICK d \in Conns : d = pool[sk][ap].sock
    BY <2>0
  <2>1. /\ spc = "run" /\ spc' = "main" /\ UNCHANGED <<backlog, client, pool, closed>>
        /\ threads' = threads \/ threads' = threads \cup {Thread(sk, ap)}
    BY <1>3 DEF Run
  <2>2. ~ bill_out /\ d \in Conns
    BY <2>0
  <2>3. Thread(sk, ap).conn = d /\ Thread(sk, ap).pc = "main"
    BY DEF Thread
  <2>4. \A c \in Conns : ~ AboutToRun(c)' /\ (AboutToRun(c) <=> c = d)
    BY <2>1 DEF AboutToRun
  <2>5. \A c \in Conns : (Pending(c)' <=> Pending(c)) /\ (Held(c)' <=> Held(c))
    BY <2>1, SamePlaces
  <2>6. d \notin closed /\ ~ Started(d) /\ Held(d) /\ ~ Pending(d)
    BY <2>2, <2>4, HolderOf
  <2>7. \A c \in Conns : c # d => life'[c] = life[c]
    <3>1. \A c \in Conns : c # d => (Started(c)' <=> Started(c))
      BY <2>1, <2>3 DEF Started
    <3> QED
      BY <2>1, <2>4, <2>5, <3>1, SameLife
  <2>8. life[d] = "waiting"
    BY <2>2, <2>4, <2>6, LifeOf
  <2>9. CASE threads' = threads
    <3>1. ~ Started(d)'
      BY <2>6, <2>9 DEF Started
    <3>2. life'[d] = "lost"
      BY <2>1, <2>2, <2>4, <2>5, <2>6, <3>1 DEF life
    <3>3. life' = [life EXCEPT ![d] = "lost"]
      BY <2>2, <2>7, <3>2, LifeMoves
    <3> QED
      BY <2>2, <2>8, <3>3 DEF Service!Lose, Service!Becomes
  <2>10. CASE threads' = threads \cup {Thread(sk, ap)}
    <3>1. Started(d)'
      BY <2>3, <2>10 DEF Started
    <3>2. life'[d] = "served"
      BY <2>1, <2>2, <2>6, <3>1 DEF life
    <3>3. life' = [life EXCEPT ![d] = "served"]
      BY <2>2, <2>7, <3>2, LifeMoves
    <3> QED
      BY <2>2, <2>8, <3>3 DEF Service!Serve, Service!Becomes
  <2> QED
    BY <2>1, <2>9, <2>10
<1>4. CASE ~ (Accept \/ SearchPool \/ Assign \/ Run)
  <2>1. UNCHANGED <<backlog, client, pool, threads, closed>>
    BY <1>4, Zenon DEF Server, SocketInitialize, SocketCreate, SocketBind, SocketListen, Select,
       NoClient, TakePool, GivePool, BillOut, socketVars, serverVars, poolVars
  <2>2. \/ spc \in {"main", "accept"} /\ spc' \in {"main", "accept", "search"}
        \/ spc = "give" /\ spc' = "run" /\ UNCHANGED <<sk, ap>>
    BY <1>4 DEF Server, SocketInitialize, SocketCreate, SocketBind, SocketListen, Select,
       NoClient, TakePool, GivePool, In, serverVars
  <2>3. \A c \in Conns : AboutToRun(c)' <=> AboutToRun(c)
    BY <2>1, <2>2 DEF AboutToRun
  <2> QED
    BY <2>1, <2>3, LifeUntouched
<1> QED
  BY <1>1, <1>2, <1>3, <1>4

LEMMA BillOutLife ==
    ASSUME PoolInv, Server, ~ UNCHANGED bill_out
    PROVE  Service!Stop
<1>1. /\ BillOut /\ spc \in {"main", "accept"} /\ spc' = "main"
      /\ UNCHANGED <<client, pool, threads, closed>>
  BY DEF Server, SocketInitialize, SocketCreate, SocketBind, SocketListen, Select, Accept,
     NoClient, TakePool, SearchPool, Assign, GivePool, Run, In, serverVars, poolVars
<1>2. life' = life
  BY <1>1, LifeUntouched DEF BillOut, socketVars, AboutToRun
<1>3. ~ bill_out /\ bill_out' = TRUE
  BY <1>1, Zenon DEF BillOut, PoolInv, TypeOK
<1> QED
  BY <1>2, <1>3, Zenon DEF Service!Stop

LEMMA OutsideLife ==
    ASSUME PoolInv, Outside
    PROVE  \/ life' = life
           \/ \E c \in Conns : Service!Connect(c) \/ Service!Close(c)
<1> USE DEF PoolInv
<1>0. UNCHANGED bill_out /\ UNCHANGED <<spc, sk, ap>>
  BY Zenon DEF Outside, CloseConnection, GoIdle, CliTake, CliWalk, CliGive, Connect, serverVars
<1>1. CASE \E t \in threads : CloseConnection(t)
  <2> PICK t \in threads : CloseConnection(t)
    BY <1>1
  <2> DEFINE u == [t EXCEPT !.pc = "closed"]
  <2>1. /\ UNCHANGED <<backlog, client, pool>> /\ t.pc = "main" /\ t.conn \in Conns
        /\ threads' = (threads \ {t}) \cup {u} /\ closed' = closed \cup {t.conn}
        /\ u.conn = t.conn /\ u.pc = "closed"
    BY CloseMoves DEF CloseConnection, OthersOf, socketVars, serverVars, TypeOK
  <2> HIDE DEF u
  <2>2. \A c \in Conns : (Pending(c)' <=> Pending(c)) /\ (Held(c)' <=> Held(c))
    BY <2>1, SamePlaces
  <2>3. \A c \in Conns : AboutToRun(c)' <=> AboutToRun(c)
    BY <1>0, <2>1 DEF AboutToRun
  <2>4. \A c \in Conns : c # t.conn => (Started(c)' <=> Started(c))
    BY <2>1 DEF Started
  <2>5. \A c \in Conns : c # t.conn => life'[c] = life[c]
    BY <2>1, <2>2, <2>3, <2>4, SameLife
  <2>6. life[t.conn] = "served"
    <3>1. t.conn \notin closed /\ Started(t.conn)
      BY <2>1 DEF ThreadsServe, Started
    <3> QED
      BY <2>1, <3>1, LifeOf
  <2>7. life'[t.conn] = "closed"
    BY <2>1 DEF life
  <2>8. life' = [life EXCEPT ![t.conn] = "closed"]
    BY <2>1, <2>5, <2>7, LifeMoves
  <2> QED
    BY <1>0, <2>1, <2>6, <2>8 DEF Service!Close, Service!Becomes
<1>2. CASE \E t \in threads : GoIdle(t)
  <2> PICK t \in threads : GoIdle(t)
    BY <1>2
  <2>1. /\ UNCHANGED closed /\ threads' = threads \ {t} /\ t.conn \in closed
        /\ t.pc = "closed" /\ t.kind \in Kinds /\ t.agent \in DOMAIN pool[t.kind]
    BY DEF GoIdle, ThreadsServe, TypeOK
  <2>2. \A c \in Conns : (Pending(c)' <=> Pending(c)) /\ (c # t.conn => (Held(c)' <=> Held(c)))
    BY GoIdleMoves
  <2>3. \A c \in Conns : Started(c)' <=> Started(c)
    BY <2>1 DEF Started
  <2>4. \A c \in Conns : c # t.conn => (AboutToRun(c)' <=> AboutToRun(c))
    <3> DEFINE x == [idle |-> TRUE, sock |-> t.conn]
    <3>1. pool' = [pool EXCEPT ![t.kind][t.agent] = x] /\ x \in Agents
      BY IdleWritten
    <3> HIDE DEF x
    <3>2. \A l \in Kinds : \A b \in DOMAIN pool[l] :
              l # t.kind \/ b # t.agent => pool'[l][b] = pool[l][b]
      BY <2>1, <3>1, AgentWritten
    <3>3. spc \in {"give", "run"} => pool'[sk][ap] = pool[sk][ap]
      BY <3>2 DEF ChosenAgent, TypeOK
    <3> QED
      BY <1>0, <3>3 DEF AboutToRun
  <2>5. \A c \in Conns : c # t.conn => life'[c] = life[c]
    BY <2>1, <2>2, <2>3, <2>4, SameLife
  <2>6. t.conn \in Conns => life'[t.conn] = life[t.conn]
    BY <2>1, SameLife
  <2> QED
    BY <2>5, <2>6, LifeStays
<1>3. CASE CliTake \/ CliWalk \/ CliGive
  <2>1. UNCHANGED <<backlog, client, pool, threads, closed>>
    BY <1>3 DEF CliTake, CliWalk, CliGive, socketVars, serverVars, poolVars
  <2> QED
    BY <1>0, <2>1, LifeUntouched DEF AboutToRun
<1>4. CASE \E c \in Conns, k \in Kinds : Connect(c, k)
  <2> PICK c \in Conns, k \in Kinds : Connect(c, k)
    BY <1>4
  <2>1. UNCHANGED <<threads, closed, pool>> /\ ~ Pending(c) /\ ~ Held(c) /\ c \notin closed
    BY DEF Connect, poolVars, Known
  <2>2. /\ \A e \in Conns : Pending(e)' <=> Pending(e) \/ e = c
        /\ \A e \in Conns : Held(e)' <=> Held(e)
    BY ConnectMoves
  <2>3. \A e \in Conns : (AboutToRun(e)' <=> AboutToRun(e)) /\ (Started(e)' <=> Started(e))
    BY <1>0, <2>1 DEF AboutToRun, Started
  <2>4. \A e \in Conns : e # c => life'[e] = life[e]
    BY <2>1, <2>2, <2>3, SameLife
  <2>5. ~ Started(c) /\ ~ AboutToRun(c)
    BY <2>1, HolderOf
  <2>6. life[c] = "new"
    BY <2>1, <2>5, LifeOf
  <2>7. life'[c] = "waiting"
    BY <2>1, <2>2, <2>3, <2>5 DEF life
  <2>8. life' = [life EXCEPT ![c] = "waiting"]
    BY <2>4, <2>7, LifeMoves
  <2> QED
    BY <1>0, <2>6, <2>8 DEF Service!Connect, Service!Becomes
<1> QED
  BY <1>1, <1>2, <1>3, <1>4 DEF Outside

(* What clients see of the server and its agents is a behaviour of         *)
(* ConnService: a waiting connection becomes a served one, or is lost for  *)
(* want of a thread, only a served one is closed, by its own thread, and a *)
(* server that has stopped serves no more.  (Its fairness is not proved.)  *)
THEOREM ServerImplementsService == Spec => Service!Init /\ [][Service!Next]_(Service!vars)
<1>1. Init => Service!Init
  <2> SUFFICES ASSUME Init PROVE Service!Init
    OBVIOUS
  <2>1. \A c \in Conns : c \notin closed /\ ~ Started(c) /\ ~ AboutToRun(c)
    BY DEF Init, Started, AboutToRun
  <2>2. \A c \in Conns : ~ Pending(c) /\ ~ Held(c)
    BY PoolAssumption DEF Init, Pending, Held
  <2>3. life = [c \in Conns |-> "new"]
    BY <2>1, <2>2, LifeOf DEF life
  <2>4. (~ bill_out) = TRUE
    BY DEF Init
  <2> QED
    BY <2>3, <2>4, Zenon DEF Service!Init
<1>2. PoolInv /\ [Next]_vars => [Service!Next]_(Service!vars)
  <2> SUFFICES ASSUME PoolInv, [Next]_vars PROVE Service!Next \/ UNCHANGED Service!vars
    OBVIOUS
  <2>1. CASE Server /\ UNCHANGED bill_out
    BY <2>1, ServerLife DEF Service!Next, Service!vars
  <2>2. CASE Server /\ ~ UNCHANGED bill_out
    BY <2>2, BillOutLife DEF Service!Next
  <2>3. CASE Outside
    <3>1. UNCHANGED bill_out
      BY <2>3, Zenon DEF Outside, CloseConnection, GoIdle, CliTake, CliWalk, CliGive, Connect
    <3> QED
      BY <2>3, <3>1, OutsideLife DEF Service!Next, Service!vars
  <2>4. CASE UNCHANGED vars
    <3>1. UNCHANGED <<backlog, client, pool, threads, closed, spc, sk, ap, bill_out>>
      BY <2>4 DEF vars, socketVars, serverVars, poolVars
    <3> QED
      BY <3>1, LifeUntouched DEF AboutToRun, Service!vars
  <2> QED
    BY <2>1, <2>2, <2>3, <2>4 DEF Next, Outside
<1> QED
  BY <1>1, <1>2, PoolInvariant, PTL DEF Spec
=============================================================================
