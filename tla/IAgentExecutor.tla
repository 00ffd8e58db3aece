--------------------------- MODULE IAgentExecutor ---------------------------
(***************************************************************************)
(* The tag-streaming engine of the daemon: the task IAgent_Executor, which *)
(* reads every connected antenna while executor_start_flag is set and      *)
(* hands the tags to its clients, and the connection tasks that start and  *)
(* stop it.                                                                *)
(*                                                                         *)
(*   - An IAgent serves one binary-protocol connection; StartExecutor      *)
(*     messages put its socket (or a database sentinel) in clientFd.       *)
(*   - An SAgent serves one SCGI connection; its commands put a callback   *)
(*     handler in moRegistry.                                              *)
(*                                                                         *)
(* executor_start_flag, clientFd and CAntenna::m_antcount are plain        *)
(* integers that all tasks read and write without a lock, so every access  *)
(* is a step of its own here.  Only moRegistry has a mutex.                *)
(***************************************************************************)
EXTENDS Integers, FiniteSets, Sequences, SequencesExt

CONSTANTS
    IAgents,              \* pooled binary-protocol connection tasks
    SAgents,              \* pooled SCGI connection tasks
    Fds,                  \* socket descriptors the kernel may hand out
    MAX_TX_SOCKET,        \* length of clientFd
    DATABASE_MAGIC,       \* sentinel "descriptor": write tags to the database
    DATABASE_USER_MAGIC,  \* sentinel "descriptor": look tags up, run the action
    NoFd,                 \* the -1 of the code
    NoOwner, Executor,    \* owners of the registry mutex
    StartSentinels,       \* the sentinels clients name in their messages
    MaxAnt,               \* bound: antennas the multiplexer reports
    MaxSem,               \* bound: start requests not yet taken by the executor
    MaxReg,               \* bound: handlers in moRegistry
    MaxReq,               \* requests an SCGI client sends on one connection
    StartOnce,            \* clients do not start a socket that is started
    CleanClose            \* clients stop their socket before they close it

Agents == IAgents \cup SAgents
Slots == 1 .. MAX_TX_SOCKET
Sentinels == {DATABASE_MAGIC, DATABASE_USER_MAGIC}
SlotValues == Fds \cup Sentinels \cup {NoFd}

ASSUME ConstantsAssumption ==
    /\ MAX_TX_SOCKET \in Nat /\ MAX_TX_SOCKET > 1
    /\ IAgents \cap SAgents = {}
    /\ NoFd \notin Fds \cup Sentinels
    /\ Sentinels \cap Fds = {}
    /\ Executor # NoOwner
    /\ StartSentinels \subseteq Sentinels
    /\ MaxAnt \in Nat /\ MaxSem \in Nat /\ MaxReg \in Nat /\ MaxReq \in Nat
    /\ StartOnce \in BOOLEAN /\ CleanClose \in BOOLEAN

VARIABLES
    clientFd,             \* [Slots -> SlotValues]
    executor_start_flag,  \* 0 or 1
    hSem,                 \* count of the executor's semaphore
    moRegistry,           \* handlers, one per registering SCGI command
    hMutex,               \* owner of the registry mutex
    m_antcount,           \* CAntenna::m_antcount
    xpc,                  \* where the executor is
    xi, xj,               \* its loop counters
    xfd,                  \* the descriptor it read from the current slot
    xfound,               \* its "found" flag
    xh,                   \* the handler whose TagEventCallback it runs
    apc,                  \* where each agent is
    aidx, aarg,           \* its slot index and start/stop argument
    clientSocket,         \* its open descriptor
    nreq,                 \* SCGI requests seen on its connection
    asked,                \* history: agents whose start is in force
    stale                 \* history: slots claimed by a connection now closed

executorVars == <<xpc, xi, xj, xfd, xfound, xh>>
agentVars == <<apc, aidx, aarg, clientSocket, nreq, asked>>
registryVars == <<moRegistry, hMutex>>
slotVars == <<clientFd, stale>>
vars == <<clientFd, executor_start_flag, hSem, moRegistry, hMutex, m_antcount,
          executorVars, agentVars, stale>>

Init ==
    /\ clientFd = [j \in Slots |-> NoFd]
    /\ executor_start_flag = 0
    /\ hSem = 1
    /\ moRegistry = <<>>
    /\ hMutex = NoOwner
    /\ m_antcount \in 0 .. MaxAnt
    /\ xpc = "take" /\ xi = 0 /\ xj = 1 /\ xfd = NoFd /\ xfound = FALSE
    /\ xh = NoOwner
    /\ apc = [a \in Agents |-> "idle"]
    /\ aidx = [a \in Agents |-> 1]
    /\ aarg = [a \in Agents |-> NoFd]
    /\ clientSocket = [a \in Agents |-> NoFd]
    /\ nreq = [a \in Agents |-> 0]
    /\ asked = {}
    /\ stale = {}

-----------------------------------------------------------------------------
(* The executor task.  Each label of xpc is a point between two accesses   *)
(* to shared state.                                                        *)

(* Mutant of Take: the task does not wait for a start. *)
TakeNoWait ==
    /\ xpc = "take"
    /\ hSem' = hSem - 1
    /\ xpc' = "while"
    /\ UNCHANGED <<slotVars, executor_start_flag, registryVars, m_antcount,
                   xi, xj, xfd, xfound, xh, agentVars>>

(* semaphoreTake(PI_FOREVER) *)
Take ==
    /\ xpc = "take" /\ hSem > 0
    /\ hSem' = hSem - 1
    /\ xpc' = "while"
    /\ UNCHANGED <<slotVars, executor_start_flag, registryVars, m_antcount,
                   xi, xj, xfd, xfound, xh, agentVars>>

(* Mutant of While: the task keeps reading whatever the flag says. *)
WhileIgnoresFlag ==
    /\ xpc = "while"
    /\ xpc' = "for" /\ xi' = 0
    /\ UNCHANGED <<slotVars, executor_start_flag, hSem, registryVars,
                   m_antcount, xj, xfd, xfound, xh, agentVars>>

While ==
    /\ xpc = "while"
    /\ IF executor_start_flag # 0 THEN xpc' = "for" /\ xi' = 0
                                  ELSE xpc' = "take" /\ xi' = xi
    /\ UNCHANGED <<slotVars, executor_start_flag, hSem, registryVars,
                   m_antcount, xj, xfd, xfound, xh, agentVars>>

(* Locals that are dead are put back to their initial values, so that they *)
(* do not tell states apart.                                               *)

(* What is left alone by the steps that only move the executor's counters. *)
ExecutorOnly == UNCHANGED <<slotVars, executor_start_flag, hSem, registryVars,
                            m_antcount, agentVars>>

NextAntenna == xpc' = "for" /\ xi' = xi + 1

ForEnds ==
    /\ xpc = "for" /\ xi >= m_antcount
    /\ xpc' = "while" /\ xi' = 0
    /\ UNCHANGED <<xj, xfd, xfound, xh>> /\ ExecutorOnly

(* The antenna's power is out of range, or the read fails. *)
SkipAntenna ==
    /\ xpc = "for" /\ xi < m_antcount
    /\ NextAntenna
    /\ UNCHANGED <<xj, xfd, xfound, xh>> /\ ExecutorOnly

(* tagCount == 0: HasClients() comes next *)
ReadNoTags ==
    /\ xpc = "for" /\ xi < m_antcount
    /\ xpc' = "clients"
    /\ UNCHANGED <<xi, xj, xfd, xfound, xh>> /\ ExecutorOnly

ReadTags ==
    /\ xpc = "for" /\ xi < m_antcount
    /\ xpc' = "flagcheck"
    /\ UNCHANGED <<xi, xj, xfd, xfound, xh>> /\ ExecutorOnly

(* Mutant of HasClients: an empty registry counts as a client. *)
HasClientsAlways ==
    /\ xpc = "clients"
    /\ NextAntenna /\ xj' = 1
    /\ UNCHANGED <<xfd, xfound, xh>> /\ ExecutorOnly

(* One iteration of HasClients, or its test of moRegistry and its result. *)
HasClients ==
    /\ xpc = "clients"
    /\ \/ /\ xj <= MAX_TX_SOCKET /\ clientFd[xj] # NoFd
          /\ NextAntenna /\ xj' = 1
       \/ /\ xj <= MAX_TX_SOCKET /\ clientFd[xj] = NoFd
          /\ xj' = xj + 1 /\ UNCHANGED <<xpc, xi>>
       \/ /\ xj > MAX_TX_SOCKET /\ moRegistry # <<>>
          /\ NextAntenna /\ xj' = 1
       \/ /\ xj > MAX_TX_SOCKET /\ moRegistry = <<>>
          /\ xpc' = "zero" /\ xj' = 1 /\ UNCHANGED xi
    /\ UNCHANGED <<xfd, xfound, xh>> /\ ExecutorOnly

(* executor_start_flag = 0; break; *)
ZeroFlag ==
    /\ xpc = "zero"
    /\ executor_start_flag' = 0
    /\ xpc' = "while" /\ xi' = 0
    /\ UNCHANGED <<slotVars, hSem, registryVars, m_antcount, xj, xfd, xfound,
                   xh, agentVars>>

FlagCheck ==
    /\ xpc = "flagcheck"
    /\ IF executor_start_flag = 0
         THEN xpc' = "zero"
         ELSE xpc' = "slots"
    /\ UNCHANGED <<xi, xj, xfd, xfound, xh>> /\ ExecutorOnly

-----------------------------------------------------------------------------
(* The slot loop and the callbacks, once tags have been read. *)

ReadSlot ==
    /\ xpc = "slots"
    /\ \/ /\ xj > MAX_TX_SOCKET
          /\ xpc' = "callback" /\ xj' = 1 /\ UNCHANGED <<xfd, xfound>>
       \/ /\ xj <= MAX_TX_SOCKET /\ clientFd[xj] = NoFd
          /\ xj' = xj + 1 /\ UNCHANGED <<xpc, xfd, xfound>>
       \/ /\ xj <= MAX_TX_SOCKET /\ clientFd[xj] # NoFd
          /\ xpc' = "send" /\ xfd' = clientFd[xj] /\ xfound' = TRUE
          /\ UNCHANGED xj
    /\ UNCHANGED <<xi, xh>> /\ ExecutorOnly

OpenFds == {clientSocket[a] : a \in Agents} \ {NoFd}

(* What iAgent_CallBack can report: a database write always succeeds, a    *)
(* send to a closed descriptor fails, and a send to an open one may do     *)
(* either, whoever holds the descriptor by now.                            *)
CallBackResults(fd) == IF fd \in Sentinels THEN {TRUE}
                       ELSE IF fd \in OpenFds THEN BOOLEAN ELSE {FALSE}

(* Mutant of CallBack: one served slot ends the slot loop. *)
CallBackBreaks ==
    /\ xpc = "send"
    /\ \E fd \in {xfd, clientFd[xj]} : \E ok \in CallBackResults(fd) :
          IF ok THEN xpc' = "callback" /\ xj' = 1
                ELSE xpc' = "drop" /\ UNCHANGED xj
    /\ xfd' = NoFd
    /\ UNCHANGED <<xi, xfound, xh>> /\ ExecutorOnly

(* The compiler may read clientFd[j] once or twice, so the argument is     *)
(* what the test saw or what the slot holds now.                           *)
CallBack ==
    /\ xpc = "send"
    /\ \E fd \in {xfd, clientFd[xj]} : \E ok \in CallBackResults(fd) :
          IF ok THEN xpc' = "slots" /\ xj' = xj + 1
                ELSE xpc' = "drop" /\ UNCHANGED xj
    /\ xfd' = NoFd
    /\ UNCHANGED <<xi, xfound, xh>> /\ ExecutorOnly

(* clientFd[j] = -1, after a failed send *)
DropSlot ==
    /\ xpc = "drop"
    /\ clientFd' = [clientFd EXCEPT ![xj] = NoFd]
    /\ stale' = stale \ {xj}
    /\ xpc' = "slots" /\ xj' = xj + 1
    /\ UNCHANGED <<executor_start_flag, hSem, registryVars, m_antcount, xi,
                   xfd, xfound, xh, agentVars>>

(* Do_Callback: TakeMutex, one handler at a time, GiveMutex. *)
DoCallbackTake ==
    /\ xpc = "callback" /\ hMutex = NoOwner
    /\ hMutex' = Executor
    /\ xpc' = "handlers"
    /\ UNCHANGED <<slotVars, executor_start_flag, hSem, moRegistry, m_antcount,
                   xi, xj, xfd, xfound, xh, agentVars>>

TagEventCallback ==
    /\ \/ /\ xpc = "handlers" /\ xj <= Len(moRegistry)
          /\ xpc' = "writing" /\ xh' = moRegistry[xj] /\ UNCHANGED xj
       \/ /\ xpc = "writing"
          /\ xpc' = "handlers" /\ xj' = xj + 1 /\ xh' = NoOwner
    /\ UNCHANGED <<xi, xfd, xfound>> /\ ExecutorOnly

DoCallbackGive ==
    /\ xpc = "handlers" /\ xj > Len(moRegistry)
    /\ hMutex' = NoOwner
    /\ xpc' = "found" /\ xj' = 1
    /\ UNCHANGED <<slotVars, executor_start_flag, hSem, moRegistry, m_antcount,
                   xi, xfd, xfound, xh, agentVars>>

(* (0 == found) && (0 == moRegistry.size()) *)
FoundCheck ==
    /\ xpc = "found"
    /\ IF ~xfound /\ moRegistry = <<>>
         THEN xpc' = "zero" /\ UNCHANGED xi
         ELSE NextAntenna
    /\ xfound' = FALSE
    /\ UNCHANGED <<xj, xfd, xh>> /\ ExecutorOnly

ExecutorStep ==
    \/ Take \/ While \/ ForEnds \/ SkipAntenna \/ ReadNoTags \/ ReadTags
    \/ HasClients \/ ZeroFlag \/ FlagCheck \/ ReadSlot \/ CallBack \/ DropSlot
    \/ DoCallbackTake \/ TagEventCallback \/ DoCallbackGive \/ FoundCheck

-----------------------------------------------------------------------------
(* Both kinds of agent: a connection is accepted on any free descriptor.   *)

Goto(a, l) == apc' = [apc EXCEPT ![a] = l]

(* Back to the top of the loop of main, with nothing kept from the message. *)
NextMessage(a) ==
    /\ Goto(a, "recv")
    /\ aidx' = [aidx EXCEPT ![a] = 1]
    /\ aarg' = [aarg EXCEPT ![a] = NoFd]

Accept(a) ==
    /\ apc[a] = "idle"
    /\ \E fd \in Fds \ OpenFds :
          clientSocket' = [clientSocket EXCEPT ![a] = fd]
    /\ Goto(a, "recv")
    /\ UNCHANGED <<slotVars, executor_start_flag, hSem, registryVars,
                   m_antcount, executorVars, aidx, aarg, nreq, asked>>

(* An agent between executor_start_flag = 1 and semaphoreGive(). *)
Starting == {a \in Agents : apc[a] \in {"scan", "claim", "give"}}

(* Bound on outstanding start requests: clients wait, the code never does. *)
SemRoom == hSem + Cardinality(Starting \cup {a \in Agents : apc[a] = "flag"})
             < MaxSem

(* Mutant of Give: start_executor returns without the semaphoreGive(). *)
GiveForgotten(a) ==
    /\ apc[a] = "give"
    /\ NextMessage(a)
    /\ UNCHANGED <<slotVars, executor_start_flag, hSem, registryVars, m_antcount,
                   executorVars, clientSocket, nreq, asked>>

(* semaphoreGive(), the end of start_executor *)
Give(a) ==
    /\ apc[a] = "give"
    /\ hSem' = hSem + 1
    /\ NextMessage(a)
    /\ UNCHANGED <<slotVars, executor_start_flag, registryVars, m_antcount,
                   executorVars, clientSocket, nreq, asked>>

-----------------------------------------------------------------------------
(* The IAgent: StartExecutor messages, the antenna map, the end of the     *)
(* connection.                                                             *)

StartArgs(a) == StartSentinels \cup {clientSocket[a]}

(* Mutant of StartExecutor: the database has no slot of its own. *)
StartExecutorSearches(a) ==
    /\ apc[a] = "recv" /\ SemRoom
    /\ \E fd \in StartArgs(a) :
          /\ StartOnce /\ fd = clientSocket[a] => a \notin asked
          /\ aarg' = [aarg EXCEPT ![a] = fd]
          /\ Goto(a, "scan") /\ aidx' = [aidx EXCEPT ![a] = 1]
          /\ asked' = IF fd = clientSocket[a] THEN asked \cup {a} ELSE asked
    /\ executor_start_flag' = 1
    /\ UNCHANGED <<slotVars, hSem, registryVars, m_antcount, executorVars,
                   clientSocket, nreq>>

(* start_executor(fd): the flag is set before the slot is claimed. *)
StartExecutor(a) ==
    /\ apc[a] = "recv" /\ SemRoom
    /\ \E fd \in StartArgs(a) :
          /\ StartOnce /\ fd = clientSocket[a] => a \notin asked
          /\ aarg' = [aarg EXCEPT ![a] = fd]
          /\ IF fd = DATABASE_MAGIC
               THEN Goto(a, "claim") /\ aidx' = [aidx EXCEPT ![a] = MAX_TX_SOCKET]
               ELSE Goto(a, "scan") /\ aidx' = [aidx EXCEPT ![a] = 1]
          /\ asked' = IF fd = clientSocket[a] THEN asked \cup {a} ELSE asked
    /\ executor_start_flag' = 1
    /\ UNCHANGED <<slotVars, hSem, registryVars, m_antcount, executorVars,
                   clientSocket, nreq>>

(* One iteration of the search for an empty slot; a full table drops the   *)
(* request.                                                                *)
ScanSlot(a) ==
    /\ apc[a] = "scan"
    /\ IF aidx[a] >= MAX_TX_SOCKET THEN Goto(a, "give") /\ UNCHANGED aidx
       ELSE IF clientFd[aidx[a]] = NoFd THEN Goto(a, "claim") /\ UNCHANGED aidx
       ELSE aidx' = [aidx EXCEPT ![a] = @ + 1] /\ UNCHANGED apc
    /\ UNCHANGED <<slotVars, executor_start_flag, hSem, registryVars,
                   m_antcount, executorVars, aarg, clientSocket, nreq, asked>>

ClaimSlot(a) ==
    /\ apc[a] = "claim"
    /\ clientFd' = [clientFd EXCEPT ![aidx[a]] = aarg[a]]
    /\ stale' = stale \ {aidx[a]}
    /\ Goto(a, "give")
    /\ UNCHANGED <<executor_start_flag, hSem, registryVars, m_antcount,
                   executorVars, aidx, aarg, clientSocket, nreq, asked>>

(* stop_executor(fd): the flag is everybody's. *)
StopExecutor(a) ==
    /\ apc[a] = "recv"
    /\ \E fd \in StartArgs(a) :
          /\ aarg' = [aarg EXCEPT ![a] = fd]
          /\ asked' = asked \ (SAgents \cup IF fd = clientSocket[a] THEN {a} ELSE {})
    /\ aidx' = [aidx EXCEPT ![a] = 1]
    /\ executor_start_flag' = 0
    /\ Goto(a, "stopscan")
    /\ UNCHANGED <<slotVars, hSem, registryVars, m_antcount, executorVars,
                   clientSocket, nreq>>

(* Mutant of StopScan: the search looks at the first slot only. *)
StopScanFirstSlot(a) ==
    /\ apc[a] = "stopscan"
    /\ IF clientFd[1] = aarg[a]
         THEN Goto(a, "stopclear") /\ UNCHANGED <<aidx, aarg>>
         ELSE NextMessage(a)
    /\ UNCHANGED <<slotVars, executor_start_flag, hSem, registryVars,
                   m_antcount, executorVars, clientSocket, nreq, asked>>

StopScan(a) ==
    /\ apc[a] = "stopscan"
    /\ IF aidx[a] > MAX_TX_SOCKET THEN NextMessage(a)
       ELSE IF clientFd[aidx[a]] = aarg[a]
              THEN Goto(a, "stopclear") /\ UNCHANGED <<aidx, aarg>>
       ELSE aidx' = [aidx EXCEPT ![a] = @ + 1] /\ UNCHANGED <<apc, aarg>>
    /\ UNCHANGED <<slotVars, executor_start_flag, hSem, registryVars,
                   m_antcount, executorVars, clientSocket, nreq, asked>>

StopClear(a) ==
    /\ apc[a] = "stopclear"
    /\ clientFd' = [clientFd EXCEPT ![aidx[a]] = NoFd]
    /\ stale' = stale \ {aidx[a]}
    /\ NextMessage(a)
    /\ UNCHANGED <<executor_start_flag, hSem, registryVars, m_antcount,
                   executorVars, clientSocket, nreq, asked>>

(* iAgent_GetAntBitMap: the shared count is zero while the multiplexer is  *)
(* asked, and stays zero if it does not answer.  The API mutex lets one    *)
(* refresh run at a time.                                                  *)
AntMapBegin(a) ==
    /\ apc[a] = "recv" /\ \A b \in Agents : apc[b] # "antmap"
    /\ m_antcount' = 0
    /\ Goto(a, "antmap")
    /\ UNCHANGED <<slotVars, executor_start_flag, hSem, registryVars,
                   executorVars, aidx, aarg, clientSocket, nreq, asked>>

AntMapEnd(a) ==
    /\ apc[a] = "antmap"
    /\ m_antcount' \in 0 .. MaxAnt
    /\ Goto(a, "recv")
    /\ UNCHANGED <<slotVars, executor_start_flag, hSem, registryVars,
                   executorVars, aidx, aarg, clientSocket, nreq, asked>>

(* iAgent_receiveMsgObj fails: close, idle = true.  Nobody tells the       *)
(* executor.                                                               *)
CloseConnection(a) ==
    /\ apc[a] = "recv"
    /\ CleanClose => a \notin asked
    /\ clientSocket' = [clientSocket EXCEPT ![a] = NoFd]
    /\ Goto(a, "idle")
    /\ asked' = asked \ {a}
    /\ stale' = stale \cup {j \in Slots : clientFd[j] = clientSocket[a]}
    /\ UNCHANGED <<clientFd, executor_start_flag, hSem, registryVars,
                   m_antcount, executorVars, aidx, aarg, nreq>>

IAgentStep(a) ==
    \/ Accept(a) \/ StartExecutor(a) \/ ScanSlot(a) \/ ClaimSlot(a) \/ Give(a)
    \/ StopExecutor(a) \/ StopScan(a) \/ StopClear(a)
    \/ AntMapBegin(a) \/ AntMapEnd(a) \/ CloseConnection(a)

-----------------------------------------------------------------------------
(* The SAgent: one CLI command per SCGI request. *)

(* SetCallbackHandler: push_back under the mutex *)
SetCallbackHandler(s) ==
    /\ apc[s] = "recv" /\ nreq[s] < MaxReq
    /\ Len(moRegistry) < MaxReg
    /\ hMutex = NoOwner
    /\ moRegistry' = Append(moRegistry, s)
    /\ nreq' = [nreq EXCEPT ![s] = @ + 1]
    /\ UNCHANGED <<slotVars, executor_start_flag, hSem, hMutex, m_antcount,
                   executorVars, aidx, aarg, clientSocket, asked>>

(* process_startstreamtag: register, then start_executor(-1) *)
StartStreamTag(s) == SemRoom /\ SetCallbackHandler(s) /\ Goto(s, "flag")

SetFlag(s) ==
    /\ apc[s] = "flag"
    /\ executor_start_flag' = 1
    /\ asked' = asked \cup {s}
    /\ Goto(s, "give")
    /\ UNCHANGED <<slotVars, hSem, registryVars, m_antcount, executorVars,
                   aidx, aarg, clientSocket, nreq>>

(* process_stopstreamtag registers the handler, and that is all. *)
StopStreamTag(s) == SetCallbackHandler(s) /\ Goto(s, "recv")

(* process_seltag registers the handler and never leaves its loop. *)
SelTag(s) == SetCallbackHandler(s) /\ Goto(s, "seltag")

(* process_getsearchtimeout sets done: the connection is closed and the    *)
(* registry is not touched.                                                *)
GetSearchTimeout(s) ==
    /\ apc[s] = "recv" /\ nreq[s] < MaxReq
    /\ clientSocket' = [clientSocket EXCEPT ![s] = NoFd]
    /\ Goto(s, "idle")
    /\ asked' = asked \ {s}
    /\ nreq' = [nreq EXCEPT ![s] = 0]
    /\ UNCHANGED <<slotVars, executor_start_flag, hSem, registryVars,
                   m_antcount, executorVars, aidx, aarg>>

(* erase() of the first entry that is s, if there is one *)
EraseFirst(s) ==
    \/ \E i \in 1 .. Len(moRegistry) :
          /\ moRegistry[i] = s /\ \A j \in 1 .. i - 1 : moRegistry[j] # s
          /\ moRegistry' = RemoveAt(moRegistry, i)
    \/ s \notin ToSet(moRegistry) /\ UNCHANGED moRegistry

(* Mutant of RemoveCallbackHandler: the mutex is not taken. *)
RemoveCallbackHandlerUnlocked(s) ==
    /\ apc[s] = "recv"
    /\ EraseFirst(s)
    /\ asked' = asked \ {s}
    /\ Goto(s, "closing")
    /\ UNCHANGED <<slotVars, executor_start_flag, hSem, hMutex, m_antcount,
                   executorVars, aidx, aarg, clientSocket, nreq>>

(* Mutant of RemoveCallbackHandler: the search begins at the second entry. *)
RemoveFromSecondEntry(s) ==
    /\ apc[s] = "recv"
    /\ hMutex = NoOwner
    /\ moRegistry' = IF moRegistry = <<>> THEN <<>>
                     ELSE <<Head(moRegistry)>> \o SelectSeq(Tail(moRegistry), LAMBDA h : h # s)
    /\ asked' = asked \ {s}
    /\ Goto(s, "closing")
    /\ UNCHANGED <<slotVars, executor_start_flag, hSem, hMutex, m_antcount,
                   executorVars, aidx, aarg, clientSocket, nreq>>

(* scgi_process returns -1: RemoveCallbackHandler, under the mutex *)
RemoveCallbackHandler(s) ==
    /\ apc[s] = "recv"
    /\ hMutex = NoOwner
    /\ EraseFirst(s)
    /\ asked' = asked \ {s}
    /\ Goto(s, "closing")
    /\ UNCHANGED <<slotVars, executor_start_flag, hSem, hMutex, m_antcount,
                   executorVars, aidx, aarg, clientSocket, nreq>>

CloseSocket(s) ==
    /\ apc[s] = "closing"
    /\ clientSocket' = [clientSocket EXCEPT ![s] = NoFd]
    /\ Goto(s, "idle")
    /\ nreq' = [nreq EXCEPT ![s] = 0]
    /\ UNCHANGED <<slotVars, executor_start_flag, hSem, registryVars,
                   m_antcount, executorVars, aidx, aarg, asked>>

SAgentStep(s) ==
    \/ Accept(s) \/ StartStreamTag(s) \/ SetFlag(s) \/ Give(s)
    \/ StopStreamTag(s) \/ SelTag(s) \/ GetSearchTimeout(s)
    \/ RemoveCallbackHandler(s) \/ CloseSocket(s)

Next ==
    \/ ExecutorStep
    \/ \E a \in IAgents : IAgentStep(a)
    \/ \E s \in SAgents : SAgentStep(s)

Spec == Init /\ [][Next]_vars

(* The executor is a thread of its own at HIGH priority and its reads of   *)
(* the antennas time out, so it is never starved: as long as the serial    *)
(* port is there (CallEnds of ReaderApi).  Nothing is assumed of the       *)
(* clients.                                                                *)
FairSpec == Spec /\ WF_vars(ExecutorStep)

-----------------------------------------------------------------------------
TypeOK ==
    /\ clientFd \in [Slots -> SlotValues]
    /\ executor_start_flag \in {0, 1}
    /\ hSem \in Nat
    /\ moRegistry \in Seq(SAgents)
    /\ hMutex \in {NoOwner, Executor}
    /\ m_antcount \in 0 .. MaxAnt
    /\ xpc \in {"take", "while", "for", "clients", "zero", "flagcheck", "slots",
                "send", "drop", "callback", "handlers", "writing",
                "found"}
    /\ xi \in Nat /\ xj \in Nat \ {0}
    /\ xfd \in SlotValues /\ xfound \in BOOLEAN
    /\ xh \in SAgents \cup {NoOwner}
    /\ xpc \in {"send", "drop"} => xj \in Slots
    /\ apc \in [Agents -> {"idle", "recv", "scan", "claim", "give", "stopscan",
                           "stopclear", "antmap", "flag", "seltag", "closing"}]
    /\ aidx \in [Agents -> Nat \ {0}]
    /\ \A a \in Agents : apc[a] \in {"claim", "stopclear"} => aidx[a] \in Slots
    /\ aarg \in [Agents -> SlotValues]
    /\ clientSocket \in [Agents -> Fds \cup {NoFd}]
    /\ nreq \in [Agents -> Nat]
    /\ asked \in SUBSET Agents
    /\ stale \in SUBSET Slots

(* A start request is never slept through: if the flag is up while the     *)
(* executor waits for its semaphore, the semaphore is available or the     *)
(* agent that raised the flag has not yet given it (start_executor raises  *)
(* the flag first and gives last).                                         *)
NoLostWakeup ==
    xpc = "take" /\ executor_start_flag # 0 => hSem > 0 \/ Starting # {}

(* How many slots carry a connection's socket. *)
SlotsOf(a) == {j \in Slots : clientFd[j] = clientSocket[a]}

(* Between its messages a connection holds at most one slot, and none      *)
(* after its stop: stop_executor finds what start_executor claimed however *)
(* the other agents and the executor change the table meanwhile.  It needs *)
(* clients that start once and stop before they close; otherwise a slot    *)
(* left by a closed connection passes for that of a later one.             *)
SlotPerStart ==
    StartOnce /\ CleanClose =>
        \A a \in IAgents : apc[a] = "recv" =>
            /\ Cardinality(SlotsOf(a)) <= 1
            /\ a \notin asked => SlotsOf(a) = {}

(* The last slot is the database's: a socket never takes it, however many  *)
(* agents search the table at once, and the tag stream to the database is  *)
(* never in a socket's slot.                                               *)
DatabaseSlotReserved ==
    /\ clientFd[MAX_TX_SOCKET] \in {DATABASE_MAGIC, NoFd}
    /\ \A j \in Slots \ {MAX_TX_SOCKET} : clientFd[j] # DATABASE_MAGIC

(* TagEventCallback writes only through handlers whose connection is open: *)
(* an SAgent cannot remove its handler and close while the executor is in  *)
(* Do_Callback.  With one request per connection, as SCGI has it.          *)
CallbackLive ==
    MaxReq = 1 /\ xpc = "writing" =>
        clientSocket[xh] # NoFd /\ apc[xh] \notin {"idle", "closing"}

(* moRegistry holds each handler once and only handlers of connections in  *)
(* progress, so the pooled SAgent starts its next connection unregistered. *)
RegistryLive ==
    MaxReq = 1 =>
        /\ IsInjective(moRegistry)
        /\ \A i \in 1 .. Len(moRegistry) :
              apc[moRegistry[i]] \notin {"idle", "closing"}

-----------------------------------------------------------------------------
(* If the flag is finally down, the executor finally parks on an empty     *)
(* semaphore, whatever backlog of gives it has.                            *)
Parks == <>[](executor_start_flag = 0) => <>[](xpc = "take" /\ hSem = 0)

(* A slot that stays taken while the flag stays up is sent to again and    *)
(* again if tags keep being read: no other client, failed send or callback *)
(* keeps the loop from it.                                                 *)
ServedAgain ==
    \A j \in Slots :
        (/\ <>[](executor_start_flag # 0 /\ clientFd[j] # NoFd)
         /\ []<>(xpc = "flagcheck"))
        => []<>(xpc = "send" /\ xj = j)

(* Without clients the reader does not read for ever: each pass that gets  *)
(* an answer from an antenna takes the flag down.                          *)
IdleStops ==
    (/\ <>[](moRegistry = <<>> /\ \A j \in Slots : clientFd[j] = NoFd)
     /\ []<>(xpc \in {"clients", "flagcheck"}))
    => []<>(executor_start_flag = 0)

-----------------------------------------------------------------------------
(* A statement of the repository that the code does not keep. *)

(* iAgent_executor.cpp says the executor fails to learn that a socket was  *)
(* closed when no tag is detected, since it does not send; this says that  *)
(* it does learn it when it sends.                                         *)
SendTellsClosed == [][xpc = "send" /\ xpc' = "slots" => xj \notin stale]_vars
=============================================================================
