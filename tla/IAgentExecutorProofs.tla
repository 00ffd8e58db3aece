------------------------ MODULE IAgentExecutorProofs ------------------------
(***************************************************************************)
(* Proofs about IAgentExecutor, for every value of its constants: the type *)
(* invariant; that no start request is slept through; that the last slot   *)
(* is the database's, moRegistry has live handlers only, the executor      *)
(* writes through live ones only, and a connection has one slot at most    *)
(* and none after its stop.                                                *)
(***************************************************************************)
EXTENDS IAgentExecutor, SequenceTheorems, FiniteSetTheorems, TLAPS

(* erase() leaves a sequence of handlers. *)
LEMMA RemoveAtType ==
    ASSUME NEW S, NEW s \in Seq(S), NEW i \in 1 .. Len(s)
    PROVE  RemoveAt(s, i) \in Seq(S)
<1>1. SubSeq(s, 1, i - 1) \in Seq(S)
  BY SubSeqProperties
<1>2. SubSeq(s, i + 1, Len(s)) \in Seq(S)
  BY SubSeqProperties
<1> QED
  BY <1>1, <1>2, ConcatProperties DEF RemoveAt

LEMMA InitType == ASSUME ConstantsAssumption, Init PROVE TypeOK
<1> USE DEF Init
<1>1. xfound \in BOOLEAN
  BY Zenon
<1>2. /\ clientFd \in [Slots -> SlotValues]
      /\ clientSocket \in [Agents -> Fds \cup {NoFd}]
      /\ aarg \in [Agents -> SlotValues]
  BY DEF SlotValues
<1>3. /\ aidx \in [Agents -> Nat \ {0}]
      /\ nreq \in [Agents -> Nat]
      /\ \A a \in Agents : apc[a] = "idle"
  OBVIOUS
<1>4. apc \in [Agents -> {"idle", "recv", "scan", "claim", "give", "stopscan",
                          "stopclear", "antmap", "flag", "seltag", "closing"}]
  OBVIOUS
<1>5. moRegistry \in Seq(SAgents) /\ asked \in SUBSET Agents /\ stale \in SUBSET Slots
  OBVIOUS
<1> QED
  BY <1>1, <1>2, <1>3, <1>4, <1>5 DEF ConstantsAssumption, TypeOK, SlotValues

(* The executor's steps. *)
LEMMA ExecutorType ==
    ASSUME ConstantsAssumption, TypeOK, ExecutorStep
    PROVE  TypeOK'
<1> USE DEF TypeOK, ExecutorOnly, NextAntenna, slotVars, registryVars, agentVars
<1>1. CASE Take
  BY <1>1 DEF Take
<1>2. CASE While
  BY <1>2 DEF While
<1>3. CASE ForEnds
  BY <1>3 DEF ForEnds
<1>4. CASE SkipAntenna
  BY <1>4 DEF SkipAntenna
<1>5. CASE ReadNoTags
  BY <1>5 DEF ReadNoTags
<1>6. CASE ReadTags
  BY <1>6 DEF ReadTags
<1>7. CASE HasClients
  BY <1>7 DEF HasClients
<1>8. CASE ZeroFlag
  BY <1>8 DEF ZeroFlag
<1>9. CASE FlagCheck
  BY <1>9 DEF FlagCheck
<1>10. CASE ReadSlot
  <2>1. xfound' \in BOOLEAN
    BY <1>10, Zenon DEF ReadSlot
  <2>2. \/ xpc' = "callback" /\ xj' = 1 /\ xfd' = xfd
        \/ xpc' = "slots" /\ xj' = xj + 1 /\ xfd' = xfd
        \/ /\ xpc' = "send" /\ xfd' = clientFd[xj] /\ xj' = xj
           /\ xj <= MAX_TX_SOCKET
    BY <1>10, Zenon DEF ReadSlot
  <2>3. UNCHANGED <<xi, xh>> /\ ExecutorOnly
    BY <1>10, Zenon DEF ReadSlot
  <2> QED
    BY <2>1, <2>2, <2>3 DEF Slots, ConstantsAssumption
<1>11. CASE CallBack
  BY <1>11 DEF CallBack, SlotValues, ConstantsAssumption
<1>12. CASE DropSlot
  BY <1>12 DEF DropSlot, SlotValues
<1>13. CASE DoCallbackTake
  BY <1>13 DEF DoCallbackTake
<1>14. CASE TagEventCallback
  BY <1>14 DEF TagEventCallback
<1>15. CASE DoCallbackGive
  BY <1>15 DEF DoCallbackGive
<1>16. CASE FoundCheck
  <2>1. \/ xpc' = "zero" /\ xi' = xi
        \/ xpc' = "for" /\ xi' = xi + 1
    BY <1>16, Zenon DEF FoundCheck
  <2>2. xfound' \in BOOLEAN
    BY <1>16, Zenon DEF FoundCheck
  <2>3. UNCHANGED <<xj, xfd, xh>> /\ ExecutorOnly
    BY <1>16, Zenon DEF FoundCheck
  <2> QED
    BY <2>1, <2>2, <2>3
<1> QED
  BY <1>1, <1>2, <1>3, <1>4, <1>5, <1>6, <1>7, <1>8, <1>9, <1>10, <1>11, <1>12,
     <1>13, <1>14, <1>15, <1>16 DEF ExecutorStep

(* The steps of a binary-protocol connection. *)
LEMMA IAgentType ==
    ASSUME ConstantsAssumption, TypeOK, NEW a \in IAgents, IAgentStep(a)
    PROVE  TypeOK'
<1> a \in Agents
  BY DEF Agents
<1> USE DEF TypeOK, Goto, NextMessage, slotVars, registryVars, executorVars
<1>1. CASE Accept(a)
  BY <1>1 DEF Accept, OpenFds
<1>2. CASE StartExecutor(a)
  <2> PICK fd \in StartArgs(a) :
        /\ aarg' = [aarg EXCEPT ![a] = fd]
        /\ IF fd = DATABASE_MAGIC
             THEN Goto(a, "claim") /\ aidx' = [aidx EXCEPT ![a] = MAX_TX_SOCKET]
             ELSE Goto(a, "scan") /\ aidx' = [aidx EXCEPT ![a] = 1]
        /\ asked' = IF fd = clientSocket[a] THEN asked \cup {a} ELSE asked
    BY <1>2 DEF StartExecutor
  <2>1. fd \in SlotValues
    BY DEF StartArgs, SlotValues, ConstantsAssumption
  <2>2. asked' \in SUBSET Agents
    OBVIOUS
  <2>3. MAX_TX_SOCKET \in Slots
    BY DEF Slots, ConstantsAssumption
  <2>4. aidx' \in [Agents -> Nat \ {0}]
    BY <2>3 DEF Slots, ConstantsAssumption
  <2>5. \/ apc' = [apc EXCEPT ![a] = "claim"] /\ aidx' = [aidx EXCEPT ![a] = MAX_TX_SOCKET]
        \/ apc' = [apc EXCEPT ![a] = "scan"] /\ aidx' = [aidx EXCEPT ![a] = 1]
    OBVIOUS
  <2>6. \A b \in Agents : apc'[b] \in {"claim", "stopclear"} => aidx'[b] \in Slots
    BY <2>3, <2>5
  <2>7. apc' \in [Agents -> {"idle", "recv", "scan", "claim", "give", "stopscan",
                            "stopclear", "antmap", "flag", "seltag", "closing"}]
    BY <2>5
  <2> QED
    BY <1>2, <2>1, <2>2, <2>4, <2>6, <2>7 DEF StartExecutor
<1>3. CASE ScanSlot(a)
  <2>1. CASE aidx[a] >= MAX_TX_SOCKET
    BY <1>3, <2>1, ZenonT(60) DEF ScanSlot
  <2>2. CASE aidx[a] < MAX_TX_SOCKET /\ clientFd[aidx[a]] = NoFd
    BY <1>3, <2>2, SMTT(40) DEF ScanSlot, Slots, ConstantsAssumption
  <2>3. CASE aidx[a] < MAX_TX_SOCKET /\ clientFd[aidx[a]] # NoFd
    <3>1. apc' = apc /\ aidx' = [aidx EXCEPT ![a] = @ + 1] /\ apc[a] = "scan"
      BY <1>3, <2>3 DEF ScanSlot, ConstantsAssumption
    <3> QED
      BY <1>3, <3>1 DEF ScanSlot
  <2> QED
    BY <2>1, <2>2, <2>3, SMTT(40) DEF ConstantsAssumption
<1>4. CASE ClaimSlot(a)
  BY <1>4 DEF ClaimSlot
<1>5. CASE Give(a)
  BY <1>5 DEF Give, SlotValues
<1>6. CASE StopExecutor(a)
  <2> PICK fd \in StartArgs(a) : aarg' = [aarg EXCEPT ![a] = fd]
    BY <1>6 DEF StopExecutor
  <2>1. fd \in SlotValues
    BY DEF StartArgs, SlotValues, ConstantsAssumption
  <2>2. asked' \in SUBSET Agents
    BY <1>6 DEF StopExecutor
  <2> QED
    BY <1>6, <2>1, <2>2 DEF StopExecutor
<1>7. CASE StopScan(a)
  <2>1. CASE aidx[a] > MAX_TX_SOCKET
    <3>1. NextMessage(a) /\ NoFd \in SlotValues
      BY <1>7, <2>1 DEF StopScan, SlotValues
    <3> QED
      BY <1>7, <3>1 DEF StopScan
  <2>2. CASE aidx[a] <= MAX_TX_SOCKET /\ clientFd[aidx[a]] = aarg[a]
    <3>1. apc' = [apc EXCEPT ![a] = "stopclear"] /\ UNCHANGED <<aidx, aarg>>
      BY <1>7, <2>2 DEF StopScan, ConstantsAssumption
    <3>2. aidx[a] \in Slots
      BY <2>2 DEF Slots, ConstantsAssumption
    <3> QED
      BY <1>7, <3>1, <3>2 DEF StopScan
  <2>3. CASE aidx[a] <= MAX_TX_SOCKET /\ clientFd[aidx[a]] # aarg[a]
    <3>1. apc' = apc /\ aidx' = [aidx EXCEPT ![a] = @ + 1] /\ apc[a] = "stopscan"
      BY <1>7, <2>3 DEF StopScan, ConstantsAssumption
    <3> QED
      BY <1>7, <3>1 DEF StopScan
  <2> QED
    BY <2>1, <2>2, <2>3, SMTT(40) DEF ConstantsAssumption
<1>8. CASE StopClear(a)
  BY <1>8 DEF StopClear, SlotValues
<1>9. CASE AntMapBegin(a)
  BY <1>9 DEF AntMapBegin, ConstantsAssumption
<1>10. CASE AntMapEnd(a)
  BY <1>10 DEF AntMapEnd
<1>11. CASE CloseConnection(a)
  BY <1>11 DEF CloseConnection
<1> QED
  BY <1>1, <1>2, <1>3, <1>4, <1>5, <1>6, <1>7, <1>8, <1>9, <1>10, <1>11
     DEF IAgentStep

(* The steps of an SCGI connection. *)
LEMMA SAgentType ==
    ASSUME ConstantsAssumption, TypeOK, NEW s \in SAgents, SAgentStep(s)
    PROVE  TypeOK'
<1> s \in Agents
  BY DEF Agents
<1> USE DEF TypeOK, Goto, NextMessage, slotVars, registryVars, executorVars
<1>1. CASE Accept(s)
  BY <1>1, SMTT(40) DEF Accept, OpenFds
<1>2. CASE StartStreamTag(s)
  BY <1>2 DEF StartStreamTag, SetCallbackHandler
<1>3. CASE SetFlag(s)
  BY <1>3 DEF SetFlag
<1>4. CASE Give(s)
  BY <1>4 DEF Give, SlotValues
<1>5. CASE StopStreamTag(s)
  BY <1>5 DEF StopStreamTag, SetCallbackHandler
<1>6. CASE SelTag(s)
  BY <1>6 DEF SelTag, SetCallbackHandler
<1>7. CASE GetSearchTimeout(s)
  BY <1>7 DEF GetSearchTimeout
<1>8. CASE RemoveCallbackHandler(s)
  <2>1. moRegistry' \in Seq(SAgents)
    BY <1>8, RemoveAtType DEF RemoveCallbackHandler, EraseFirst
  <2> QED
    BY <1>8, <2>1 DEF RemoveCallbackHandler
<1>9. CASE CloseSocket(s)
  BY <1>9 DEF CloseSocket
<1> QED
  BY <1>1, <1>2, <1>3, <1>4, <1>5, <1>6, <1>7, <1>8, <1>9 DEF SAgentStep

(* Every reachable state has the types that iAgent_executor.h and the      *)
(* agents' code give their variables, and slot indices stay inside         *)
(* clientFd wherever it is written.                                        *)
THEOREM TypeCorrect == ConstantsAssumption => (Spec => []TypeOK)
<1> SUFFICES ASSUME ConstantsAssumption PROVE Spec => []TypeOK
  OBVIOUS
<1>1. Init => TypeOK
  BY InitType
<1>2. TypeOK /\ [Next]_vars => TypeOK'
  <2>1. TypeOK /\ Next => TypeOK'
    BY ExecutorType, IAgentType, SAgentType DEF Next
  <2>2. TypeOK /\ UNCHANGED vars => TypeOK'
    BY DEF TypeOK, vars, executorVars, agentVars
  <2> QED
    BY <2>1, <2>2
<1> QED
  BY <1>1, <1>2, PTL DEF Spec

-----------------------------------------------------------------------------
(* The executor's steps keep NoLostWakeup: it goes back to its semaphore   *)
(* only from While, and then the flag is down.                             *)
LEMMA ExecutorWakeup ==
    ASSUME TypeOK, NoLostWakeup, ExecutorStep
    PROVE  NoLostWakeup'
<1> USE DEF NoLostWakeup, Starting
<1>1. CASE Take
  BY <1>1 DEF Take
<1>2. CASE While
  BY <1>2 DEF While, agentVars
<1>3. CASE ReadSlot \/ CallBack \/ DropSlot \/ DoCallbackTake \/ TagEventCallback
           \/ DoCallbackGive \/ FoundCheck \/ HasClients \/ FlagCheck \/ ForEnds
           \/ SkipAntenna \/ ReadNoTags \/ ReadTags \/ ZeroFlag
  <2>1. xpc' # "take"
    BY <1>3 DEF ReadSlot, CallBack, DropSlot, DoCallbackTake, TagEventCallback,
                DoCallbackGive, FoundCheck, HasClients, FlagCheck, ForEnds,
                SkipAntenna, ReadNoTags, ReadTags, ZeroFlag, NextAntenna
  <2> QED
    BY <2>1
<1> QED
  BY <1>1, <1>2, <1>3 DEF ExecutorStep

(* An agent's step keeps NoLostWakeup: it raises the flag only as it       *)
(* enters Starting, and leaves Starting only by a give.                    *)
LEMMA AgentWakeup ==
    ASSUME TypeOK, NoLostWakeup, NEW a \in Agents,
           \/ a \in IAgents /\ IAgentStep(a)
           \/ a \in SAgents /\ SAgentStep(a)
    PROVE  NoLostWakeup'
<1> USE DEF executorVars
<1>1. CASE Give(a)
  <2>1. hSem' > 0
    BY <1>1 DEF Give, TypeOK
  <2> QED
    BY <2>1 DEF NoLostWakeup
<1>2. CASE StartExecutor(a) \/ SetFlag(a)
  <2>1. apc'[a] \in {"scan", "claim", "give"}
    BY <1>2 DEF StartExecutor, SetFlag, Goto, TypeOK
  <2> QED
    BY <2>1 DEF NoLostWakeup, Starting
<1>3. CASE StopExecutor(a)
  BY <1>3 DEF StopExecutor, NoLostWakeup
<1>4. CASE \/ ScanSlot(a) \/ ClaimSlot(a)
           \/ Accept(a) \/ StopScan(a) \/ StopClear(a) \/ AntMapBegin(a) \/ AntMapEnd(a)
           \/ CloseConnection(a) \/ StartStreamTag(a) \/ StopStreamTag(a) \/ SelTag(a)
           \/ GetSearchTimeout(a) \/ RemoveCallbackHandler(a) \/ CloseSocket(a)
  <2>1. UNCHANGED <<hSem, executor_start_flag, xpc>>
    BY <1>4 DEF ScanSlot, ClaimSlot, Accept, StopScan, StopClear, AntMapBegin, AntMapEnd,
                CloseConnection, StartStreamTag, StopStreamTag, SelTag, SetCallbackHandler,
                GetSearchTimeout, RemoveCallbackHandler, CloseSocket
  <2>2. a \in Starting => a \in Starting'
    <3>1. CASE ScanSlot(a)
      BY <3>1 DEF ScanSlot, Goto, Starting, TypeOK
    <3>2. CASE ClaimSlot(a)
      BY <3>2 DEF ClaimSlot, Goto, Starting, TypeOK
    <3>3. CASE ~ (ScanSlot(a) \/ ClaimSlot(a))
      BY <1>4, <3>3 DEF Accept, StopScan, StopClear, AntMapBegin, AntMapEnd,
                CloseConnection, StartStreamTag, StopStreamTag, SelTag, SetCallbackHandler,
                GetSearchTimeout, RemoveCallbackHandler, CloseSocket, Starting
    <3> QED
      BY <3>1, <3>2, <3>3
  <2>3. \A b \in Agents \ {a} : apc'[b] = apc[b]
    <3>1. CASE ScanSlot(a) \/ StopScan(a)
      BY <3>1 DEF ScanSlot, StopScan, Goto, NextMessage, TypeOK
    <3>2. CASE ~ (ScanSlot(a) \/ StopScan(a))
      BY <1>4, <3>2 DEF ClaimSlot, Accept, StopClear, AntMapBegin, AntMapEnd,
                CloseConnection, StartStreamTag, StopStreamTag, SelTag, GetSearchTimeout,
                RemoveCallbackHandler, CloseSocket, Goto, NextMessage, TypeOK
    <3> QED
      BY <3>1, <3>2
  <2> QED
    BY <2>1, <2>2, <2>3 DEF NoLostWakeup, Starting
<1> QED
  BY <1>1, <1>2, <1>3, <1>4 DEF IAgentStep, SAgentStep

(* No start request is slept through: while the flag is up, the executor   *)
(* waits for its semaphore only if a give is there or on its way.          *)
THEOREM NoStartSleptThrough == ConstantsAssumption => (Spec => []NoLostWakeup)
<1> SUFFICES ASSUME ConstantsAssumption PROVE Spec => []NoLostWakeup
  OBVIOUS
<1>1. Init => NoLostWakeup
  BY DEF Init, NoLostWakeup
<1>2. TypeOK /\ NoLostWakeup /\ [Next]_vars => NoLostWakeup'
  <2>1. TypeOK /\ NoLostWakeup /\ Next => NoLostWakeup'
    BY ExecutorWakeup, AgentWakeup DEF Next, Agents
  <2>2. NoLostWakeup /\ UNCHANGED vars => NoLostWakeup'
    BY DEF NoLostWakeup, Starting, vars, executorVars, agentVars
  <2> QED
    BY <2>1, <2>2
<1>3. Spec => []TypeOK
  BY TypeCorrect
<1> QED
  BY <1>1, <1>2, <1>3, PTL DEF Spec
-----------------------------------------------------------------------------
(* The last slot. *)

(* Who searches the table does not carry the database's sentinel; who      *)
(* claims the last slot does.                                              *)
ClaimsFit ==
    \A a \in Agents :
        /\ apc[a] = "scan" => aarg[a] # DATABASE_MAGIC
        /\ apc[a] = "claim" => (aarg[a] = DATABASE_MAGIC <=> aidx[a] = MAX_TX_SOCKET)

SlotInv == DatabaseSlotReserved /\ ClaimsFit

(* A step that leaves the table, the indices and the arguments alone and   *)
(* makes nobody search or claim.                                          *)
LEMMA SlotsUntouched ==
    ASSUME SlotInv, UNCHANGED <<clientFd, aidx, aarg>>,
           \A a \in Agents : apc'[a] \in {"scan", "claim"} => apc'[a] = apc[a]
    PROVE  SlotInv'
BY DEF SlotInv, ClaimsFit, DatabaseSlotReserved, Slots

LEMMA ExecutorSlots ==
    ASSUME ConstantsAssumption, TypeOK, SlotInv, ExecutorStep PROVE SlotInv'
<1>1. CASE DropSlot
  <2>1. UNCHANGED agentVars /\ xj \in Slots /\ clientFd' = [clientFd EXCEPT ![xj] = NoFd]
    BY <1>1 DEF DropSlot, TypeOK
  <2>2. ClaimsFit'
    BY <2>1 DEF SlotInv, ClaimsFit, agentVars
  <2>3. DatabaseSlotReserved'
    BY <2>1 DEF SlotInv, DatabaseSlotReserved, TypeOK, ConstantsAssumption, Sentinels
  <2> QED
    BY <2>2, <2>3 DEF SlotInv
<1>2. CASE ~ DropSlot
  <2>1. UNCHANGED <<clientFd, agentVars>>
    BY <1>2, Zenon DEF ExecutorStep, Take, While, ForEnds, SkipAntenna, ReadNoTags, ReadTags,
       HasClients, ZeroFlag, FlagCheck, ReadSlot, CallBack, DoCallbackTake, TagEventCallback,
       DoCallbackGive, FoundCheck, ExecutorOnly, slotVars
  <2> QED
    BY <2>1, SlotsUntouched DEF agentVars
<1> QED
  BY <1>1, <1>2

LEMMA IAgentSlots ==
    ASSUME ConstantsAssumption, TypeOK, SlotInv, NEW a \in IAgents, IAgentStep(a)
    PROVE  SlotInv'
<1> a \in Agents
  BY DEF Agents
<1> USE DEF SlotInv, Goto, NextMessage, slotVars
<1>1. CASE Accept(a) \/ AntMapBegin(a) \/ AntMapEnd(a) \/ CloseConnection(a)
  BY <1>1, SlotsUntouched DEF Accept, AntMapBegin, AntMapEnd, CloseConnection, TypeOK
<1>2. CASE StartExecutor(a)
  <2> PICK fd \in StartArgs(a) :
        /\ aarg' = [aarg EXCEPT ![a] = fd]
        /\ IF fd = DATABASE_MAGIC
             THEN Goto(a, "claim") /\ aidx' = [aidx EXCEPT ![a] = MAX_TX_SOCKET]
             ELSE Goto(a, "scan") /\ aidx' = [aidx EXCEPT ![a] = 1]
    BY <1>2 DEF StartExecutor
  <2>1. ClaimsFit'
    BY DEF ClaimsFit, TypeOK
  <2>2. DatabaseSlotReserved'
    BY <1>2 DEF StartExecutor, DatabaseSlotReserved, Slots
  <2> QED
    BY <2>1, <2>2
<1>3. CASE ScanSlot(a)
  <2>1. ClaimsFit'
    BY <1>3 DEF ScanSlot, ClaimsFit, TypeOK, ConstantsAssumption
  <2>2. DatabaseSlotReserved'
    BY <1>3 DEF ScanSlot, DatabaseSlotReserved, Slots
  <2> QED
    BY <2>1, <2>2
<1>4. CASE ClaimSlot(a)
  <2>1. ClaimsFit'
    BY <1>4 DEF ClaimSlot, ClaimsFit, TypeOK
  <2>2. DatabaseSlotReserved'
    BY <1>4 DEF ClaimSlot, ClaimsFit, DatabaseSlotReserved, TypeOK, Slots, ConstantsAssumption
  <2> QED
    BY <2>1, <2>2
<1>5. CASE Give(a) \/ StopExecutor(a) \/ StopScan(a)
  <2>1. ClaimsFit'
    BY <1>5 DEF Give, StopExecutor, StopScan, ClaimsFit, TypeOK
  <2>2. DatabaseSlotReserved'
    BY <1>5 DEF Give, StopExecutor, StopScan, DatabaseSlotReserved, Slots
  <2> QED
    BY <2>1, <2>2
<1>6. CASE StopClear(a)
  <2>1. ClaimsFit'
    BY <1>6 DEF StopClear, ClaimsFit, TypeOK
  <2>2. DatabaseSlotReserved'
    BY <1>6 DEF StopClear, DatabaseSlotReserved, TypeOK, Slots, ConstantsAssumption, Sentinels
  <2> QED
    BY <2>1, <2>2
<1> QED
  BY <1>1, <1>2, <1>3, <1>4, <1>5, <1>6 DEF IAgentStep

LEMMA SAgentSlots ==
    ASSUME TypeOK, SlotInv, NEW s \in SAgents, SAgentStep(s) PROVE SlotInv'
<1> s \in Agents
  BY DEF Agents
<1>1. CASE Give(s)
  BY <1>1 DEF Give, Goto, NextMessage, slotVars, SlotInv, ClaimsFit, DatabaseSlotReserved, Slots,
              TypeOK
<1>2. CASE ~ Give(s)
  <2>1. UNCHANGED <<clientFd, aidx, aarg>>
    BY <1>2, Zenon DEF SAgentStep, Accept, StartStreamTag, SetFlag, StopStreamTag, SelTag,
       SetCallbackHandler, GetSearchTimeout, RemoveCallbackHandler, CloseSocket, slotVars
  <2>2. \E l \in {"recv", "flag", "give", "seltag", "idle", "closing"} :
            apc' = [apc EXCEPT ![s] = l]
    BY <1>2, Zenon DEF SAgentStep, Accept, StartStreamTag, SetFlag, StopStreamTag, SelTag,
       GetSearchTimeout, RemoveCallbackHandler, CloseSocket, Goto
  <2>3. \A b \in Agents : apc'[b] \in {"scan", "claim"} => apc'[b] = apc[b]
    BY <2>2 DEF TypeOK
  <2> QED
    BY <2>1, <2>3, SlotsUntouched
<1> QED
  BY <1>1, <1>2

(* start_executor gives the last slot to the database and the others to    *)
(* sockets, for any number of agents that search and claim at once.        *)
THEOREM LastSlotIsDatabase == ConstantsAssumption => (Spec => []DatabaseSlotReserved)
<1> SUFFICES ASSUME ConstantsAssumption PROVE Spec => []DatabaseSlotReserved
  OBVIOUS
<1>1. Init => SlotInv
  BY DEF Init, SlotInv, ClaimsFit, DatabaseSlotReserved, Slots, ConstantsAssumption, Sentinels
<1>2. TypeOK /\ SlotInv /\ [Next]_vars => SlotInv'
  <2>1. TypeOK /\ SlotInv /\ Next => SlotInv'
    BY ExecutorSlots, IAgentSlots, SAgentSlots DEF Next
  <2>2. SlotInv /\ UNCHANGED vars => SlotInv'
    BY SlotsUntouched DEF vars, agentVars
  <2> QED
    BY <2>1, <2>2
<1>3. SlotInv => DatabaseSlotReserved
  BY DEF SlotInv
<1>4. Spec => []TypeOK
  BY TypeCorrect
<1> QED
  BY <1>1, <1>2, <1>3, <1>4, PTL DEF Spec

-----------------------------------------------------------------------------
(* The handlers. *)

(* What erase() of a sequence without repetitions leaves. *)
LEMMA RemoveAtEntries ==
    ASSUME NEW S, NEW q \in Seq(S), IsInjective(q), NEW i \in 1 .. Len(q)
    PROVE  LET r == RemoveAt(q, i) IN
           /\ IsInjective(r)
           /\ \A k \in 1 .. Len(r) : \E j \in 1 .. Len(q) : j # i /\ r[k] = q[j]
<1> DEFINE r == RemoveAt(q, i)
           old(k) == IF k < i THEN k ELSE k + 1
<1>1. SubSeq(q, 1, i - 1) \in Seq(S) /\ Len(SubSeq(q, 1, i - 1)) = i - 1
      /\ \A k \in 1 .. i - 1 : SubSeq(q, 1, i - 1)[k] = q[k]
  BY SubSeqProperties
<1>2. SubSeq(q, i + 1, Len(q)) \in Seq(S) /\ Len(SubSeq(q, i + 1, Len(q))) = Len(q) - i
      /\ \A k \in 1 .. Len(q) - i : SubSeq(q, i + 1, Len(q))[k] = q[i + k]
  BY SubSeqProperties
<1>3. r \in Seq(S) /\ Len(r) = Len(q) - 1 /\ \A k \in 1 .. Len(r) : r[k] = q[old(k)]
  <2> DEFINE front == SubSeq(q, 1, i - 1)
             back == SubSeq(q, i + 1, Len(q))
  <2>1. r = front \o back
    BY DEF RemoveAt
  <2>2. front \in Seq(S) /\ back \in Seq(S) /\ Len(front) = i - 1 /\ Len(back) = Len(q) - i
    BY <1>1, <1>2
  <2>3. \A k \in 1 .. i - 1 : front[k] = q[k]
    BY <1>1
  <2>4. \A k \in 1 .. Len(q) - i : back[k] = q[i + k]
    BY <1>2
  <2> HIDE DEF front, back, r
  <2>5. r \in Seq(S) /\ Len(r) = Len(q) - 1
    BY <2>1, <2>2, ConcatProperties
  <2>6. ASSUME NEW k \in 1 .. Len(r) PROVE r[k] = q[old(k)]
    <3>1. CASE k < i
      BY <2>1, <2>2, <2>3, <2>5, <3>1, ConcatProperties
    <3>2. CASE k >= i
      <4>1. r[k] = back[k - (i - 1)] /\ k - (i - 1) \in 1 .. Len(q) - i
        BY <2>1, <2>2, <2>5, <3>2, ConcatProperties
      <4>2. q[old(k)] = q[i + (k - (i - 1))]
        BY <3>2, <2>5
      <4> QED
        BY <4>1, <4>2, <2>4
    <3> QED
      BY <3>1, <3>2, <2>5
  <2> QED
    BY <2>5, <2>6
<1>4. \A k \in 1 .. Len(r) : old(k) \in 1 .. Len(q) /\ old(k) # i
  BY <1>3
<1>5. \A k, l \in 1 .. Len(r) : old(k) = old(l) => k = l
  BY <1>3
<1>6. DOMAIN r = 1 .. Len(r) /\ DOMAIN q = 1 .. Len(q)
  BY <1>3
<1>7. IsInjective(r)
  BY <1>3, <1>4, <1>5, <1>6 DEF IsInjective
<1> HIDE DEF r
<1> QED
  BY <1>3, <1>4, <1>7 DEF r

(* moRegistry has no handler twice, and each is that of a connection in    *)
(* progress that has sent its request.                                     *)
Registered ==
    /\ IsInjective(moRegistry)
    /\ \A i \in 1 .. Len(moRegistry) :
          /\ apc[moRegistry[i]] \notin {"idle", "closing"}
          /\ nreq[moRegistry[i]] # 0

(* The executor is in Do_Callback exactly while it has the mutex, and then *)
(* the handler it runs is in the registry; open connections have sockets.  *)
Calling ==
    /\ xpc \in {"handlers", "writing"} => hMutex = Executor
    /\ xpc = "writing" => xj \in 1 .. Len(moRegistry) /\ xh = moRegistry[xj]
    /\ \A s \in SAgents : apc[s] # "idle" => clientSocket[s] # NoFd

HandlersInv == MaxReq = 1 => Registered /\ Calling

LEMMA ExecutorHandlers ==
    ASSUME TypeOK, HandlersInv, ExecutorStep PROVE HandlersInv'
<1> SUFFICES ASSUME MaxReq = 1, Registered, Calling PROVE Registered' /\ Calling'
  BY DEF HandlersInv
<1>1. UNCHANGED <<moRegistry, apc, nreq, clientSocket>>
  BY Zenon DEF ExecutorStep, Take, While, ForEnds, SkipAntenna, ReadNoTags, ReadTags,
     HasClients, ZeroFlag, FlagCheck, ReadSlot, CallBack, DropSlot, DoCallbackTake,
     TagEventCallback, DoCallbackGive, FoundCheck, ExecutorOnly, registryVars, agentVars
<1>2. Registered'
  BY <1>1 DEF Registered
<1>3. CASE DoCallbackTake \/ TagEventCallback
  <2>1. /\ xpc' \in {"handlers", "writing"} => hMutex' = Executor
        /\ xpc' = "writing" => xj' \in 1 .. Len(moRegistry) /\ xh' = moRegistry[xj']
    BY <1>3 DEF DoCallbackTake, TagEventCallback, Calling, ExecutorOnly, registryVars, TypeOK
  <2> QED
    BY <1>1, <1>2, <2>1 DEF Calling
<1>4. CASE ~ (DoCallbackTake \/ TagEventCallback)
  <2>1. xpc' \notin {"handlers", "writing"}
    <3>1. CASE Take \/ While \/ ForEnds \/ SkipAntenna \/ ReadNoTags \/ ReadTags \/ ZeroFlag
               \/ FlagCheck \/ DropSlot \/ DoCallbackGive \/ FoundCheck
      BY <3>1 DEF Take, While, ForEnds, SkipAntenna, ReadNoTags, ReadTags, ZeroFlag, FlagCheck,
         DropSlot, DoCallbackGive, FoundCheck, NextAntenna
    <3>2. CASE HasClients \/ ReadSlot \/ CallBack
      BY <3>2 DEF HasClients, ReadSlot, CallBack, NextAntenna
    <3> QED
      BY <1>4, <3>1, <3>2 DEF ExecutorStep
  <2> QED
    BY <1>1, <1>2, <2>1 DEF Calling
<1> QED
  BY <1>2, <1>3, <1>4

LEMMA IAgentHandlers ==
    ASSUME ConstantsAssumption, TypeOK, HandlersInv, NEW a \in IAgents, IAgentStep(a)
    PROVE  HandlersInv'
<1> SUFFICES ASSUME MaxReq = 1, Registered, Calling PROVE Registered' /\ Calling'
  BY DEF HandlersInv
<1>1. UNCHANGED <<registryVars, executorVars, nreq>>
  BY Zenon DEF IAgentStep, Accept, StartExecutor, ScanSlot, ClaimSlot, Give, StopExecutor,
     StopScan, StopClear, AntMapBegin, AntMapEnd, CloseConnection
<1>2. \A s \in SAgents : apc'[s] = apc[s] /\ clientSocket'[s] = clientSocket[s]
  <2> a \notin SAgents
    BY DEF ConstantsAssumption
  <2> USE DEF Goto, NextMessage, TypeOK, Agents
  <2>1. CASE Accept(a) \/ AntMapBegin(a) \/ AntMapEnd(a) \/ CloseConnection(a)
    BY <2>1 DEF Accept, AntMapBegin, AntMapEnd, CloseConnection
  <2>2. CASE StartExecutor(a) \/ StopExecutor(a)
    BY <2>2 DEF StartExecutor, StopExecutor
  <2>3. CASE ScanSlot(a) \/ ClaimSlot(a) \/ Give(a)
    BY <2>3 DEF ScanSlot, ClaimSlot, Give
  <2>4. CASE StopScan(a) \/ StopClear(a)
    BY <2>4 DEF StopScan, StopClear
  <2> QED
    BY <2>1, <2>2, <2>3, <2>4 DEF IAgentStep
<1>3. \A i \in 1 .. Len(moRegistry) : moRegistry[i] \in SAgents
  BY DEF TypeOK
<1>4. Registered'
  BY <1>1, <1>2, <1>3 DEF Registered, registryVars
<1>5. Calling'
  BY <1>1, <1>2 DEF Calling, registryVars, executorVars
<1> QED
  BY <1>4, <1>5

(* An SCGI connection that goes on with the registry untouched. *)
LEMMA OwnStep ==
    ASSUME TypeOK, Registered, Calling, NEW s \in SAgents, UNCHANGED <<moRegistry, hMutex, executorVars>>,
           NEW l, l # "idle", apc' = [apc EXCEPT ![s] = l],
           l = "closing" => \A i \in 1 .. Len(moRegistry) : moRegistry[i] # s,
           apc[s] # "idle", UNCHANGED <<clientSocket, nreq>>
    PROVE  Registered' /\ Calling'
<1>1. \A t \in SAgents : apc'[t] = IF t = s THEN l ELSE apc[t]
  BY DEF TypeOK, Agents
<1>2. \A i \in 1 .. Len(moRegistry) : moRegistry[i] \in SAgents
  BY DEF TypeOK
<1>3. Registered'
  BY <1>1, <1>2 DEF Registered
<1>4. Calling'
  BY <1>1 DEF Calling, executorVars
<1> QED
  BY <1>3, <1>4

LEMMA SetHandler ==
    ASSUME TypeOK, MaxReq = 1, Registered, Calling, ConstantsAssumption,
           NEW s \in SAgents, SetCallbackHandler(s),
           NEW l, l \notin {"idle", "closing"}, apc' = [apc EXCEPT ![s] = l]
    PROVE  Registered' /\ Calling'
<1>1. /\ nreq[s] = 0 /\ nreq'[s] = 1 /\ \A t \in SAgents \ {s} : nreq'[t] = nreq[t]
      /\ hMutex = NoOwner /\ moRegistry' = Append(moRegistry, s)
      /\ UNCHANGED <<executorVars, hMutex, clientSocket>> /\ apc[s] = "recv"
  BY DEF SetCallbackHandler, TypeOK, Agents
<1>2. \A t \in SAgents : apc'[t] = IF t = s THEN l ELSE apc[t]
  BY DEF TypeOK, Agents
<1>3. moRegistry \in Seq(SAgents) /\ \A i \in 1 .. Len(moRegistry) : moRegistry[i] # s
  BY <1>1 DEF Registered, TypeOK
<1>4. /\ Len(moRegistry') = Len(moRegistry) + 1
      /\ DOMAIN moRegistry = 1 .. Len(moRegistry)
      /\ DOMAIN moRegistry' = 1 .. Len(moRegistry) + 1
      /\ moRegistry'[Len(moRegistry) + 1] = s
      /\ \A i \in 1 .. Len(moRegistry) :
            moRegistry'[i] = moRegistry[i] /\ moRegistry[i] \in SAgents
      /\ Len(moRegistry) \in Nat
  BY <1>1, <1>3
<1>5. IsInjective(moRegistry')
  BY <1>3, <1>4 DEF Registered, IsInjective
<1>6. Registered'
  BY <1>1, <1>2, <1>3, <1>4, <1>5 DEF Registered
<1>7. xpc # "writing" /\ xpc # "handlers"
  BY <1>1 DEF Calling, ConstantsAssumption
<1>8. Calling'
  BY <1>1, <1>2, <1>7 DEF Calling, executorVars
<1> QED
  BY <1>6, <1>8

LEMMA SAgentHandlers ==
    ASSUME ConstantsAssumption, TypeOK, HandlersInv, NEW s \in SAgents, SAgentStep(s)
    PROVE  HandlersInv'
<1> SUFFICES ASSUME MaxReq = 1, Registered, Calling PROVE Registered' /\ Calling'
  BY DEF HandlersInv
<1> s \in Agents
  BY DEF Agents
<1>1. CASE StartStreamTag(s) \/ StopStreamTag(s) \/ SelTag(s)
  <2>1. SetCallbackHandler(s)
        /\ \E l \in {"flag", "recv", "seltag"} : apc' = [apc EXCEPT ![s] = l]
    BY <1>1, Zenon DEF StartStreamTag, StopStreamTag, SelTag, Goto
  <2> QED
    BY <2>1, SetHandler
<1>2. CASE SetFlag(s) \/ Give(s)
  <2>1. /\ UNCHANGED <<moRegistry, hMutex, executorVars, clientSocket, nreq>>
        /\ apc[s] # "idle"
        /\ \E l \in {"give", "recv"} : apc' = [apc EXCEPT ![s] = l]
    BY <1>2 DEF SetFlag, Give, Goto, NextMessage, registryVars
  <2> QED
    BY <2>1, OwnStep
<1>3. CASE Accept(s)
  <2>1. PICK fd \in Fds : clientSocket' = [clientSocket EXCEPT ![s] = fd]
    BY <1>3 DEF Accept
  <2>2. /\ UNCHANGED <<moRegistry, hMutex, executorVars, nreq>>
        /\ apc' = [apc EXCEPT ![s] = "recv"] /\ apc[s] = "idle"
    BY <1>3 DEF Accept, Goto, registryVars
  <2>3. Registered'
    BY <2>2 DEF Registered, TypeOK, Agents
  <2>4. \A t \in SAgents : apc'[t] # "idle" => clientSocket'[t] # NoFd
    BY <2>1, <2>2 DEF Calling, ConstantsAssumption, TypeOK, Agents
  <2>5. Calling'
    BY <2>2, <2>4 DEF Calling, executorVars
  <2> QED
    BY <2>3, <2>5
<1>4. CASE GetSearchTimeout(s) \/ CloseSocket(s)
  <2>1. /\ UNCHANGED <<moRegistry, hMutex, executorVars>>
        /\ apc' = [apc EXCEPT ![s] = "idle"]
        /\ clientSocket' = [clientSocket EXCEPT ![s] = NoFd]
        /\ nreq' = [nreq EXCEPT ![s] = 0]
    BY <1>4 DEF GetSearchTimeout, CloseSocket, Goto, registryVars
  <2>2. \A i \in 1 .. Len(moRegistry) : moRegistry[i] # s
    BY <1>4 DEF GetSearchTimeout, CloseSocket, Registered, TypeOK
  <2>3. \A i \in 1 .. Len(moRegistry) : moRegistry[i] \in Agents
    BY DEF TypeOK, Agents
  <2>4. Registered'
    BY <2>1, <2>2, <2>3 DEF Registered, TypeOK
  <2>5. \A t \in SAgents : apc'[t] # "idle" => clientSocket'[t] # NoFd
    BY <2>1 DEF Calling, TypeOK, Agents
  <2>6. Calling'
    BY <2>1, <2>5 DEF Calling, executorVars
  <2> QED
    BY <2>4, <2>6
<1>5. CASE RemoveCallbackHandler(s)
  <2>1. /\ UNCHANGED <<hMutex, executorVars, clientSocket, nreq>>
        /\ apc' = [apc EXCEPT ![s] = "closing"] /\ apc[s] = "recv" /\ hMutex = NoOwner
        /\ EraseFirst(s)
    BY <1>5 DEF RemoveCallbackHandler, Goto
  <2>2. CASE UNCHANGED moRegistry /\ s \notin ToSet(moRegistry)
    <3>1. \A i \in 1 .. Len(moRegistry) : moRegistry[i] # s
      BY <2>2 DEF ToSet, TypeOK
    <3> QED
      BY <2>1, <2>2, <3>1, OwnStep
  <2>3. CASE \E i \in 1 .. Len(moRegistry) :
                moRegistry[i] = s /\ moRegistry' = RemoveAt(moRegistry, i)
    <3> PICK i \in 1 .. Len(moRegistry) :
                moRegistry[i] = s /\ moRegistry' = RemoveAt(moRegistry, i)
      BY <2>3
    <3> moRegistry \in Seq(SAgents)
      BY DEF TypeOK
    <3>1. /\ IsInjective(moRegistry')
          /\ \A k \in 1 .. Len(moRegistry') :
                \E j \in 1 .. Len(moRegistry) : j # i /\ moRegistry'[k] = moRegistry[j]
      BY RemoveAtEntries DEF Registered
    <3>2. \A j \in 1 .. Len(moRegistry) : j # i => moRegistry[j] # s
      BY DEF Registered, IsInjective
    <3>3. \A j \in 1 .. Len(moRegistry) : j # i =>
              /\ apc'[moRegistry[j]] = apc[moRegistry[j]]
              /\ nreq'[moRegistry[j]] = nreq[moRegistry[j]]
      BY <2>1, <3>2, SMTT(40) DEF TypeOK, Agents
    <3>4. Registered'
      <4> SUFFICES ASSUME NEW k \in 1 .. Len(moRegistry')
                   PROVE  /\ apc'[moRegistry'[k]] \notin {"idle", "closing"}
                          /\ nreq'[moRegistry'[k]] # 0
        BY <3>1 DEF Registered
      <4> PICK j \in 1 .. Len(moRegistry) : j # i /\ moRegistry'[k] = moRegistry[j]
        BY <3>1
      <4> QED
        BY <3>3 DEF Registered
    <3>5. xpc # "writing" /\ xpc # "handlers"
      BY <2>1 DEF Calling, ConstantsAssumption
    <3>6. Calling'
      BY <2>1, <3>5 DEF Calling, TypeOK, Agents, executorVars
    <3> QED
      BY <3>4, <3>6
  <2> QED
    BY <2>1, <2>2, <2>3 DEF EraseFirst
<1> QED
  BY <1>1, <1>2, <1>3, <1>4, <1>5 DEF SAgentStep

LEMMA HandlersAlways == ConstantsAssumption => (Spec => [](TypeOK /\ HandlersInv))
<1> SUFFICES ASSUME ConstantsAssumption PROVE Spec => [](TypeOK /\ HandlersInv)
  OBVIOUS
<1>1. Init => HandlersInv
  <2> SUFFICES ASSUME Init PROVE Registered /\ Calling
    BY DEF HandlersInv
  <2>1. moRegistry = <<>> /\ Len(moRegistry) = 0 /\ DOMAIN moRegistry = {}
    BY DEF Init
  <2>2. Registered
    BY <2>1 DEF Registered, IsInjective
  <2>3. \A s \in SAgents : apc[s] = "idle"
    BY DEF Init, Agents
  <2>4. Calling
    BY <2>3 DEF Init, Calling
  <2> QED
    BY <2>2, <2>4
<1>2. TypeOK /\ HandlersInv /\ [Next]_vars => HandlersInv'
  <2>1. TypeOK /\ HandlersInv /\ Next => HandlersInv'
    BY ExecutorHandlers, IAgentHandlers, SAgentHandlers DEF Next
  <2>2. HandlersInv /\ UNCHANGED vars => HandlersInv'
    BY DEF HandlersInv, Registered, Calling, vars, agentVars, executorVars
  <2> QED
    BY <2>1, <2>2
<1>3. Spec => []TypeOK
  BY TypeCorrect
<1> QED
  BY <1>1, <1>2, <1>3, PTL DEF Spec

(* RemoveCallbackHandler finds what SetCallbackHandler entered: with one   *)
(* request per connection, no handler outlives its connection or is        *)
(* entered twice, for any number of connections.                           *)
THEOREM HandlersOfLiveConnections == ConstantsAssumption => (Spec => []RegistryLive)
<1>1. HandlersInv => RegistryLive
  BY DEF HandlersInv, Registered, RegistryLive
<1> QED
  BY <1>1, HandlersAlways, PTL

(* TagEventCallback is never run for a connection that is closed or about  *)
(* to be: Do_Callback holds the mutex that RemoveCallbackHandler needs.    *)
THEOREM NoCallIntoClosed == ConstantsAssumption => (Spec => []CallbackLive)
<1>1. TypeOK /\ HandlersInv => CallbackLive
  BY DEF HandlersInv, Registered, Calling, CallbackLive, TypeOK
<1> QED
  BY <1>1, HandlersAlways, PTL

-----------------------------------------------------------------------------
(* The slots of a connection. *)

(* Every connection in progress has a descriptor of its own, and a socket  *)
(* in the table is that of a connection in progress.                       *)
SocketsOwned ==
    /\ \A a \in Agents : clientSocket[a] = NoFd <=> apc[a] = "idle"
    /\ \A a, b \in Agents : clientSocket[a] = clientSocket[b] /\ apc[a] # "idle" => a = b
    /\ \A j \in Slots : clientFd[j] \in Fds => \E a \in IAgents : clientSocket[a] = clientFd[j]

ArgsFit ==
    \A a \in IAgents :
        apc[a] \in {"scan", "claim", "stopscan", "stopclear"} => aarg[a] \in StartArgs(a)

(* What an agent does about its own socket, and not about a sentinel. *)
Own(a, l) == apc[a] = l /\ aarg[a] = clientSocket[a]

(* One slot at most; none before the claim of a start, and what a stop has *)
(* passed in its search it need not come back for.                         *)
OneSlotOf(a) == apc[a] # "idle" =>
    /\ \A j, k \in SlotsOf(a) : j = k
    /\ a \in asked \/ Own(a, "stopscan") \/ Own(a, "stopclear") \/ SlotsOf(a) = {}
    /\ Own(a, "scan") \/ Own(a, "claim") => a \in asked /\ SlotsOf(a) = {}
    /\ Own(a, "stopscan") => \A j \in SlotsOf(a) : j >= aidx[a]
    /\ Own(a, "stopclear") => SlotsOf(a) \subseteq {aidx[a]}

ConnInv == SocketsOwned /\ ArgsFit /\ \A a \in IAgents : OneSlotOf(a)

(* Slots are emptied only, or nothing is done to the table. *)
Empties == clientFd' = clientFd \/ \E j \in Slots : clientFd' = [clientFd EXCEPT ![j] = NoFd]

LEMMA SlotsShrink ==
    ASSUME ConstantsAssumption, TypeOK, SocketsOwned, Empties,
           NEW a \in IAgents, apc[a] # "idle", clientSocket'[a] = clientSocket[a]
    PROVE  SlotsOf(a)' \subseteq SlotsOf(a)
<1>1. clientSocket[a] # NoFd
  BY DEF SocketsOwned, Agents
<1>2. ASSUME NEW j \in Slots, clientFd'[j] = clientSocket[a] PROVE clientFd[j] = clientSocket[a]
  BY <1>1, <1>2 DEF Empties, TypeOK
<1> QED
  BY <1>2 DEF SlotsOf, Slots

(* An agent that does nothing while its slots at most shrink. *)
LEMMA BystanderKeeps ==
    ASSUME NEW a \in IAgents, OneSlotOf(a), apc'[a] = apc[a], aidx'[a] = aidx[a],
           aarg'[a] = aarg[a], clientSocket'[a] = clientSocket[a], a \in asked' <=> a \in asked,
           apc[a] # "idle" => SlotsOf(a)' \subseteq SlotsOf(a)
    PROVE  OneSlotOf(a)'
<1> CASE apc[a] = "idle"
  BY DEF OneSlotOf
<1>1. CASE apc[a] # "idle"
  <2> USE <1>1
  <2>1. \A j, k \in SlotsOf(a)' : j = k
    BY DEF OneSlotOf
  <2>2. \A l : Own(a, l)' <=> Own(a, l)
    BY DEF Own
  <2>3. a \in asked' \/ Own(a, "stopscan")' \/ Own(a, "stopclear")' \/ SlotsOf(a)' = {}
    BY <2>2 DEF OneSlotOf
  <2>4. Own(a, "scan")' \/ Own(a, "claim")' => a \in asked' /\ SlotsOf(a)' = {}
    BY <2>2 DEF OneSlotOf
  <2>5. Own(a, "stopscan")' => \A j \in SlotsOf(a)' : j >= aidx'[a]
    BY <2>2 DEF OneSlotOf
  <2>6. Own(a, "stopclear")' => SlotsOf(a)' \subseteq {aidx'[a]}
    BY <2>2 DEF OneSlotOf
  <2> QED
    BY <2>1, <2>3, <2>4, <2>5, <2>6 DEF OneSlotOf
<1> QED
  BY <1>1

(* A step that opens and closes nothing. *)
LEMMA SocketsKept ==
    ASSUME ConstantsAssumption, TypeOK, SocketsOwned, Empties, UNCHANGED clientSocket,
           \A a \in Agents : apc'[a] = "idle" <=> apc[a] = "idle"
    PROVE  SocketsOwned'
<1>1. ASSUME NEW j \in Slots, clientFd'[j] \in Fds
      PROVE  \E a \in IAgents : clientSocket'[a] = clientFd'[j]
  <2>1. clientFd'[j] = clientFd[j]
    BY <1>1 DEF Empties, TypeOK, ConstantsAssumption
  <2> QED
    BY <1>1, <2>1 DEF SocketsOwned
<1> QED
  BY <1>1 DEF SocketsOwned, Slots

(* A step of the agent a that opens and closes nothing and claims nothing: *)
(* there remains to see what it says of its own slots.                     *)
LEMMA OneAgentSteps ==
    ASSUME ConstantsAssumption, TypeOK, ConnInv, Empties, UNCHANGED clientSocket,
           NEW a \in Agents, apc[a] # "idle", apc'[a] # "idle",
           \A b \in Agents : b # a => apc'[b] = apc[b] /\ aidx'[b] = aidx[b] /\ aarg'[b] = aarg[b],
           \A b \in IAgents : b # a => (b \in asked' <=> b \in asked),
           a \in IAgents => OneSlotOf(a)',
           a \in IAgents /\ apc'[a] \in {"scan", "claim", "stopscan", "stopclear"}
              => aarg'[a] \in StartArgs(a)
    PROVE  ConnInv'
<1> USE DEF ConnInv
<1>1. SocketsOwned'
  BY SocketsKept
<1>2. ArgsFit'
  BY DEF ArgsFit, StartArgs, Agents
<1>3. ASSUME NEW b \in IAgents, b # a PROVE OneSlotOf(b)'
  <2>1. b \in Agents
    BY DEF Agents
  <2> QED
    BY <1>3, <2>1, SlotsShrink, BystanderKeeps
<1> QED
  BY <1>1, <1>2, <1>3

LEMMA AcceptConn ==
    ASSUME ConstantsAssumption, TypeOK, ConnInv, NEW a \in Agents, Accept(a) PROVE ConnInv'
<1> USE DEF ConnInv
<1> PICK fd \in Fds \ OpenFds : clientSocket' = [clientSocket EXCEPT ![a] = fd]
  BY DEF Accept
<1>1. /\ apc[a] = "idle" /\ apc' = [apc EXCEPT ![a] = "recv"]
      /\ UNCHANGED <<clientFd, aidx, aarg, asked>>
  BY DEF Accept, Goto, slotVars
<1>2. /\ clientSocket'[a] = fd /\ \A b \in Agents : b # a => clientSocket'[b] = clientSocket[b]
      /\ apc'[a] = "recv" /\ \A b \in Agents : b # a => apc'[b] = apc[b]
  BY <1>1 DEF TypeOK
<1>3. fd # NoFd /\ \A b \in Agents : clientSocket[b] # fd
  BY DEF OpenFds, ConstantsAssumption
<1>4. \A j \in Slots : clientFd[j] # fd
  BY <1>3 DEF SocketsOwned, Agents
<1>5. SocketsOwned'
  <2>1. \A b \in Agents : clientSocket'[b] = NoFd <=> apc'[b] = "idle"
    BY <1>2, <1>3 DEF SocketsOwned
  <2>2. \A b, c \in Agents : clientSocket'[b] = clientSocket'[c] /\ apc'[b] # "idle" => b = c
    BY <1>2, <1>3 DEF SocketsOwned
  <2>3. ASSUME NEW j \in Slots, clientFd'[j] \in Fds
        PROVE  \E b \in IAgents : clientSocket'[b] = clientFd'[j]
    <3> PICK b \in IAgents : clientSocket[b] = clientFd[j]
      BY <1>1, <2>3 DEF SocketsOwned
    <3>1. b # a
      BY <1>1, <2>3 DEF SocketsOwned, ConstantsAssumption, Agents
    <3> QED
      BY <1>1, <1>2, <3>1 DEF Agents
  <2> QED
    BY <2>1, <2>2, <2>3 DEF SocketsOwned, Slots
<1>6. ArgsFit'
  BY <1>1, <1>2 DEF ArgsFit, StartArgs, Agents
<1>7. ASSUME NEW b \in IAgents PROVE OneSlotOf(b)'
  <2>0. b \in Agents
    BY DEF Agents
  <2>1. CASE b = a
    <3>1. SlotsOf(b)' = {}
      BY <1>1, <1>2, <1>4, <2>1 DEF SlotsOf, Slots
    <3> QED
      BY <1>2, <2>1, <3>1 DEF OneSlotOf, Own
  <2>2. CASE b # a
    <3>1. SlotsOf(b)' = SlotsOf(b)
      BY <1>1, <1>2, <2>0, <2>2 DEF SlotsOf, Slots
    <3> QED
      BY <1>1, <1>2, <2>0, <2>2, <3>1, BystanderKeeps
  <2> QED
    BY <2>1, <2>2
<1> QED
  BY <1>5, <1>6, <1>7

(* A connection ends: it holds no slot. *)
LEMMA CloseConn ==
    ASSUME ConstantsAssumption, TypeOK, ConnInv, NEW a \in Agents, apc[a] # "idle",
           apc' = [apc EXCEPT ![a] = "idle"],
           clientSocket' = [clientSocket EXCEPT ![a] = NoFd],
           UNCHANGED <<clientFd, aidx, aarg>>, asked' = asked \/ asked' = asked \ {a},
           a \in IAgents => SlotsOf(a) = {}
    PROVE  ConnInv'
<1> USE DEF ConnInv
<1>1. /\ clientSocket'[a] = NoFd /\ \A b \in Agents : b # a => clientSocket'[b] = clientSocket[b]
      /\ apc'[a] = "idle" /\ \A b \in Agents : b # a => apc'[b] = apc[b]
  BY DEF TypeOK
<1>2. SocketsOwned'
  <2>1. \A b \in Agents : clientSocket'[b] = NoFd <=> apc'[b] = "idle"
    BY <1>1 DEF SocketsOwned
  <2>2. \A b, c \in Agents : clientSocket'[b] = clientSocket'[c] /\ apc'[b] # "idle" => b = c
    BY <1>1 DEF SocketsOwned
  <2>3. ASSUME NEW j \in Slots, clientFd'[j] \in Fds
        PROVE  \E b \in IAgents : clientSocket'[b] = clientFd'[j]
    <3> PICK b \in IAgents : clientSocket[b] = clientFd[j]
      BY <2>3 DEF SocketsOwned
    <3>1. b # a
      BY DEF SlotsOf, Slots
    <3> QED
      BY <1>1, <3>1 DEF Agents
  <2> QED
    BY <2>1, <2>2, <2>3 DEF SocketsOwned, Slots
<1>3. ArgsFit'
  BY <1>1 DEF ArgsFit, StartArgs, Agents
<1>4. ASSUME NEW b \in IAgents PROVE OneSlotOf(b)'
  <2>0. b \in Agents
    BY DEF Agents
  <2>1. CASE b = a
    BY <1>1, <2>1 DEF OneSlotOf
  <2>2. CASE b # a
    <3>1. SlotsOf(b)' = SlotsOf(b)
      BY <1>1, <2>0, <2>2 DEF SlotsOf, Slots
    <3> QED
      BY <1>1, <2>0, <2>2, <3>1, BystanderKeeps
  <2> QED
    BY <2>1, <2>2
<1> QED
  BY <1>2, <1>3, <1>4

LEMMA ClaimConn ==
    ASSUME ConstantsAssumption, TypeOK, ConnInv, NEW a \in IAgents, ClaimSlot(a) PROVE ConnInv'
<1> USE DEF ConnInv
<1>0. a \in Agents
  BY DEF Agents
<1>1. /\ apc[a] = "claim" /\ apc' = [apc EXCEPT ![a] = "give"] /\ aidx[a] \in Slots
      /\ clientFd' = [clientFd EXCEPT ![aidx[a]] = aarg[a]]
      /\ UNCHANGED <<aidx, aarg, clientSocket, asked>>
  BY <1>0 DEF ClaimSlot, Goto, TypeOK
<1>2. /\ apc'[a] = "give" /\ \A b \in Agents : b # a => apc'[b] = apc[b]
      /\ clientFd'[aidx[a]] = aarg[a]
      /\ \A j \in Slots : j # aidx[a] => clientFd'[j] = clientFd[j]
  BY <1>0, <1>1 DEF TypeOK
<1>3. aarg[a] \in Sentinels \/ aarg[a] = clientSocket[a]
  BY <1>1 DEF ArgsFit, StartArgs, ConstantsAssumption
<1>4. SocketsOwned'
  <2>1. ASSUME NEW j \in Slots, clientFd'[j] \in Fds
        PROVE  \E b \in IAgents : clientSocket'[b] = clientFd'[j]
    <3>1. CASE j = aidx[a]
      BY <1>1, <1>2, <1>3, <2>1, <3>1 DEF ConstantsAssumption
    <3>2. CASE j # aidx[a]
      BY <1>1, <1>2, <2>1, <3>2 DEF SocketsOwned
    <3> QED
      BY <3>1, <3>2
  <2>2. \A b \in Agents : apc'[b] = "idle" <=> apc[b] = "idle"
    BY <1>0, <1>1, <1>2
  <2>3. \A b \in Agents : clientSocket'[b] = NoFd <=> apc'[b] = "idle"
    BY <1>1, <2>2 DEF SocketsOwned
  <2>4. \A b, c \in Agents : clientSocket'[b] = clientSocket'[c] /\ apc'[b] # "idle" => b = c
    BY <1>1, <2>2 DEF SocketsOwned
  <2> QED
    BY <2>1, <2>3, <2>4 DEF SocketsOwned, Slots
<1>5. ArgsFit'
  BY <1>0, <1>1, <1>2 DEF ArgsFit, StartArgs, Agents
<1>6. ASSUME NEW b \in IAgents, b # a PROVE OneSlotOf(b)'
  <2>0. b \in Agents
    BY DEF Agents
  <2>1. ASSUME apc[b] # "idle" PROVE aarg[a] # clientSocket[b]
    <3>1. clientSocket[b] \in Fds /\ clientSocket[b] # clientSocket[a]
      BY <1>0, <1>6, <2>0, <2>1 DEF SocketsOwned, TypeOK
    <3> QED
      BY <1>3, <3>1 DEF ConstantsAssumption
  <2>2. apc[b] # "idle" => SlotsOf(b)' \subseteq SlotsOf(b)
    BY <1>1, <1>2, <2>1 DEF SlotsOf, Slots
  <2> QED
    BY <1>1, <1>2, <1>6, <2>0, <2>2, BystanderKeeps
<1>7. OneSlotOf(a)'
  <2>1. CASE aarg[a] = clientSocket[a]
    <3>1. a \in asked /\ SlotsOf(a) = {}
      BY <1>1, <2>1 DEF OneSlotOf, Own
    <3>2. SlotsOf(a)' \subseteq {aidx[a]}
      BY <1>1, <1>2, <3>1 DEF SlotsOf, Slots
    <3> QED
      BY <1>1, <1>2, <3>1, <3>2 DEF OneSlotOf, Own
  <2>2. CASE aarg[a] # clientSocket[a]
    <3>1. SlotsOf(a)' \subseteq SlotsOf(a)
      BY <1>1, <1>2, <2>2 DEF SlotsOf, Slots
    <3> QED
      BY <1>1, <1>2, <2>2, <3>1 DEF OneSlotOf, Own
  <2> QED
    BY <2>1, <2>2
<1> QED
  BY <1>4, <1>5, <1>6, <1>7

LEMMA IAgentConn ==
    ASSUME ConstantsAssumption, TypeOK, ConnInv, StartOnce, CleanClose,
           NEW a \in IAgents, IAgentStep(a)
    PROVE  ConnInv'
<1> USE DEF slotVars
<1>0. a \in Agents /\ a \notin SAgents /\ OneSlotOf(a)
  BY DEF Agents, ConstantsAssumption, ConnInv
<1>a. ASSUME NEW l, Goto(a, l), UNCHANGED <<aidx, aarg>> \/ NextMessage(a)
      PROVE  /\ apc'[a] = l
             /\ \A b \in Agents : b # a => apc'[b] = apc[b] /\ aidx'[b] = aidx[b] /\ aarg'[b] = aarg[b]
  BY <1>0, <1>a DEF Goto, NextMessage, TypeOK
<1>1. CASE Accept(a)
  BY <1>0, <1>1, AcceptConn
<1>2. CASE ClaimSlot(a)
  BY <1>2, ClaimConn
<1>3. CASE CloseConnection(a)
  <2>1. apc[a] = "recv" /\ a \notin asked
    BY <1>3 DEF CloseConnection
  <2>2. SlotsOf(a) = {}
    BY <1>0, <2>1 DEF OneSlotOf, Own
  <2>3. /\ apc' = [apc EXCEPT ![a] = "idle"] /\ asked' = asked \ {a}
        /\ clientSocket' = [clientSocket EXCEPT ![a] = NoFd] /\ UNCHANGED <<clientFd, aidx, aarg>>
    BY <1>3 DEF CloseConnection, Goto
  <2> QED
    BY <1>0, <2>1, <2>2, <2>3, CloseConn
<1>4. CASE StartExecutor(a)
  <2> PICK fd \in StartArgs(a) :
        /\ fd = clientSocket[a] => a \notin asked
        /\ aarg' = [aarg EXCEPT ![a] = fd]
        /\ IF fd = DATABASE_MAGIC
             THEN Goto(a, "claim") /\ aidx' = [aidx EXCEPT ![a] = MAX_TX_SOCKET]
             ELSE Goto(a, "scan") /\ aidx' = [aidx EXCEPT ![a] = 1]
        /\ asked' = IF fd = clientSocket[a] THEN asked \cup {a} ELSE asked
    BY <1>4 DEF StartExecutor
  <2>1. apc[a] = "recv" /\ UNCHANGED <<clientFd, clientSocket>>
    BY <1>4 DEF StartExecutor
  <2>2. /\ apc'[a] \in {"claim", "scan"} /\ aarg'[a] = fd
        /\ \A b \in Agents : b # a => apc'[b] = apc[b] /\ aidx'[b] = aidx[b] /\ aarg'[b] = aarg[b]
        /\ \A b \in IAgents : b # a => (b \in asked' <=> b \in asked)
    BY <1>0 DEF Goto, TypeOK
  <2>3. SlotsOf(a)' = SlotsOf(a) /\ StartArgs(a)' = StartArgs(a)
    BY <2>1 DEF SlotsOf, StartArgs, Slots
  <2>4. CASE fd = clientSocket[a]
    <3>1. a \in asked' /\ SlotsOf(a) = {}
      BY <1>0, <2>1, <2>4 DEF OneSlotOf, Own
    <3>2. OneSlotOf(a)'
      BY <2>2, <2>3, <3>1 DEF OneSlotOf, Own
    <3> QED
      BY <1>0, <2>1, <2>2, <2>3, <3>2, OneAgentSteps DEF Empties
  <2>5. CASE fd # clientSocket[a]
    <3>1. OneSlotOf(a)'
      BY <1>0, <2>1, <2>2, <2>3, <2>5 DEF OneSlotOf, Own
    <3> QED
      BY <1>0, <2>1, <2>2, <2>3, <3>1, OneAgentSteps DEF Empties
  <2> QED
    BY <2>4, <2>5
<1>5. CASE ScanSlot(a)
  <2>1. /\ apc[a] = "scan" /\ apc'[a] \in {"scan", "claim", "give"}
        /\ \A b \in Agents : b # a => apc'[b] = apc[b] /\ aidx'[b] = aidx[b]
        /\ UNCHANGED <<clientFd, clientSocket, aarg, asked>>
    BY <1>0, <1>5 DEF ScanSlot, Goto, TypeOK
  <2>2. SlotsOf(a)' = SlotsOf(a) /\ StartArgs(a)' = StartArgs(a)
    BY <2>1 DEF SlotsOf, StartArgs, Slots
  <2>3. OneSlotOf(a)'
    BY <1>0, <2>1, <2>2 DEF OneSlotOf, Own
  <2>4. aarg'[a] \in StartArgs(a)
    BY <2>1 DEF ConnInv, ArgsFit
  <2> QED
    BY <1>0, <2>1, <2>3, <2>4, OneAgentSteps DEF Empties
<1>6. CASE Give(a) \/ AntMapBegin(a) \/ AntMapEnd(a)
  <2>1. PICK l \in {"recv", "antmap"} : Goto(a, l)
    BY <1>6 DEF Give, AntMapBegin, AntMapEnd, NextMessage
  <2>2. /\ apc[a] \in {"give", "recv", "antmap"} /\ UNCHANGED <<clientFd, clientSocket, asked>>
        /\ UNCHANGED <<aidx, aarg>> \/ NextMessage(a)
    BY <1>6 DEF Give, AntMapBegin, AntMapEnd
  <2>3. SlotsOf(a)' = SlotsOf(a)
    BY <2>2 DEF SlotsOf, Slots
  <2>4. apc'[a] = l /\ \A b \in Agents : b # a => apc'[b] = apc[b] /\ aidx'[b] = aidx[b] /\ aarg'[b] = aarg[b]
    BY <1>a, <2>1, <2>2
  <2>5. OneSlotOf(a)'
    BY <1>0, <2>2, <2>3, <2>4 DEF OneSlotOf, Own
  <2> QED
    BY <1>0, <2>2, <2>4, <2>5, OneAgentSteps DEF Empties
<1>7. CASE StopExecutor(a)
  <2> PICK fd \in StartArgs(a) :
        /\ aarg' = [aarg EXCEPT ![a] = fd]
        /\ asked' = asked \ (SAgents \cup IF fd = clientSocket[a] THEN {a} ELSE {})
    BY <1>7 DEF StopExecutor
  <2>1. /\ apc[a] = "recv" /\ UNCHANGED <<clientFd, clientSocket>>
        /\ aidx' = [aidx EXCEPT ![a] = 1] /\ Goto(a, "stopscan")
    BY <1>7 DEF StopExecutor
  <2>2. /\ apc'[a] = "stopscan" /\ aarg'[a] = fd /\ aidx'[a] = 1
        /\ \A b \in Agents : b # a => apc'[b] = apc[b] /\ aidx'[b] = aidx[b] /\ aarg'[b] = aarg[b]
    BY <1>0, <2>1 DEF Goto, TypeOK
  <2>3. /\ \A b \in IAgents : b # a => (b \in asked' <=> b \in asked)
        /\ fd # clientSocket[a] => (a \in asked' <=> a \in asked)
    BY DEF ConstantsAssumption
  <2>4. SlotsOf(a)' = SlotsOf(a) /\ StartArgs(a)' = StartArgs(a) /\ \A j \in SlotsOf(a) : j >= 1
    BY <2>1 DEF SlotsOf, StartArgs, Slots, ConstantsAssumption
  <2>5. OneSlotOf(a)'
    BY <1>0, <2>1, <2>2, <2>3, <2>4 DEF OneSlotOf, Own
  <2> QED
    BY <1>0, <2>1, <2>2, <2>3, <2>5, OneAgentSteps DEF Empties
<1>8. CASE StopScan(a)
  <2>1. /\ apc[a] = "stopscan" /\ UNCHANGED <<clientFd, clientSocket, asked>>
        /\ aidx[a] \in Nat \ {0} /\ aarg[a] \in StartArgs(a)
    BY <1>0, <1>8 DEF StopScan, TypeOK, ConnInv, ArgsFit
  <2>2. SlotsOf(a)' = SlotsOf(a)
    BY <2>1 DEF SlotsOf, Slots
  <2>3. CASE aidx[a] > MAX_TX_SOCKET /\ NextMessage(a)
    <3>1. apc'[a] = "recv" /\ \A b \in Agents : b # a => apc'[b] = apc[b] /\ aidx'[b] = aidx[b] /\ aarg'[b] = aarg[b]
      BY <1>a, <2>3 DEF NextMessage
    <3>2. Own(a, "stopscan") => SlotsOf(a) = {}
      BY <1>0, <2>1, <2>3 DEF OneSlotOf, Own, SlotsOf, Slots, ConstantsAssumption
    <3>3. OneSlotOf(a)'
      BY <1>0, <2>1, <2>2, <3>1, <3>2 DEF OneSlotOf, Own
    <3> QED
      BY <1>0, <2>1, <3>1, <3>3, OneAgentSteps DEF Empties
  <2>4. CASE /\ aidx[a] <= MAX_TX_SOCKET /\ clientFd[aidx[a]] = aarg[a]
             /\ Goto(a, "stopclear") /\ UNCHANGED <<aidx, aarg>>
    <3>1. apc'[a] = "stopclear" /\ \A b \in Agents : b # a => apc'[b] = apc[b]
      BY <1>0, <2>4 DEF Goto, TypeOK
    <3>2. Own(a, "stopscan") => SlotsOf(a) \subseteq {aidx[a]}
      BY <1>0, <2>1, <2>4 DEF OneSlotOf, Own, SlotsOf, Slots, ConstantsAssumption
    <3>3. OneSlotOf(a)'
      BY <1>0, <2>1, <2>2, <2>4, <3>1, <3>2 DEF OneSlotOf, Own
    <3> QED
      BY <1>0, <2>1, <2>4, <3>1, <3>3, OneAgentSteps DEF Empties
  <2>5. CASE /\ aidx[a] <= MAX_TX_SOCKET /\ clientFd[aidx[a]] # aarg[a]
             /\ aidx' = [aidx EXCEPT ![a] = @ + 1] /\ UNCHANGED <<apc, aarg>>
    <3>1. aidx'[a] = aidx[a] + 1 /\ \A b \in Agents : b # a => aidx'[b] = aidx[b]
      BY <1>0, <2>5 DEF TypeOK
    <3>2. Own(a, "stopscan") => \A j \in SlotsOf(a) : j >= aidx[a] + 1
      BY <1>0, <2>1, <2>5 DEF OneSlotOf, Own, SlotsOf, Slots, ConstantsAssumption
    <3>3. OneSlotOf(a)'
      BY <1>0, <2>1, <2>2, <2>5, <3>1, <3>2 DEF OneSlotOf, Own
    <3> QED
      BY <1>0, <2>1, <2>5, <3>1, <3>3, OneAgentSteps DEF Empties
  <2>6. MAX_TX_SOCKET \in Nat
    BY DEF ConstantsAssumption
  <2> QED
    BY <1>8, <2>1, <2>3, <2>4, <2>5, <2>6 DEF StopScan
<1>9. CASE StopClear(a)
  <2>1. /\ apc[a] = "stopclear" /\ UNCHANGED <<clientSocket, asked>> /\ NextMessage(a)
        /\ aidx[a] \in Slots /\ clientFd' = [clientFd EXCEPT ![aidx[a]] = NoFd]
    BY <1>0, <1>9 DEF StopClear, TypeOK
  <2>2. apc'[a] = "recv" /\ \A b \in Agents : b # a => apc'[b] = apc[b] /\ aidx'[b] = aidx[b] /\ aarg'[b] = aarg[b]
    BY <1>a, <2>1 DEF NextMessage
  <2>3. Empties
    BY <2>1 DEF Empties
  <2>4. SlotsOf(a)' \subseteq SlotsOf(a) /\ aidx[a] \notin SlotsOf(a)'
    <3>1. SlotsOf(a)' \subseteq SlotsOf(a)
      BY <1>0, <2>1, <2>3, SlotsShrink DEF ConnInv
    <3>2. clientFd'[aidx[a]] = NoFd /\ clientSocket[a] # NoFd
      BY <1>0, <2>1 DEF TypeOK, ConnInv, SocketsOwned
    <3> QED
      BY <2>1, <3>1, <3>2 DEF SlotsOf
  <2>5. Own(a, "stopclear") => SlotsOf(a)' = {}
    BY <1>0, <2>1, <2>4 DEF OneSlotOf
  <2>6. OneSlotOf(a)'
    <3>1. \A j, k \in SlotsOf(a)' : j = k
      BY <1>0, <2>1, <2>4 DEF OneSlotOf
    <3>2. a \in asked' \/ SlotsOf(a)' = {}
      BY <1>0, <2>1, <2>4, <2>5 DEF OneSlotOf, Own
    <3> QED
      BY <2>2, <3>1, <3>2 DEF OneSlotOf, Own
  <2> QED
    BY <1>0, <2>1, <2>2, <2>3, <2>6, OneAgentSteps
<1> QED
  BY <1>1, <1>2, <1>3, <1>4, <1>5, <1>6, <1>7, <1>8, <1>9 DEF IAgentStep

LEMMA SAgentConn ==
    ASSUME ConstantsAssumption, TypeOK, ConnInv, NEW s \in SAgents, SAgentStep(s) PROVE ConnInv'
<1> USE DEF slotVars
<1>0. s \in Agents /\ s \notin IAgents
  BY DEF Agents, ConstantsAssumption
<1>1. CASE Accept(s)
  BY <1>0, <1>1, AcceptConn
<1>2. CASE GetSearchTimeout(s) \/ CloseSocket(s)
  <2>1. /\ apc[s] # "idle" /\ apc' = [apc EXCEPT ![s] = "idle"]
        /\ clientSocket' = [clientSocket EXCEPT ![s] = NoFd] /\ UNCHANGED <<clientFd, aidx, aarg>>
        /\ asked' = asked \ {s} \/ UNCHANGED asked
    BY <1>2 DEF GetSearchTimeout, CloseSocket, Goto
  <2> QED
    BY <1>0, <2>1, CloseConn
<1>3. CASE StartStreamTag(s) \/ SetFlag(s) \/ Give(s) \/ StopStreamTag(s) \/ SelTag(s) \/ RemoveCallbackHandler(s)
  <2>1. PICK l \in {"flag", "give", "recv", "seltag", "closing"} : Goto(s, l)
    BY <1>3 DEF StartStreamTag, SetFlag, Give, StopStreamTag, SelTag, RemoveCallbackHandler, NextMessage
  <2>2. /\ UNCHANGED <<clientFd, clientSocket>> /\ apc[s] # "idle"
        /\ UNCHANGED <<aidx, aarg>> \/ NextMessage(s)
        /\ asked' = asked \/ asked' = asked \cup {s} \/ asked' = asked \ {s}
    BY <1>3 DEF StartStreamTag, SetFlag, Give, StopStreamTag, SelTag, RemoveCallbackHandler,
       SetCallbackHandler
  <2>3. apc'[s] = l /\ \A b \in Agents : b # s => apc'[b] = apc[b] /\ aidx'[b] = aidx[b] /\ aarg'[b] = aarg[b]
    BY <1>0, <2>1, <2>2 DEF Goto, NextMessage, TypeOK
  <2> QED
    BY <1>0, <2>2, <2>3, OneAgentSteps DEF Empties
<1> QED
  BY <1>1, <1>2, <1>3 DEF SAgentStep

(* Steps of the executor, which empties slots at most. *)
LEMMA AgentsIdleConn ==
    ASSUME ConstantsAssumption, TypeOK, ConnInv, Empties, UNCHANGED agentVars PROVE ConnInv'
<1> USE DEF ConnInv, agentVars
<1>1. SocketsOwned'
  BY SocketsKept
<1>2. ArgsFit'
  BY DEF ArgsFit, StartArgs
<1>3. ASSUME NEW a \in IAgents PROVE OneSlotOf(a)'
  BY SlotsShrink, BystanderKeeps
<1> QED
  BY <1>1, <1>2, <1>3

LEMMA ExecutorConn ==
    ASSUME ConstantsAssumption, TypeOK, ConnInv, ExecutorStep PROVE ConnInv'
<1>1. CASE DropSlot
  <2>1. Empties /\ UNCHANGED agentVars
    BY <1>1 DEF DropSlot, TypeOK, Empties
  <2> QED
    BY <2>1, AgentsIdleConn
<1>2. CASE ~ DropSlot
  <2>1. UNCHANGED <<clientFd, agentVars>>
    BY <1>2, Zenon DEF ExecutorStep, Take, While, ForEnds, SkipAntenna, ReadNoTags, ReadTags,
       HasClients, ZeroFlag, FlagCheck, ReadSlot, CallBack, DoCallbackTake, TagEventCallback,
       DoCallbackGive, FoundCheck, ExecutorOnly, slotVars
  <2> QED
    BY <2>1, AgentsIdleConn DEF Empties
<1> QED
  BY <1>1, <1>2

(* A connection holds one slot at most between its messages and none once  *)
(* it has stopped, whatever the executor and any number of other agents    *)
(* do to the table during the unlocked searches of start_executor and      *)
(* stop_executor, for clients that start once and stop before they close.  *)
THEOREM OneSlotPerStart == ConstantsAssumption => (Spec => []SlotPerStart)
<1> SUFFICES ASSUME ConstantsAssumption PROVE Spec => []SlotPerStart
  OBVIOUS
<1>1. CASE StartOnce /\ CleanClose
  <2>1. Init => ConnInv
    <3> SUFFICES ASSUME Init PROVE ConnInv
      OBVIOUS
    <3>1. SocketsOwned
      BY DEF Init, SocketsOwned, ConstantsAssumption
    <3>2. ArgsFit /\ \A a \in IAgents : OneSlotOf(a)
      BY DEF Init, ArgsFit, OneSlotOf, Agents
    <3> QED
      BY <3>1, <3>2 DEF ConnInv
  <2>2. TypeOK /\ ConnInv /\ [Next]_vars => ConnInv'
    <3> SUFFICES ASSUME TypeOK, ConnInv, [Next]_vars PROVE ConnInv'
      OBVIOUS
    <3>1. CASE ExecutorStep
      BY <3>1, ExecutorConn
    <3>2. CASE UNCHANGED vars
      BY <3>2, AgentsIdleConn DEF vars, Empties
    <3> QED
      BY <1>1, <3>1, <3>2, IAgentConn, SAgentConn DEF Next
  <2>3. ConnInv => SlotPerStart
    <3> SUFFICES ASSUME ConnInv, NEW a \in IAgents, apc[a] = "recv"
                 PROVE  Cardinality(SlotsOf(a)) <= 1 /\ (a \notin asked => SlotsOf(a) = {})
      BY DEF SlotPerStart
    <3>1. /\ \A j, k \in SlotsOf(a) : j = k
          /\ a \notin asked => SlotsOf(a) = {}
      BY DEF ConnInv, OneSlotOf, Own
    <3>2. CASE SlotsOf(a) = {}
      BY <3>2, FS_EmptySet
    <3>3. CASE SlotsOf(a) # {}
      <4> PICK j : SlotsOf(a) = {j}
        BY <3>1, <3>3
      <4>1. Cardinality(SlotsOf(a)) = 1
        BY FS_Singleton
      <4> QED
        BY <3>1, <4>1
    <3> QED
      BY <3>2, <3>3
  <2>4. Spec => []TypeOK
    BY TypeCorrect
  <2> QED
    BY <2>1, <2>2, <2>3, <2>4, PTL DEF Spec
<1>2. CASE ~ (StartOnce /\ CleanClose)
  <2>1. SlotPerStart
    BY <1>2 DEF SlotPerStart
  <2> QED
    BY <2>1, PTL
<1> QED
  BY <1>1, <1>2
=============================================================================
