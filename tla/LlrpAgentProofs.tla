-------------------------- MODULE LlrpAgentProofs --------------------------
(***************************************************************************)
(* Proofs about the LLRP agent and the threads of its executor, for every  *)
(* number of threads, messages, sessions and antennas.  Types hold for     *)
(* every client; that the threads use live objects only, one at a time,    *)
(* and keep the life of a ROSpec that RospecService promises, holds for a  *)
(* patient client whose ROSpecs have the null stop trigger, until the      *)
(* sleep at the end of a session is over before a thread's round.          *)
(***************************************************************************)
EXTENDS LlrpAgent, TLAPS

-----------------------------------------------------------------------------
(* The inductive invariant. *)

(* The antenna that has been read is one of the reader's. *)
AntennaRead == \A t \in Threads : tpc[t] \in {"report", "check"} => tant[t] < AntCount

(* The list, the objects and the agent's own variables. *)
ListOfLive ==
    /\ \A o \in Objs : InList(o) <=> obj[o].st \in States
    /\ list # << >> => handle /\ apc \notin {"pool", "hello"}
    /\ starting # NoSpec <=> apc = "start"
    /\ apc = "start" => obj[starting].st = "Active"
    /\ apc = "failed" => failed

(* A thread that still owes the client an End event, the object it is for, *)
(* and the events that it will notify.                                     *)
Worker(t) == tpc[t] \in {"init", "begin", "read", "report", "check", "round", "end"}
SpecOf(t) == IF tpc[t] = "init" THEN xmsg ELSE tspec[t]
Remaining(t) ==
    IF tpc[t] = "end" \/ (tpc[t] = "round" /\ tstop[t]) THEN 1 ELSE EndEvents(SpecOf(t))

(* There is one, it is for the object the executor points at, which is in  *)
(* the list, and the client waits for exactly the events that remain; so a *)
(* client that waits for its events starts no other.                       *)
OneWorker ==
    /\ \A t, u \in Threads : Worker(t) /\ Worker(u) => t = u
    /\ \A t \in Threads : Worker(t) =>
          /\ xmsg # NoSpec /\ SpecOf(t) = xmsg
          /\ obj[xmsg].st \in {"Active", "Inactive"}
          /\ awaited = Remaining(t)
          /\ apc # "start"
    /\ apc = "start" => awaited = EndEvents(starting)

(* What a thread leaves behind: its stop flag is only set for a ROSpec     *)
(* that was stopped, the fault flag only by the last read.                 *)
Flags ==
    /\ \A t \in Threads : tstop[t] =>
          /\ tpc[t] \in {"round", "end", "exit"}
          /\ tpc[t] = "round" => obj[xmsg].st = "Inactive"
    /\ \A t \in Threads : tpc[t] \in {"begin", "read", "report", "check"} => ~ fault
    /\ \A o \in Objs : obj[o].trig = "null"

(* After a failure nothing runs and the client still waits, so that it     *)
(* starts nothing before the agent has told it.                            *)
FailureStops ==
    /\ failed /\ apc \in {"recv", "failed"} => awaited > 0 /\ \A t \in Threads : ~ Worker(t)
    /\ apc \in {"hello", "start"} => ~ failed

(* In the sleep every thread is on its way out, and afterwards it is gone, *)
(* as long as no sleep was over before a thread's round.                   *)
SleepOutlasts ==
    /\ apc = "sleep" => \A t \in Threads : Running(t) => /\ owes[t]
                                                         /\ Worker(t) => obj[xmsg].st = "Inactive"
    /\ apc \in {"pool", "hello"} => \A t \in Threads : ~ Running(t)

SpecInv == ListOfLive /\ OneWorker /\ Flags /\ FailureStops /\ SleepOutlasts

(* What is inductive: it all holds until ROSpecs are deleted too early.    *)
LastsOrInv == overtaken \/ SpecInv

-----------------------------------------------------------------------------
(* Types. *)

LEMMA SpecTyped ==
    ASSUME TypeOK, NEW o \in Objs
    PROVE  /\ obj[o].st \in States \union {"none", Deleted}
           /\ obj[o].ants \in {"all", "listed"} /\ obj[o].trig \in {"null", "other"}
           /\ EndEvents(o) \in {1, 2}
BY DEF TypeOK, EndEvents

(* A message, new or with another state. *)
ObjType == [st : States \union {"none", Deleted}, ants : {"all", "listed"}, trig : {"null", "other"}]

LEMMA StateWritten ==
    ASSUME TypeOK, NEW o \in Objs, NEW s \in States \union {"none", Deleted}
    PROVE  [obj[o] EXCEPT !.st = s] \in ObjType
<1>1. obj[o] \in ObjType
  BY DEF TypeOK, ObjType
<1> QED
  BY <1>1 DEF ObjType

(* What the actions write into the messages. *)
ObjWrites ==
    \/ UNCHANGED obj
    \/ StopAll
    \/ ClearList
    \/ \E o \in Objs, m \in Modes, tr \in Triggers :
          obj' = [obj EXCEPT ![o] = [st |-> "Disabled", ants |-> m, trig |-> tr]]
    \/ \E o \in Objs, s \in States : obj' = [obj EXCEPT ![o].st = s]
    \/ \E t \in Threads :
          obj' = [obj EXCEPT ![tspec[t]].st = IF @ = Deleted THEN @ ELSE "Inactive"]

LEMMA ObjsTyped ==
    ASSUME TypeOK, ObjWrites PROVE obj' \in [Objs -> ObjType]
<1>0. obj \in [Objs -> ObjType]
  BY DEF TypeOK, ObjType
<1>1. CASE StopAll
  BY <1>0, <1>1, StateWritten DEF StopAll, States
<1>2. CASE ClearList
  BY <1>0, <1>2, StateWritten DEF ClearList, States
<1>3. CASE \E o \in Objs, m \in Modes, tr \in Triggers :
                 obj' = [obj EXCEPT ![o] = [st |-> "Disabled", ants |-> m, trig |-> tr]]
  BY <1>0, <1>3, ConstantsAssumption DEF ObjType, States
<1>4. CASE \E o \in Objs, s \in States : obj' = [obj EXCEPT ![o].st = s]
  BY <1>0, <1>4, StateWritten
<1>5. CASE \E t \in Threads :
                 obj' = [obj EXCEPT ![tspec[t]].st = IF @ = Deleted THEN @ ELSE "Inactive"]
  <2> PICK t \in Threads :
          obj' = [obj EXCEPT ![tspec[t]].st = IF @ = Deleted THEN @ ELSE "Inactive"]
    BY <1>5
  <2>1. CASE tspec[t] \in Objs
    <3>1. (IF obj[tspec[t]].st = Deleted THEN obj[tspec[t]].st ELSE "Inactive")
              \in States \union {"none", Deleted}
      BY <2>1 DEF States
    <3> QED
      BY <1>0, <2>1, <3>1, StateWritten
  <2>2. CASE tspec[t] \notin Objs
    BY <1>0, <2>2
  <2> QED
    BY <2>1, <2>2
<1> QED
  BY <1>0, <1>1, <1>2, <1>3, <1>4, <1>5 DEF ObjWrites

(* The flags, and all the rest. *)
FlagTypes ==
    /\ slot \in BOOLEAN /\ handle \in BOOLEAN /\ failed \in BOOLEAN /\ silent \in BOOLEAN
    /\ fault \in BOOLEAN /\ idle \in BOOLEAN
    /\ tstop \in [Threads -> BOOLEAN] /\ owes \in [Threads -> BOOLEAN] /\ overtaken \in BOOLEAN

AgentTypes ==
    /\ kernel \in {"linux", "winsock"} /\ reader \in {"none", "live", "deleted"}
    /\ apc \in {"pool", "hello", "recv", "start", "failed", "sleep"}
    /\ starting \in Objs \union {NoSpec} /\ antCount \in {0, AntCount}
    /\ list \in Seq(Objs) /\ unanswered \in -MinAcks .. MaxUnanswered + 1
    /\ sessions \in 0 .. MaxSessions

ThreadTypes ==
    /\ xmsg \in Objs \union {NoSpec}
    /\ tpc \in [Threads -> {"none", "init", "begin", "read", "report", "check", "round", "end",
                            "exit"}]
    /\ tspec \in [Threads -> Objs \union {NoSpec}]
    /\ tant \in [Threads -> 0 .. AntCount]
    /\ awaited \in 0 .. 2
    /\ AntennaRead

AllTypes == FlagTypes /\ AgentTypes /\ ThreadTypes /\ obj \in [Objs -> ObjType]

LEMMA TypeParts == AllTypes <=> TypeOK /\ AntennaRead
BY DEF AllTypes, FlagTypes, AgentTypes, ThreadTypes, ObjType, TypeOK

LEMMA TypePartsNext == AllTypes' <=> TypeOK' /\ AntennaRead'
BY TypeParts, PTL

AgentActions == NewSession \/ ClientHangs \/ AgentStep \/ RecvFails \/ Timeout \/ Message

LEMMA AgentKeepsAgentTypes ==
    ASSUME TypeOK, AgentActions PROVE AgentTypes'
<1> USE ConstantsAssumption
<1>0. AgentTypes
  BY DEF TypeOK, AgentTypes
<1>1. CASE NewSession \/ ClientHangs
  BY <1>0, <1>1 DEF AgentTypes, NewSession, ClientHangs, readerVars, agentVars
<1>2. CASE Hello \/ RunExecutor
  BY <1>0, <1>2 DEF AgentTypes, Hello, RunExecutor, readerVars, clientVars
<1>3. CASE EndSession
  BY <1>0, <1>3 DEF AgentTypes, EndSession, ClearList, readerVars, clientVars
<1>6. CASE CloseFailed
  <2>1. reader' \in {reader, "deleted"}
    BY <1>6 DEF CloseFailed, ApiClose, readerVars
  <2>2. UNCHANGED <<kernel, starting, antCount, unanswered, sessions>> /\ list' = << >>
    BY <1>6 DEF CloseFailed, ClearList, clientVars
  <2> QED
    BY <1>0, <1>6, <2>1, <2>2 DEF AgentTypes, CloseFailed
<1>4. CASE RecvFails \/ Timeout
  BY <1>0, <1>4 DEF AgentTypes, RecvFails, Timeout, TimeoutKeepAlive, TimeoutGivesUp, TimeoutFailed,
     StopAll, readerVars, clientVars
<1>5. CASE Message
  <2>1. UNCHANGED <<kernel, sessions>>
    BY <1>5 DEF Message, ConfigOpens, ConfigNoAntennas, ConfigRefused, KeepAliveAck, GetReaderConfig,
       GetCapabilities, GetAccessSpecs, OtherMessage, AddRefused, AddRospec, EnableRospec,
       StartRospec, StopRospec, EnableRefused, StartRefused, StopRefused, Receives
  <2>2. CASE KeepsAll
    BY <1>0, <2>1, <2>2 DEF AgentTypes, KeepsAll, readerVars
  <2>3. CASE ConfigOpens \/ ConfigNoAntennas \/ ConfigRefused \/ KeepAliveAck
    BY <1>0, <2>1, <2>3 DEF AgentTypes, ConfigOpens, ConfigNoAntennas, ConfigRefused, KeepAliveAck,
       InitTakesSlot, InitDeletes, readerVars
  <2>4. CASE \E o \in Objs : EnableRospec(o) \/ StartRospec(o) \/ StopRospec(o)
    BY <1>0, <2>1, <2>4 DEF AgentTypes, EnableRospec, StartRospec, StopRospec, readerVars
  <2>5. CASE \E o \in Objs : AddRospec(o)
    BY <1>0, <2>1, <2>5 DEF AgentTypes, AddRospec, readerVars
  <2> QED
    BY <1>5, <2>2, <2>3, <2>4, <2>5 DEF Message, GetReaderConfig, GetCapabilities, GetAccessSpecs,
       OtherMessage, AddRefused, EnableRefused, StartRefused, StopRefused
<1> QED
  BY <1>1, <1>2, <1>3, <1>4, <1>5, <1>6 DEF AgentActions, AgentStep

LEMMA AgentKeepsThreadTypes ==
    ASSUME TypeOK, AntennaRead, AgentActions PROVE ThreadTypes'
<1> USE ConstantsAssumption
<1>0. ThreadTypes /\ starting \in Objs \union {NoSpec}
  BY DEF TypeOK, ThreadTypes
<1>1. CASE NewSession \/ ClientHangs \/ Hello \/ EndSession \/ CloseFailed
  BY <1>0, <1>1 DEF ThreadTypes, AntennaRead, NewSession, ClientHangs, Hello, EndSession,
     CloseFailed, execVars
<1>2. CASE RunExecutor
  BY <1>0, <1>2 DEF ThreadTypes, AntennaRead, RunExecutor, Running, localVars
<1>3. CASE RecvFails \/ Timeout
  BY <1>0, <1>3 DEF ThreadTypes, AntennaRead, RecvFails, Timeout, TimeoutKeepAlive,
     TimeoutGivesUp, TimeoutFailed, execVars
<1>4. CASE Message
  <2>1. UNCHANGED execVars
    BY <1>4 DEF Message, ConfigOpens, ConfigNoAntennas, ConfigRefused, KeepAliveAck,
       GetReaderConfig, GetCapabilities, GetAccessSpecs, OtherMessage, AddRefused, AddRospec,
       EnableRospec, StartRospec, StopRospec, EnableRefused, StartRefused, StopRefused, KeepsAll
  <2>2. awaited' \in 0 .. 2
    <3>1. \A o \in Objs : EndEvents(o) \in 0 .. 2
      BY SpecTyped
    <3>2. awaited' = awaited \/ \E o \in Objs : awaited' = EndEvents(o)
      BY <1>4 DEF Message, ConfigOpens, ConfigNoAntennas, ConfigRefused, KeepAliveAck,
         GetReaderConfig, GetCapabilities, GetAccessSpecs, OtherMessage, AddRefused, AddRospec,
         EnableRospec, StartRospec, StopRospec, EnableRefused, StartRefused, StopRefused, KeepsAll
    <3> QED
      BY <1>0, <3>1, <3>2 DEF ThreadTypes
  <2> QED
    BY <1>0, <2>1, <2>2 DEF ThreadTypes, AntennaRead, execVars
<1> QED
  BY <1>1, <1>2, <1>3, <1>4 DEF AgentActions, AgentStep

LEMMA AgentWritesFlags ==
    ASSUME AgentActions
    PROVE  /\ slot' = slot \/ slot' = TRUE \/ slot' = FALSE
           /\ handle' = handle \/ handle' = TRUE \/ handle' = FALSE
           /\ failed' = failed \/ failed' = FALSE
           /\ silent' = silent \/ silent' = TRUE \/ silent' = FALSE
           /\ idle' = idle \/ idle' = FALSE
           /\ \/ owes' = owes \/ owes' = [t \in Threads |-> Running(t)]
              \/ owes' = [t \in Threads |-> FALSE]
           /\ overtaken' = overtaken \/ overtaken' = (overtaken \/ \E t \in Threads : owes[t])
           /\ UNCHANGED <<fault, tstop>>
<1> USE DEF readerVars, agentVars, clientVars, execVars, localVars, roundVars, Receives, KeepsAll
<1>1. CASE NewSession \/ ClientHangs \/ Hello \/ RunExecutor \/ EndSession
  BY <1>1, Zenon DEF NewSession, ClientHangs, Hello, RunExecutor, EndSession
<1>2. CASE CloseFailed
  BY <1>2, Zenon DEF CloseFailed, ApiClose
<1>3. CASE RecvFails \/ Timeout
  BY <1>3, Zenon DEF RecvFails, Timeout, TimeoutKeepAlive, TimeoutGivesUp, TimeoutFailed, StopAll
<1>4. CASE Message
  BY <1>4, Zenon DEF Message, ConfigOpens, ConfigNoAntennas, ConfigRefused, KeepAliveAck,
     GetReaderConfig, GetCapabilities, GetAccessSpecs, OtherMessage, AddRefused, AddRospec,
     EnableRospec, StartRospec, StopRospec, EnableRefused, StartRefused, StopRefused,
     InitTakesSlot, InitDeletes
<1> QED
  BY <1>1, <1>2, <1>3, <1>4 DEF AgentActions, AgentStep

LEMMA AgentKeepsFlagTypes ==
    ASSUME TypeOK, AgentActions PROVE FlagTypes'
<1>1. FlagTypes
  BY DEF TypeOK, FlagTypes
<1>2. slot' \in BOOLEAN /\ handle' \in BOOLEAN /\ failed' \in BOOLEAN /\ silent' \in BOOLEAN
  BY <1>1, AgentWritesFlags, Zenon DEF FlagTypes
<1>3. idle' \in BOOLEAN /\ fault' \in BOOLEAN /\ tstop' \in [Threads -> BOOLEAN]
  BY <1>1, AgentWritesFlags, Zenon DEF FlagTypes
<1>4. owes' \in [Threads -> BOOLEAN]
  <2>1. /\ [t \in Threads |-> Running(t)] \in [Threads -> BOOLEAN]
        /\ [t \in Threads |-> FALSE] \in [Threads -> BOOLEAN]
    BY Zenon DEF Running
  <2> QED
    BY <1>1, <2>1, AgentWritesFlags, Zenon DEF FlagTypes
<1>5. overtaken' \in BOOLEAN
  BY <1>1, AgentWritesFlags, Zenon DEF FlagTypes
<1> QED
  BY <1>2, <1>3, <1>4, <1>5 DEF FlagTypes

LEMMA AgentKeepsObjs ==
    ASSUME TypeOK, AgentActions PROVE obj' \in [Objs -> ObjType]
<1>1. ObjWrites
  <2> USE DEF agentVars, Receives, KeepsAll
  <2>1. CASE NewSession \/ ClientHangs \/ Hello \/ RunExecutor \/ EndSession \/ CloseFailed
    BY <2>1, Zenon DEF ObjWrites, NewSession, ClientHangs, Hello, RunExecutor, EndSession, CloseFailed
  <2>2. CASE RecvFails \/ Timeout
    BY <2>2, Zenon DEF ObjWrites, RecvFails, Timeout, TimeoutKeepAlive, TimeoutGivesUp,
       TimeoutFailed
  <2>3. CASE Message
    <3>1. CASE \E o \in Objs : EnableRospec(o) \/ StartRospec(o) \/ StopRospec(o)
      BY <3>1 DEF ObjWrites, EnableRospec, StartRospec, StopRospec, States
    <3>2. CASE \E o \in Objs : AddRospec(o)
      BY <3>2 DEF ObjWrites, AddRospec
    <3>3. CASE UNCHANGED obj
      BY <3>3 DEF ObjWrites
    <3> QED
      BY <2>3, <3>1, <3>2, <3>3, Zenon DEF Message, ConfigOpens, ConfigNoAntennas, ConfigRefused,
         KeepAliveAck, GetReaderConfig, GetCapabilities, GetAccessSpecs, OtherMessage, AddRefused,
         EnableRefused, StartRefused, StopRefused
  <2> QED
    BY <2>1, <2>2, <2>3 DEF AgentActions, AgentStep
<1> QED
  BY <1>1, ObjsTyped

LEMMA ThreadKeepsTypes ==
    ASSUME TypeOK, AntennaRead, NEW t \in Threads, Thread(t) PROVE TypeOK' /\ AntennaRead'
<1> USE ConstantsAssumption
<1>1. AgentTypes'
  BY DEF Thread, ThreadInit, ThreadBegin, ReadTags, ReadFails, Report, CheckStops, CheckGoesOn,
     RoundFailed, RoundStops, RoundAgain, ThreadEnd, ThreadExit, AgentSame, readerVars, clientVars,
     AgentTypes, TypeOK
<1>2. obj' \in [Objs -> ObjType]
  <2>1. ObjWrites
    BY Zenon DEF Thread, ThreadInit, ThreadBegin, ReadTags, ReadFails, Report, CheckStops,
       CheckGoesOn, RoundFailed, RoundStops, RoundAgain, ThreadEnd, ThreadExit, ObjWrites
  <2> QED
    BY <2>1, ObjsTyped
<1>3. FlagTypes'
  <2>1. FlagTypes
    BY DEF TypeOK, FlagTypes
  <2>2. UNCHANGED <<slot, handle, silent>>
    BY Zenon DEF Thread, ThreadInit, ThreadBegin, ReadTags, ReadFails, Report, CheckStops,
       CheckGoesOn, RoundFailed, RoundStops, RoundAgain, ThreadEnd, ThreadExit, AgentSame,
       readerVars, clientVars
  <2>3. /\ failed' = failed \/ failed' = TRUE
        /\ fault' = fault \/ fault' = TRUE \/ fault' = FALSE
        /\ idle' = idle \/ idle' = TRUE
        /\ tstop' = tstop \/ \E b \in BOOLEAN : tstop' = [tstop EXCEPT ![t] = b]
        /\ owes' = owes \/ owes' = [owes EXCEPT ![t] = FALSE]
        /\ overtaken' = overtaken
    BY Zenon DEF Thread, ThreadInit, ThreadBegin, ReadTags, ReadFails, Report, CheckStops,
       CheckGoesOn, RoundFailed, RoundStops, RoundAgain, ThreadEnd, ThreadExit, roundVars
  <2>4. failed' \in BOOLEAN /\ fault' \in BOOLEAN /\ idle' \in BOOLEAN
    BY <2>1, <2>3, Zenon DEF FlagTypes
  <2>5. tstop' \in [Threads -> BOOLEAN] /\ owes' \in [Threads -> BOOLEAN] /\ overtaken' \in BOOLEAN
    BY <2>1, <2>3 DEF FlagTypes
  <2> QED
    BY <2>1, <2>2, <2>4, <2>5, Zenon DEF FlagTypes
<1>4. ThreadTypes'
  <2>0. ThreadTypes /\ antCount \in {0, AntCount}
    BY DEF TypeOK, ThreadTypes
  <2>1. UNCHANGED xmsg
    BY DEF Thread, ThreadInit, ThreadBegin, ReadTags, ReadFails, Report, CheckStops, CheckGoesOn,
       RoundFailed, RoundStops, RoundAgain, ThreadEnd, ThreadExit, AgentSame
  <2>2. CASE ThreadInit(t) \/ ThreadBegin(t) \/ ReadFails(t) \/ Report(t)
    BY <2>0, <2>1, <2>2 DEF ThreadInit, ThreadBegin, ReadFails, Report, Goes, ThreadTypes, AntennaRead
  <2>3. CASE ReadTags(t)
    BY <2>0, <2>1, <2>3 DEF ReadTags, Antennas, Goes, ThreadTypes, AntennaRead
  <2>4. CASE CheckStops(t) \/ RoundFailed(t) \/ RoundStops(t) \/ ThreadEnd(t)
    BY <2>0, <2>1, <2>4 DEF CheckStops, RoundFailed, RoundStops, ThreadEnd, OneLess, Goes,
       ThreadTypes, AntennaRead
  <2>5. CASE CheckGoesOn(t) \/ RoundAgain(t) \/ ThreadExit(t)
    BY <2>0, <2>1, <2>5 DEF CheckGoesOn, RoundAgain, ThreadExit, Goes, ThreadTypes, AntennaRead
  <2> QED
    BY <2>2, <2>3, <2>4, <2>5 DEF Thread
<1> QED
  BY <1>1, <1>2, <1>3, <1>4, TypePartsNext DEF AllTypes

LEMMA TypesInit == Init => TypeOK /\ AntennaRead
<1> SUFFICES ASSUME Init PROVE TypeOK /\ AntennaRead
  OBVIOUS
<1> USE ConstantsAssumption
<1>1. AgentTypes
  BY DEF Init, AgentTypes
<1>2. ThreadTypes
  BY DEF Init, ThreadTypes, AntennaRead
<1>3. FlagTypes
  <2>1. slot \in BOOLEAN
    BY DEF Init
  <2>2. handle \in BOOLEAN /\ failed \in BOOLEAN /\ silent \in BOOLEAN /\ fault \in BOOLEAN
        /\ idle \in BOOLEAN
    BY DEF Init
  <2>3. tstop \in [Threads -> BOOLEAN] /\ owes \in [Threads -> BOOLEAN] /\ overtaken \in BOOLEAN
    BY DEF Init
  <2> QED
    BY <2>1, <2>2, <2>3, Zenon DEF FlagTypes
<1>4. obj \in [Objs -> ObjType]
  BY DEF Init, NewObj, ObjType
<1> QED
  BY <1>1, <1>2, <1>3, <1>4, TypeParts DEF AllTypes

LEMMA TypesStep == TypeOK /\ AntennaRead /\ [Next]_vars => TypeOK' /\ AntennaRead'
<1> SUFFICES ASSUME TypeOK, AntennaRead, [Next]_vars PROVE TypeOK' /\ AntennaRead'
  OBVIOUS
<1>1. CASE AgentActions
  <2>1. AgentTypes' /\ ThreadTypes' /\ FlagTypes' /\ obj' \in [Objs -> ObjType]
    BY <1>1, AgentKeepsAgentTypes, AgentKeepsThreadTypes, AgentKeepsFlagTypes, AgentKeepsObjs
  <2> QED
    BY <2>1, TypePartsNext DEF AllTypes
<1>2. CASE \E t \in Threads : Thread(t)
  BY <1>2, ThreadKeepsTypes
<1>3. CASE UNCHANGED vars
  BY <1>3 DEF vars, readerVars, agentVars, clientVars, execVars, roundVars, TypeOK, AntennaRead
<1> QED
  BY <1>1, <1>2, <1>3 DEF Next, AgentActions

(* Every variable keeps its type, whatever the client sends and whenever:  *)
(* no antenna beyond the reader's is reported, and the count of keepalives *)
(* stays between what KEEPALIVE_ACKs nobody asked for make of it and one   *)
(* more than the limit.                                                    *)
THEOREM LlrpTypeCorrect == Spec => []TypeOK
<1>1. Spec => [](TypeOK /\ AntennaRead)
  BY TypesInit, TypesStep, PTL DEF Spec
<1> QED
  BY <1>1, PTL

-----------------------------------------------------------------------------
(* The steps of the agent. *)

PatientClient == Patient /\ Triggers \subseteq {"null"}

(* What the steps that write states of ROSpecs make of them. *)
LEMMA StateSet ==
    ASSUME TypeOK, NEW o \in Objs, NEW s, obj' = [obj EXCEPT ![o].st = s]
    PROVE  /\ obj'[o].st = s
           /\ \A p \in Objs : /\ p # o => obj'[p] = obj[p]
                              /\ obj'[p].ants = obj[p].ants /\ obj'[p].trig = obj[p].trig
                              /\ EndEvents(p)' = EndEvents(p)
<1>1. obj \in [Objs -> ObjType]
  BY DEF TypeOK, ObjType
<1>2. \A p \in Objs : obj'[p] = IF p = o THEN [obj[p] EXCEPT !.st = s] ELSE obj[p]
  BY <1>1
<1>3. \A p \in Objs : obj'[p].ants = obj[p].ants /\ obj'[p].trig = obj[p].trig
  BY <1>1, <1>2 DEF ObjType
<1>4. obj'[o].st = s
  BY <1>1, <1>2 DEF ObjType
<1> QED
  BY <1>2, <1>3, <1>4 DEF EndEvents

LEMMA StatesSet ==
    ASSUME TypeOK, NEW s, 
           obj' = [o \in Objs |-> IF InList(o) THEN [obj[o] EXCEPT !.st = s] ELSE obj[o]]
    PROVE  \A p \in Objs : /\ obj'[p].st = IF InList(p) THEN s ELSE obj[p].st
                           /\ obj'[p].ants = obj[p].ants /\ obj'[p].trig = obj[p].trig
                           /\ EndEvents(p)' = EndEvents(p)
<1>1. \A p \in Objs : obj[p] \in ObjType
  BY DEF TypeOK, ObjType
<1>2. ASSUME NEW p \in Objs
      PROVE  /\ obj'[p].st = IF InList(p) THEN s ELSE obj[p].st
             /\ obj'[p].ants = obj[p].ants /\ obj'[p].trig = obj[p].trig
  <2>1. obj'[p] = IF InList(p) THEN [obj[p] EXCEPT !.st = s] ELSE obj[p]
    OBVIOUS
  <2> QED
    BY <1>1, <2>1 DEF ObjType
<1> QED
  BY <1>2 DEF EndEvents

(* Steps that leave the threads, the list and the messages alone, and at   *)
(* most open the reader.                                                   *)
LEMMA SpecsUntouched ==
    ASSUME SpecInv,
           UNCHANGED <<apc, starting, list, failed, obj, xmsg, fault, tpc, tspec, tstop, owes,
                       awaited>>,
           handle => handle'
    PROVE  SpecInv'
<1>1. \A t \in Threads : (Worker(t)' <=> Worker(t)) /\ Remaining(t)' = Remaining(t)
                          /\ SpecOf(t)' = SpecOf(t) /\ (Running(t)' <=> Running(t))
  BY DEF Worker, Remaining, SpecOf, EndEvents, Running
<1>2. \A o : InList(o)' <=> InList(o)
  BY DEF InList
<1>3. ListOfLive'
  BY <1>2 DEF SpecInv, ListOfLive
<1>4. OneWorker'
  BY <1>1 DEF SpecInv, OneWorker, EndEvents
<1>5. Flags' /\ FailureStops' /\ SleepOutlasts'
  BY <1>1 DEF SpecInv, Flags, FailureStops, SleepOutlasts
<1> QED
  BY <1>3, <1>4, <1>5 DEF SpecInv

LEMMA NoWorkerAwaited ==
    ASSUME TypeOK, OneWorker, awaited = 0
    PROVE  \A t \in Threads : ~ Worker(t)
<1> SUFFICES ASSUME NEW t \in Threads, Worker(t) PROVE FALSE
  OBVIOUS
<1>1. xmsg \in Objs /\ SpecOf(t) = xmsg /\ Remaining(t) = 0
  BY DEF OneWorker, TypeOK
<1> QED
  BY <1>1, SpecTyped DEF Remaining

LEMMA SessionSteps ==
    ASSUME TypeOK, SpecInv, NewSession \/ Hello \/ EndSession, ~ overtaken' PROVE SpecInv'
<1> USE DEF SpecInv
<1>0. UNCHANGED <<xmsg, fault, tpc, tspec, tstop, starting>>
  BY DEF NewSession, Hello, EndSession, execVars
<1>1. \A t \in Threads : ~ Running(t) /\ ~ Running(t)' /\ ~ Worker(t)'
  <2>1. \A t \in Threads : ~ Running(t)
    BY DEF NewSession, Hello, EndSession, SleepOutlasts
  <2> QED
    BY <1>0, <2>1 DEF Running, Worker
<1>2. CASE NewSession \/ Hello
  <2>1. UNCHANGED <<list, obj>> /\ list = << >>
    BY <1>2 DEF NewSession, Hello, ListOfLive
  <2>2. apc \in {"pool", "hello"} /\ apc' \in {"hello", "recv"} /\ ~ failed'
    BY <1>2 DEF NewSession, Hello, FailureStops
  <2>3. ListOfLive'
    BY <1>0, <2>1, <2>2 DEF ListOfLive, InList
  <2>4. OneWorker' /\ Flags' /\ FailureStops' /\ SleepOutlasts'
    BY <1>0, <1>1, <2>1, <2>2 DEF OneWorker, Flags, FailureStops, SleepOutlasts
  <2> QED
    BY <2>3, <2>4
<1>3. CASE EndSession
  <2>1. apc = "sleep" /\ apc' = "pool" /\ list' = << >> /\ \A o \in Objs : ~ InList(o)'
    BY <1>3 DEF EndSession, ClearList, InList
  <2>2. \A o \in Objs : /\ obj'[o].st = IF InList(o) THEN Deleted ELSE obj[o].st
                        /\ obj'[o].trig = obj[o].trig
    BY <1>3, StatesSet DEF EndSession, ClearList
  <2>3. ListOfLive'
    BY <1>0, <2>1, <2>2 DEF ListOfLive, States, Deleted
  <2>4. OneWorker' /\ Flags' /\ FailureStops' /\ SleepOutlasts'
    BY <1>0, <1>1, <2>1, <2>2 DEF OneWorker, Flags, FailureStops, SleepOutlasts, Worker, Running
  <2> QED
    BY <2>3, <2>4
<1> QED
  BY <1>2, <1>3

LEMMA CloseFailedStep ==
    ASSUME TypeOK, SpecInv, CloseFailed PROVE SpecInv'
<1> USE DEF SpecInv
<1>0. /\ UNCHANGED <<xmsg, fault, tpc, tspec, tstop, owes, starting>>
      /\ apc = "failed" /\ apc' = "recv" /\ ~ failed' /\ list' = << >>
  BY DEF CloseFailed, execVars, roundVars, ClearList
<1>1. \A t \in Threads : ~ Worker(t) /\ ~ Worker(t)'
  BY <1>0 DEF ListOfLive, FailureStops, Worker
<1>2. \A o \in Objs : /\ obj'[o].st = IF InList(o) THEN Deleted ELSE obj[o].st
                      /\ obj'[o].trig = obj[o].trig /\ ~ InList(o)'
  BY <1>0, StatesSet DEF CloseFailed, ClearList, InList
<1>3. ListOfLive'
  BY <1>0, <1>2 DEF ListOfLive, States, Deleted
<1>4. OneWorker' /\ Flags' /\ FailureStops' /\ SleepOutlasts'
  BY <1>0, <1>1, <1>2 DEF OneWorker, Flags, FailureStops, SleepOutlasts, Worker
<1> QED
  BY <1>3, <1>4

(* RecvFails and TimeoutGivesUp. *)
LEMMA StopAllStep ==
    ASSUME TypeOK, SpecInv, apc = "recv", StopAll,
           UNCHANGED <<starting, list, handle, failed, execVars, awaited>>
    PROVE  SpecInv'
<1> USE DEF SpecInv
<1>0. /\ UNCHANGED <<xmsg, fault, tpc, tspec, tstop>> /\ apc' = "sleep"
      /\ owes' = [t \in Threads |-> Running(t)]
  BY DEF execVars, StopAll
<1>1. \A p \in Objs : /\ obj'[p].st = IF InList(p) THEN "Inactive" ELSE obj[p].st
                      /\ obj'[p].ants = obj[p].ants /\ obj'[p].trig = obj[p].trig
                      /\ EndEvents(p)' = EndEvents(p)
  BY StatesSet DEF StopAll
<1>2. \A t \in Threads : /\ Worker(t)' <=> Worker(t)
                         /\ Running(t)' <=> Running(t)
                         /\ SpecOf(t)' = SpecOf(t)
                         /\ Worker(t) => Remaining(t)' = Remaining(t)
  BY <1>0, <1>1 DEF Worker, Running, SpecOf, Remaining, OneWorker, TypeOK
<1>3. \A t \in Threads : Worker(t) => xmsg \in Objs /\ obj'[xmsg].st = "Inactive"
  BY <1>1 DEF OneWorker, ListOfLive, States, TypeOK
<1>4. ListOfLive'
  BY <1>0, <1>1 DEF ListOfLive, States, InList
<1>5. OneWorker'
  BY <1>0, <1>2, <1>3 DEF OneWorker
<1>6. Flags'
  <2>1. \A t \in Threads : tstop[t] /\ tpc[t] = "round" => obj'[xmsg].st = "Inactive"
    BY <1>3 DEF Worker
  <2> QED
    BY <1>0, <1>1, <2>1 DEF Flags
<1>7. FailureStops' /\ SleepOutlasts'
  BY <1>0, <1>2, <1>3 DEF FailureStops, SleepOutlasts
<1> QED
  BY <1>4, <1>5, <1>6, <1>7

LEMMA TimeoutFailedStep ==
    ASSUME SpecInv, TimeoutFailed PROVE SpecInv'
<1> USE DEF SpecInv
<1>0. /\ UNCHANGED <<xmsg, fault, tpc, tspec, tstop, starting, list, handle, failed, obj, awaited>>
      /\ apc = "recv" /\ apc' = "failed" /\ failed
  BY DEF TimeoutFailed, execVars
<1>1. \A t \in Threads : ~ Worker(t) /\ ~ Worker(t)'
  BY <1>0 DEF FailureStops, Worker
<1>2. ListOfLive'
  BY <1>0 DEF ListOfLive, InList
<1>3. OneWorker' /\ Flags' /\ FailureStops' /\ SleepOutlasts'
  BY <1>0, <1>1 DEF OneWorker, Flags, FailureStops, SleepOutlasts
<1> QED
  BY <1>2, <1>3

(* The messages that change the state of one ROSpec. *)
LEMMA StateMessages ==
    ASSUME TypeOK, SpecInv, NEW o \in Objs, EnableRospec(o) \/ StopRospec(o) PROVE SpecInv'
<1> USE DEF SpecInv
<1>0. /\ UNCHANGED <<xmsg, fault, tpc, tspec, tstop, starting, list, handle, failed, owes, awaited>>
      /\ apc = "recv" /\ apc' = "recv" /\ InList(o) /\ obj[o].st \in {"Disabled", "Active"}
      /\ obj' = [obj EXCEPT ![o].st = "Inactive"]
  BY DEF EnableRospec, StopRospec, Receives, execVars, roundVars
<1>1. /\ obj'[o].st = "Inactive"
      /\ \A p \in Objs : /\ p # o => obj'[p] = obj[p]
                         /\ obj'[p].ants = obj[p].ants /\ obj'[p].trig = obj[p].trig
                         /\ EndEvents(p)' = EndEvents(p)
  BY <1>0, StateSet
<1>2. \A t \in Threads : /\ Worker(t)' <=> Worker(t)
                         /\ Running(t)' <=> Running(t)
                         /\ SpecOf(t)' = SpecOf(t)
                         /\ Worker(t) => Remaining(t)' = Remaining(t)
  BY <1>0, <1>1 DEF Worker, Running, SpecOf, Remaining, OneWorker, TypeOK
<1>3. \A t \in Threads : Worker(t) => /\ xmsg \in Objs
                                      /\ obj'[xmsg].st \in {obj[xmsg].st, "Inactive"}
  BY <1>1 DEF OneWorker, TypeOK
<1>4. ListOfLive'
  BY <1>0, <1>1 DEF ListOfLive, States, InList
<1>5. OneWorker'
  BY <1>0, <1>2, <1>3 DEF OneWorker
<1>6. Flags'
  <2>1. \A t \in Threads : tstop[t] /\ tpc[t] = "round" => obj'[xmsg].st = "Inactive"
    BY <1>3 DEF Worker, Flags
  <2> QED
    BY <1>0, <1>1, <2>1 DEF Flags
<1>7. FailureStops' /\ SleepOutlasts'
  BY <1>0, <1>2 DEF FailureStops, SleepOutlasts
<1> QED
  BY <1>4, <1>5, <1>6, <1>7

LEMMA AddStep ==
    ASSUME PatientClient, TypeOK, SpecInv, NEW o \in Objs, AddRospec(o) PROVE SpecInv'
<1> USE DEF SpecInv
<1>0. /\ UNCHANGED <<xmsg, fault, tpc, tspec, tstop, starting, handle, failed, owes, awaited>>
      /\ apc = "recv" /\ apc' = "recv" /\ handle /\ list' = Append(list, o)
      /\ obj[o].st = "none"
  BY DEF AddRospec, Receives, execVars, roundVars
<1>1. PICK m \in Modes : obj' = [obj EXCEPT ![o] = [st |-> "Disabled", ants |-> m, trig |-> "null"]]
  BY DEF AddRospec, PatientClient
<1>2. /\ obj'[o].st = "Disabled" /\ obj'[o].trig = "null"
      /\ \A p \in Objs : p # o => obj'[p] = obj[p] /\ EndEvents(p)' = EndEvents(p)
  BY <1>1 DEF TypeOK, EndEvents
<1>3. \A p \in Objs : InList(p)' <=> InList(p) \/ p = o
  <2>1. list \in Seq(Objs)
    BY DEF TypeOK
  <2>2. /\ DOMAIN list' = DOMAIN list \cup {Len(list) + 1} /\ list'[Len(list) + 1] = o
        /\ \A i \in DOMAIN list : list'[i] = list[i]
    BY <1>0, <2>1
  <2> QED
    BY <2>2 DEF InList
<1>4. \A t \in Threads : Worker(t) => xmsg \in Objs /\ xmsg # o
  BY <1>0 DEF OneWorker, TypeOK
<1>5. \A t \in Threads : /\ Worker(t)' <=> Worker(t)
                         /\ Running(t)' <=> Running(t)
                         /\ SpecOf(t)' = SpecOf(t)
                         /\ Worker(t) => Remaining(t)' = Remaining(t)
  BY <1>0, <1>2, <1>4 DEF Worker, Running, SpecOf, Remaining, OneWorker
<1>6. ListOfLive'
  BY <1>0, <1>2, <1>3 DEF ListOfLive, States
<1>7. OneWorker'
  BY <1>0, <1>2, <1>4, <1>5 DEF OneWorker
<1>8. Flags'
  <2>1. \A t \in Threads : tstop[t] /\ tpc[t] = "round" => obj'[xmsg].st = "Inactive"
    BY <1>2, <1>4 DEF Worker, Flags
  <2> QED
    BY <1>0, <1>2, <2>1 DEF Flags
<1>9. FailureStops' /\ SleepOutlasts'
  BY <1>0, <1>5 DEF FailureStops, SleepOutlasts
<1> QED
  BY <1>6, <1>7, <1>8, <1>9

LEMMA StartStep ==
    ASSUME PatientClient, TypeOK, SpecInv, NEW o \in Objs, StartRospec(o) PROVE SpecInv'
<1> USE DEF SpecInv
<1>0. /\ UNCHANGED <<xmsg, fault, tpc, tspec, tstop, list, handle, failed, owes>>
      /\ apc = "recv" /\ apc' = "start" /\ starting' = o /\ awaited = 0 /\ awaited' = EndEvents(o)
      /\ InList(o) /\ obj[o].st = "Inactive" /\ obj' = [obj EXCEPT ![o].st = "Active"]
  BY DEF StartRospec, Receives, execVars, roundVars, PatientClient
<1>1. /\ obj'[o].st = "Active"
      /\ \A p \in Objs : /\ p # o => obj'[p] = obj[p]
                         /\ obj'[p].ants = obj[p].ants /\ obj'[p].trig = obj[p].trig
                         /\ EndEvents(p)' = EndEvents(p)
  BY <1>0, StateSet
<1>2. \A t \in Threads : ~ Worker(t) /\ ~ Worker(t)'
  BY <1>0, NoWorkerAwaited DEF Worker
<1>3. ~ failed
  BY <1>0 DEF FailureStops
<1>4. ListOfLive'
  <2>1. o # NoSpec
    BY ConstantsAssumption DEF NoSpec
  <2> QED
    BY <1>0, <1>1, <2>1 DEF ListOfLive, States, InList
<1>5. OneWorker'
  BY <1>0, <1>1, <1>2 DEF OneWorker
<1>6. Flags'
  BY <1>0, <1>1, <1>2 DEF Flags, Worker
<1>7. FailureStops' /\ SleepOutlasts'
  BY <1>0, <1>2, <1>3 DEF FailureStops, SleepOutlasts
<1> QED
  BY <1>4, <1>5, <1>6, <1>7

LEMMA RunExecutorStep ==
    ASSUME TypeOK, SpecInv, RunExecutor PROVE SpecInv'
<1> USE DEF SpecInv
<1>0. /\ UNCHANGED <<fault, tspec, tstop, list, handle, failed, owes, obj, awaited>>
      /\ apc = "start" /\ apc' = "recv" /\ starting' = NoSpec /\ xmsg' = starting
      /\ \/ UNCHANGED tpc
         \/ \E t \in Threads : ~ Running(t) /\ tpc' = [tpc EXCEPT ![t] = "init"]
  BY DEF RunExecutor, localVars, roundVars
<1>1. /\ starting \in Objs /\ starting # NoSpec /\ obj[starting].st = "Active"
      /\ awaited = EndEvents(starting) /\ ~ failed /\ \A t \in Threads : ~ Worker(t)
  BY <1>0 DEF ListOfLive, OneWorker, FailureStops, TypeOK
<1>2. ListOfLive'
  BY <1>0 DEF ListOfLive, InList
<1>3. CASE UNCHANGED tpc
  <2>1. \A t \in Threads : ~ Worker(t)'
    BY <1>1, <1>3 DEF Worker
  <2>2. OneWorker' /\ Flags' /\ FailureStops' /\ SleepOutlasts'
    BY <1>0, <1>1, <1>3, <2>1 DEF OneWorker, Flags, FailureStops, SleepOutlasts, Worker
  <2> QED
    BY <1>2, <2>2
<1>4. CASE \E t \in Threads : ~ Running(t) /\ tpc' = [tpc EXCEPT ![t] = "init"]
  <2> PICK t \in Threads : ~ Running(t) /\ tpc' = [tpc EXCEPT ![t] = "init"]
    BY <1>4
  <2>1. tpc'[t] = "init" /\ tpc[t] = "none" /\ \A u \in Threads : u # t => tpc'[u] = tpc[u]
    BY DEF TypeOK, Running
  <2>2. \A u \in Threads : Worker(u)' <=> u = t
    BY <1>1, <2>1 DEF Worker
  <2>3. SpecOf(t)' = xmsg' /\ Remaining(t)' = EndEvents(starting)
    BY <1>0, <2>1 DEF SpecOf, Remaining, EndEvents
  <2>4. OneWorker'
    BY <1>0, <1>1, <2>2, <2>3 DEF OneWorker
  <2>5. Flags'
    BY <1>0, <1>1, <2>1 DEF Flags, Worker
  <2>6. FailureStops' /\ SleepOutlasts'
    BY <1>0, <1>1 DEF FailureStops, SleepOutlasts
  <2> QED
    BY <1>2, <2>4, <2>5, <2>6
<1> QED
  BY <1>0, <1>3, <1>4

LEMMA AgentKeepsSpecs ==
    ASSUME PatientClient, TypeOK, SpecInv, AgentActions, ~ overtaken' PROVE SpecInv'
<1>1. CASE NewSession \/ AgentStep
  BY <1>1, SessionSteps, RunExecutorStep, CloseFailedStep DEF AgentStep
<1>2. CASE ClientHangs
  BY <1>2, SpecsUntouched DEF ClientHangs, agentVars, execVars, roundVars
<1>3. CASE RecvFails \/ TimeoutGivesUp
  <2>1. apc = "recv" /\ StopAll /\ UNCHANGED <<starting, list, handle, failed, execVars, awaited>>
    BY <1>3 DEF RecvFails, TimeoutGivesUp
  <2> QED
    BY <2>1, StopAllStep
<1>4. CASE TimeoutKeepAlive
  BY <1>4, SpecsUntouched DEF TimeoutKeepAlive, execVars, roundVars
<1>5. CASE TimeoutFailed
  BY <1>5, TimeoutFailedStep
<1>6. CASE Message
  <2>1. CASE \E o \in Objs : AddRospec(o) \/ EnableRospec(o) \/ StartRospec(o) \/ StopRospec(o)
    BY <2>1, AddStep, StateMessages, StartStep
  <2>2. CASE ConfigOpens \/ ConfigNoAntennas \/ ConfigRefused \/ KeepAliveAck
    BY <2>2, SpecsUntouched DEF ConfigOpens, ConfigNoAntennas, ConfigRefused, KeepAliveAck,
       Receives, execVars, roundVars
  <2>3. CASE Receives /\ KeepsAll
    BY <2>3, SpecsUntouched DEF Receives, KeepsAll, execVars, roundVars
  <2> QED
    BY <1>6, <2>1, <2>2, <2>3 DEF Message, GetReaderConfig, GetCapabilities, GetAccessSpecs,
       OtherMessage, AddRefused, EnableRefused, StartRefused, StopRefused
<1> QED
  BY <1>1, <1>2, <1>3, <1>4, <1>5, <1>6 DEF AgentActions, Timeout

-----------------------------------------------------------------------------
(* The steps of the executor's threads. *)

(* A step of the one worker that leaves the messages alone: where it goes, *)
(* and what that leaves to notify.                                         *)
LEMMA WorkerMoves ==
    ASSUME TypeOK, SpecInv, NEW t \in Threads, Worker(t), NEW l, Goes(t, l), AgentSame,
           UNCHANGED <<failed, obj>>,
           \A u \in Threads : u # t => tstop'[u] = tstop[u] /\ owes'[u] = owes[u] /\ tspec'[u] = tspec[u],
           Worker(t)' => SpecOf(t)' = xmsg /\ awaited' = Remaining(t)',
           l # "none",
           apc = "sleep" => owes'[t],
           l \in {"begin", "read", "report", "check"} => ~ fault',
           tstop'[t] => /\ l \in {"round", "end", "exit"}
                        /\ l = "round" => obj[xmsg].st = "Inactive"
    PROVE  SpecInv'
<1> USE DEF SpecInv
<1>0. UNCHANGED <<apc, starting, handle, list, xmsg, obj, failed>>
  BY DEF AgentSame
<1>1. \A u \in Threads : u # t => ~ Worker(u)
  BY DEF OneWorker
<1>2. tpc'[t] = l /\ \A u \in Threads : u # t => tpc'[u] = tpc[u]
  BY DEF Goes, TypeOK
<1>3. \A u \in Threads : u # t => ~ Worker(u)' /\ (Running(u)' <=> Running(u))
  BY <1>1, <1>2 DEF Worker, Running
<1>4. Running(t) /\ Running(t)'
  BY <1>2 DEF Running, Worker
<1>5. ListOfLive'
  BY <1>0 DEF ListOfLive, InList
<1>6. OneWorker'
  BY <1>0, <1>3 DEF OneWorker
<1>7. Flags'
  BY <1>0, <1>1, <1>2 DEF Flags, Worker
<1>8. FailureStops'
  BY <1>0, <1>3 DEF FailureStops, ListOfLive, OneWorker
<1>9. SleepOutlasts'
  BY <1>0, <1>3, <1>4 DEF SleepOutlasts
<1> QED
  BY <1>5, <1>6, <1>7, <1>8, <1>9

LEMMA ThreadKeepsSpecs ==
    ASSUME TypeOK, SpecInv, NEW t \in Threads, Thread(t) PROVE SpecInv'
<1> USE DEF SpecInv
<1>0. t \in DOMAIN tpc /\ t \in DOMAIN tspec /\ t \in DOMAIN tstop /\ t \in DOMAIN owes
  BY DEF TypeOK
<1>a. \A l : Goes(t, l) => tpc'[t] = l
  BY <1>0 DEF Goes
<1>b. /\ Worker(t) => /\ xmsg \in Objs /\ SpecOf(t) = xmsg /\ awaited = Remaining(t)
                      /\ obj[xmsg].st \in {"Active", "Inactive"} /\ obj[xmsg].trig = "null"
                      /\ obj[xmsg].ants \in {"all", "listed"}
                      /\ apc \notin {"pool", "hello", "start"}
                      /\ apc = "sleep" => owes[t] /\ obj[xmsg].st = "Inactive"
      /\ tpc[t] \in {"begin", "read", "report", "check"} => ~ fault
      /\ tstop[t] => /\ tpc[t] \in {"round", "end", "exit"}
                     /\ tpc[t] = "round" => obj[xmsg].st = "Inactive"
  <2>1. Worker(t) => Running(t)
    BY DEF Worker, Running
  <2>2. Worker(t) => xmsg \in Objs /\ SpecOf(t) = xmsg /\ awaited = Remaining(t)
    BY DEF OneWorker, TypeOK
  <2>3. Worker(t) => /\ obj[xmsg].st \in {"Active", "Inactive"} /\ obj[xmsg].trig = "null"
                     /\ obj[xmsg].ants \in {"all", "listed"}
    BY <2>2, SpecTyped DEF OneWorker, Flags
  <2>4. Worker(t) => /\ apc \notin {"pool", "hello", "start"}
                     /\ apc = "sleep" => owes[t] /\ obj[xmsg].st = "Inactive"
    BY <2>1 DEF OneWorker, SleepOutlasts
  <2> QED
    BY <2>2, <2>3, <2>4 DEF Flags
<1>1. CASE ThreadInit(t)
  <2>1. tspec'[t] = xmsg /\ \A u \in Threads : u # t => tspec'[u] = tspec[u]
    BY <1>0, <1>1 DEF ThreadInit
  <2>2. /\ tpc[t] = "init" /\ Goes(t, "begin") /\ AgentSame /\ fault' = FALSE
        /\ UNCHANGED <<failed, obj, tstop, owes, awaited>>
    BY <1>1 DEF ThreadInit, roundVars
  <2>3. Worker(t) /\ ~ tstop[t] /\ tpc'[t] = "begin"
    BY <1>a, <1>b, <2>2 DEF Worker
  <2>4. SpecOf(t)' = xmsg /\ Remaining(t)' = Remaining(t)
    BY <1>b, <2>1, <2>2, <2>3 DEF SpecOf, Remaining, EndEvents
  <2> QED
    BY <1>b, <2>1, <2>2, <2>3, <2>4, WorkerMoves
<1>2. CASE ThreadBegin(t) \/ ReadTags(t) \/ ReadFails(t) \/ Report(t) \/ RoundAgain(t)
  <2>1. PICK l \in {"read", "report", "round", "check"} : Goes(t, l) /\ (fault' => l = "round")
    BY <1>2, <1>b DEF ThreadBegin, ReadTags, ReadFails, Report, RoundAgain
  <2>2. /\ tpc[t] \in {"begin", "read", "report", "round"} /\ ~ tstop[t] /\ AgentSame
        /\ UNCHANGED <<failed, obj, tspec, tstop, owes, awaited>>
    BY <1>2, <1>b DEF ThreadBegin, ReadTags, ReadFails, Report, RoundAgain, roundVars
  <2>3. Worker(t) /\ tpc'[t] = l
    BY <1>a, <2>1, <2>2 DEF Worker
  <2>4. SpecOf(t)' = xmsg /\ Remaining(t)' = Remaining(t)
    BY <1>b, <2>1, <2>2, <2>3 DEF SpecOf, Remaining, EndEvents, AgentSame
  <2> QED
    BY <1>b, <2>1, <2>2, <2>3, <2>4, WorkerMoves
<1>3. CASE CheckStops(t)
  <2>1. /\ tpc[t] = "check" /\ Goes(t, "round") /\ AgentSame
        /\ UNCHANGED <<failed, obj, fault, tspec, owes>>
        /\ tstop'[t] = TRUE /\ \A u \in Threads : u # t => tstop'[u] = tstop[u]
    BY <1>0, <1>3 DEF CheckStops, roundVars
  <2>2. Worker(t) /\ tpc'[t] = "round"
    BY <1>a, <2>1 DEF Worker
  <2>3. tspec[t] = xmsg /\ awaited = EndEvents(xmsg)
    BY <1>b, <2>1, <2>2 DEF SpecOf, Remaining
  <2>4. obj[xmsg].st = "Inactive"
    BY <1>3, <1>b, <2>2, <2>3 DEF CheckStops, MustStop, Freed, Deleted
  <2>5. awaited' = 1
    BY <1>3, <1>b, <2>2, <2>3 DEF CheckStops, EndEvents, OneLess
  <2>6. SpecOf(t)' = xmsg /\ Remaining(t)' = 1
    BY <2>1, <2>2, <2>3 DEF SpecOf, Remaining
  <2> QED
    BY <1>b, <2>1, <2>2, <2>4, <2>5, <2>6, WorkerMoves
<1>4. CASE CheckGoesOn(t)
  <2>1. PICK l \in {"read", "round"} : Goes(t, l)
    BY <1>4 DEF CheckGoesOn
  <2>2. /\ tpc[t] = "check" /\ AgentSame /\ UNCHANGED <<failed, obj, fault, tspec, tstop, awaited>>
        /\ \A u \in Threads : u # t => owes'[u] = owes[u]
    BY <1>0, <1>4 DEF CheckGoesOn
  <2>3. Worker(t) /\ tpc'[t] = l /\ ~ tstop[t] /\ ~ fault
    BY <1>a, <1>b, <2>1, <2>2 DEF Worker
  <2>4. tspec[t] = xmsg
    BY <1>b, <2>2, <2>3 DEF SpecOf
  <2>5. SpecOf(t)' = xmsg /\ Remaining(t)' = Remaining(t)
    BY <2>1, <2>2, <2>3, <2>4 DEF SpecOf, Remaining, EndEvents, AgentSame
  <2>6. apc # "sleep"
    BY <1>4, <1>b, <2>3, <2>4 DEF CheckGoesOn, MustStop, Freed, Deleted
  <2> QED
    BY <1>b, <2>1, <2>2, <2>3, <2>5, <2>6, WorkerMoves
<1>5. CASE RoundStops(t)
  <2>1. /\ tpc[t] = "round" /\ Goes(t, "end") /\ tstop[t] /\ AgentSame
        /\ UNCHANGED <<failed, fault, tspec, tstop, owes, awaited>>
    BY <1>5 DEF RoundStops, roundVars
  <2>2. Worker(t) /\ tpc'[t] = "end"
    BY <1>a, <2>1 DEF Worker
  <2>3. tspec[t] = xmsg /\ obj[xmsg].st = "Inactive"
    BY <1>b, <2>1, <2>2 DEF SpecOf
  <2>4. obj' = obj
    <3>1. obj' = [obj EXCEPT ![xmsg].st = "Inactive"]
      BY <1>5, <2>3 DEF RoundStops, Deleted
    <3>2. obj[xmsg] \in ObjType /\ obj \in [Objs -> ObjType]
      BY <1>b, <2>2 DEF TypeOK, ObjType
    <3>3. [obj[xmsg] EXCEPT !.st = "Inactive"] = obj[xmsg]
      BY <2>3, <3>2 DEF ObjType
    <3> QED
      BY <3>1, <3>2, <3>3
  <2>5. SpecOf(t)' = xmsg /\ Remaining(t)' = Remaining(t)
    BY <2>1, <2>2, <2>3 DEF SpecOf, Remaining, AgentSame
  <2> QED
    BY <1>b, <2>1, <2>2, <2>4, <2>5, WorkerMoves
<1>6. CASE ThreadEnd(t)
  <2>1. /\ tpc[t] = "end" /\ Goes(t, "exit") /\ AgentSame
        /\ UNCHANGED <<failed, obj, fault, tspec, tstop, owes>>
    BY <1>6 DEF ThreadEnd, roundVars
  <2>2. Worker(t) /\ ~ Worker(t)'
    BY <1>a, <2>1 DEF Worker
  <2> QED
    BY <1>b, <2>1, <2>2, WorkerMoves
<1>7. CASE RoundFailed(t)
  <2>0. /\ UNCHANGED <<apc, starting, handle, list, xmsg, obj, fault, tspec, tstop, owes, awaited>>
        /\ tpc[t] = "round" /\ tpc' = [tpc EXCEPT ![t] = "exit"] /\ failed' = TRUE
    BY <1>7 DEF RoundFailed, AgentSame, Goes, roundVars
  <2>1. Worker(t) /\ \A u \in Threads : u # t => ~ Worker(u)
    BY <2>0 DEF OneWorker, Worker
  <2>2. tpc'[t] = "exit" /\ \A u \in Threads : u # t => tpc'[u] = tpc[u]
    BY <1>0, <2>0
  <2>3. \A u \in Threads : ~ Worker(u)' /\ (Running(u)' <=> Running(u))
    BY <2>0, <2>1, <2>2 DEF Worker, Running
  <2>4. awaited > 0
    BY <1>b, <2>1, SpecTyped DEF Remaining
  <2>5. ListOfLive'
    BY <2>0 DEF ListOfLive, InList
  <2>6. OneWorker'
    BY <1>b, <2>0, <2>1, <2>3 DEF OneWorker
  <2>7. Flags'
    BY <2>0, <2>2 DEF Flags
  <2>8. FailureStops'
    BY <1>b, <2>0, <2>1, <2>3, <2>4 DEF FailureStops
  <2>9. SleepOutlasts'
    BY <2>0, <2>3 DEF SleepOutlasts
  <2> QED
    BY <2>5, <2>6, <2>7, <2>8, <2>9
<1>8. CASE ThreadExit(t)
  <2>0. /\ UNCHANGED <<apc, starting, handle, failed, list, xmsg, obj, fault, awaited>>
        /\ tpc[t] = "exit" /\ tpc' = [tpc EXCEPT ![t] = "none"]
        /\ tspec' = [tspec EXCEPT ![t] = NoSpec] /\ tstop' = [tstop EXCEPT ![t] = FALSE]
        /\ owes' = [owes EXCEPT ![t] = FALSE]
    BY <1>8 DEF ThreadExit, AgentSame, Goes
  <2>1. /\ tpc'[t] = "none" /\ ~ tstop'[t]
        /\ \A u \in Threads : u # t => /\ tpc'[u] = tpc[u] /\ tspec'[u] = tspec[u]
                                       /\ tstop'[u] = tstop[u] /\ owes'[u] = owes[u]
    BY <1>0, <2>0
  <2>2. ~ Worker(t) /\ ~ Worker(t)' /\ ~ Running(t)'
    BY <2>0, <2>1 DEF Worker, Running
  <2>3. \A u \in Threads : u # t => /\ Worker(u)' <=> Worker(u)
                                    /\ Running(u)' <=> Running(u)
                                    /\ SpecOf(u)' = SpecOf(u) /\ Remaining(u)' = Remaining(u)
    BY <2>0, <2>1 DEF Worker, Running, SpecOf, Remaining, EndEvents
  <2>4. ListOfLive'
    BY <2>0 DEF ListOfLive, InList
  <2>5. OneWorker'
    BY <2>0, <2>2, <2>3 DEF OneWorker, EndEvents
  <2>6. Flags'
    BY <2>0, <2>1 DEF Flags
  <2>7. FailureStops'
    BY <2>0, <2>2, <2>3 DEF FailureStops
  <2>8. SleepOutlasts'
    BY <2>0, <2>1, <2>2, <2>3 DEF SleepOutlasts
  <2> QED
    BY <2>4, <2>5, <2>6, <2>7, <2>8
<1> QED
  BY <1>1, <1>2, <1>3, <1>4, <1>5, <1>6, <1>7, <1>8 DEF Thread

LEMMA SpecInvInit == Init => SpecInv
<1> SUFFICES ASSUME Init PROVE SpecInv
  OBVIOUS
<1> USE DEF Init
<1>1. ListOfLive
  BY DEF ListOfLive, InList, NewObj, States
<1>2. OneWorker /\ FailureStops /\ SleepOutlasts
  BY DEF OneWorker, Worker, FailureStops, SleepOutlasts, Running
<1>3. Flags
  BY DEF Flags, NewObj
<1> QED
  BY <1>1, <1>2, <1>3 DEF SpecInv

LEMMA SpecInvStep == PatientClient /\ TypeOK /\ SpecInv /\ [Next]_vars /\ ~ overtaken' => SpecInv'
<1> SUFFICES ASSUME PatientClient, TypeOK, SpecInv, [Next]_vars, ~ overtaken' PROVE SpecInv'
  OBVIOUS
<1>1. CASE AgentActions
  BY <1>1, AgentKeepsSpecs
<1>2. CASE \E t \in Threads : Thread(t)
  BY <1>2, ThreadKeepsSpecs
<1>3. CASE UNCHANGED vars
  BY <1>3, SpecsUntouched DEF vars, agentVars, execVars, roundVars
<1> QED
  BY <1>1, <1>2, <1>3 DEF Next, AgentActions

(* A sleep that was over too early is never made good. *)
LEMMA OvertakenStays == [Next]_vars /\ overtaken => overtaken'
<1> SUFFICES ASSUME [Next]_vars, overtaken PROVE overtaken'
  OBVIOUS
<1>1. CASE AgentActions
  BY <1>1, AgentWritesFlags, Zenon
<1>2. CASE \E t \in Threads : Thread(t)
  BY <1>2, Zenon DEF Thread, ThreadInit, ThreadBegin, ReadTags, ReadFails, Report, CheckStops,
     CheckGoesOn, RoundFailed, RoundStops, RoundAgain, ThreadEnd, ThreadExit, roundVars
<1>3. CASE UNCHANGED vars
  BY <1>3 DEF vars, roundVars
<1> QED
  BY <1>1, <1>2, <1>3 DEF Next, AgentActions

LEMMA SpecInvariant == PatientClient => (Spec => [](TypeOK /\ LastsOrInv))
<1> SUFFICES ASSUME PatientClient PROVE Spec => [](TypeOK /\ LastsOrInv)
  OBVIOUS
<1>1. Init => LastsOrInv
  BY SpecInvInit DEF LastsOrInv
<1>2. TypeOK /\ LastsOrInv /\ [Next]_vars => LastsOrInv'
  BY SpecInvStep, OvertakenStays DEF LastsOrInv
<1>3. Spec => []TypeOK
  BY LlrpTypeCorrect
<1> QED
  BY <1>1, <1>2, <1>3, PTL DEF Spec

(* No executor thread follows the pointer of a message that was deleted,   *)
(* nor reads with a handle of 0, though the agent never waits for one,     *)
(* until the agent's sleep before it deletes the ROSpecs is over before    *)
(* the round that a thread was in (its 500 or 1000 ms do not exclude it:   *)
(* a read may take longer).  Nothing else is assumed: not how long the     *)
(* other steps take, and not that a thread is gone before the next START.  *)
THEOREM PointersLive == PatientClient => (Spec => []ExecutorPointersLive)
<1> SUFFICES ASSUME PatientClient PROVE Spec => []ExecutorPointersLive
  OBVIOUS
<1>1. TypeOK /\ LastsOrInv => ExecutorPointersLive
  <2> SUFFICES ASSUME TypeOK, SpecInv, NEW t \in Threads
               PROVE  /\ InUse(t) => obj[tspec[t]].st # Deleted
                      /\ tpc[t] \in {"init", "report"} => obj[xmsg].st # Deleted
                      /\ tpc[t] = "read" => handle
    BY DEF ExecutorPointersLive, LastsOrInv
  <2>1. Worker(t) => obj[xmsg].st \in {"Active", "Inactive"} /\ SpecOf(t) = xmsg /\ xmsg \in Objs
    BY DEF SpecInv, OneWorker, TypeOK
  <2>2. Worker(t) => handle
    BY <2>1 DEF SpecInv, ListOfLive, States, InList
  <2> QED
    BY <2>1, <2>2 DEF InUse, Worker, SpecOf, Deleted
<1> QED
  BY <1>1, SpecInvariant, PTL

(* At most one thread of the executor is in an inventory, though run() is  *)
(* called whether or not one still runs, until a sleep of the agent is     *)
(* over before a thread's round: only then can the next session start a    *)
(* ROSpec on the executor object while the last one is still read for.     *)
THEOREM InventoriesApart == PatientClient => (Spec => []OneInventory)
<1> SUFFICES ASSUME PatientClient PROVE Spec => []OneInventory
  OBVIOUS
<1>1. LastsOrInv => OneInventory
  BY DEF LastsOrInv, SpecInv, OneWorker, OneInventory, Worker, InUse
<1> QED
  BY <1>1, SpecInvariant, PTL

-----------------------------------------------------------------------------
(* The life of a ROSpec: every step is one of RospecService or none.       *)

PhaseMap  == [o \in Objs |-> PhaseOf(o)]
Server(t) == tpc[t] = "init" \/ InUse(t)
Served(o) == starting = o \/ \E t \in Threads : Serves(t, o)

(* The phase, case by case. *)
PhaseCases == \A o \in Objs :
    /\ obj[o].st \in States \union {"none", Deleted}
    /\ obj[o].st = "none" => PhaseOf(o) = "none"
    /\ obj[o].st = Deleted => PhaseOf(o) = "gone"
    /\ obj[o].st = "Disabled" => PhaseOf(o) = "disabled"
    /\ obj[o].st = "Active" => PhaseOf(o) = IF Served(o) THEN "active" ELSE "failed"
    /\ obj[o].st = "Inactive" => PhaseOf(o) = IF Served(o) THEN "stopping" ELSE "inactive"

LEMMA PhaseCasesHold == TypeOK => PhaseCases
<1> SUFFICES ASSUME TypeOK, NEW o \in Objs
             PROVE  /\ obj[o].st \in States \union {"none", Deleted}
                    /\ obj[o].st = "none" => PhaseOf(o) = "none"
                    /\ obj[o].st = Deleted => PhaseOf(o) = "gone"
                    /\ obj[o].st = "Disabled" => PhaseOf(o) = "disabled"
                    /\ obj[o].st = "Active" => PhaseOf(o) = IF Served(o) THEN "active" ELSE "failed"
                    /\ obj[o].st = "Inactive" =>
                          PhaseOf(o) = IF Served(o) THEN "stopping" ELSE "inactive"
  BY DEF PhaseCases
<1>1. obj[o].st \in States \union {"none", Deleted}
  BY SpecTyped
<1> QED
  BY <1>1 DEF PhaseOf, Served, States, Deleted

LEMMA PhaseCasesNext == TypeOK' => PhaseCases'
BY PhaseCasesHold, PTL

(* Who is served: the ROSpec that is about to run, and the one of the      *)
(* worker, which the executor's pointer leads to.                          *)
ServedIs == \A o \in Objs :
    Served(o) <=> starting = o \/ (xmsg = o /\ \E t \in Threads : Server(t))

LEMMA ServedBy == SpecInv => ServedIs
<1> SUFFICES ASSUME SpecInv, NEW o \in Objs
             PROVE  Served(o) <=> starting = o \/ (xmsg = o /\ \E t \in Threads : Server(t))
  BY DEF ServedIs
<1>1. ASSUME NEW t \in Threads PROVE Serves(t, o) <=> Server(t) /\ xmsg = o
  BY DEF SpecInv, OneWorker, Serves, Server, Worker, InUse, SpecOf
<1> QED
  BY <1>1 DEF Served

LEMMA ServedByNext == SpecInv' => ServedIs'
BY ServedBy, PTL

(* A ROSpec in use is active, or inactive and still to be left. *)
LEMMA ServedStarted ==
    ASSUME TypeOK, SpecInv, NEW o \in Objs, Served(o)
    PROVE  obj[o].st \in {"Active", "Inactive"} /\ InList(o)
<1>1. CASE starting = o
  BY <1>1, ConstantsAssumption DEF SpecInv, ListOfLive, NoSpec, States
<1>2. CASE xmsg = o /\ \E t \in Threads : Server(t)
  BY <1>2 DEF SpecInv, OneWorker, ListOfLive, Server, Worker, InUse, States
<1> QED
  BY <1>1, <1>2, ServedBy DEF ServedIs

LEMMA PhasesKept ==
    ASSUME PhaseCases, PhaseCases',
           \A o \in Objs : obj'[o].st = obj[o].st /\ (Served(o)' <=> Served(o))
    PROVE  PhaseMap' = PhaseMap
<1>1. ASSUME NEW o \in Objs PROVE PhaseOf(o)' = PhaseOf(o)
  BY DEF PhaseCases, States
<1> QED
  BY <1>1 DEF PhaseMap

(* One ROSpec moves on. *)
LEMMA OneMoves ==
    ASSUME PhaseCases, PhaseCases', NEW o \in Objs,
           \A p \in Objs \ {o} : obj'[p].st = obj[p].st /\ (Served(p)' <=> Served(p))
    PROVE  PhaseMap' = [PhaseMap EXCEPT ![o] = PhaseOf(o)']
<1>1. ASSUME NEW p \in Objs \ {o} PROVE PhaseOf(p)' = PhaseOf(p)
  BY DEF PhaseCases, States
<1> QED
  BY <1>1 DEF PhaseMap

(* What a step of the service does, in terms of the phases. *)
ServiceStep == [Service!Next]_<<PhaseMap, overtaken>>

LEMMA StepIs ==
    ASSUME ~ overtaken, overtaken' = overtaken,
           \/ PhaseMap' = PhaseMap
           \/ \E o \in Objs :
                 \/ PhaseOf(o) = "none" /\ PhaseMap' = [PhaseMap EXCEPT ![o] = "disabled"]
                 \/ PhaseOf(o) = "disabled" /\ PhaseMap' = [PhaseMap EXCEPT ![o] = "inactive"]
                 \/ /\ PhaseOf(o) = "inactive" /\ PhaseMap' = [PhaseMap EXCEPT ![o] = "active"]
                    /\ \A p \in Objs : PhaseOf(p) \notin {"active", "stopping"}
                 \/ PhaseOf(o) = "active" /\ PhaseMap' = [PhaseMap EXCEPT ![o] = "stopping"]
                 \/ /\ PhaseOf(o) \in {"stopping", "failed"}
                    /\ PhaseMap' = [PhaseMap EXCEPT ![o] = "inactive"]
                 \/ PhaseOf(o) = "active" /\ PhaseMap' = [PhaseMap EXCEPT ![o] = "failed"]
    PROVE  ServiceStep
<1>1. \A o \in Objs : PhaseMap[o] = PhaseOf(o)
  BY DEF PhaseMap
<1>2. CASE PhaseMap' = PhaseMap
  BY <1>2 DEF ServiceStep
<1>3. ASSUME NEW o \in Objs,
             PhaseOf(o) = "none" /\ PhaseMap' = [PhaseMap EXCEPT ![o] = "disabled"]
      PROVE  ServiceStep
  <2>1. Service!Add(o)
    BY <1>1, <1>3 DEF Service!Add, Service!Moves, PhaseMap
  <2> QED
    BY <2>1 DEF ServiceStep, Service!Next
<1>4. ASSUME NEW o \in Objs,
             PhaseOf(o) = "disabled" /\ PhaseMap' = [PhaseMap EXCEPT ![o] = "inactive"]
      PROVE  ServiceStep
  <2>1. Service!Enable(o)
    BY <1>1, <1>4 DEF Service!Enable, Service!Moves, PhaseMap
  <2> QED
    BY <2>1 DEF ServiceStep, Service!Next
<1>5. ASSUME NEW o \in Objs,
             PhaseOf(o) = "inactive", PhaseMap' = [PhaseMap EXCEPT ![o] = "active"],
             \A p \in Objs : PhaseOf(p) \notin {"active", "stopping"}
      PROVE  ServiceStep
  <2>1. Service!Start(o)
    BY <1>1, <1>5 DEF Service!Start, Service!Moves, Service!Busy, PhaseMap
  <2> QED
    BY <2>1 DEF ServiceStep, Service!Next
<1>6. ASSUME NEW o \in Objs,
             PhaseOf(o) = "active" /\ PhaseMap' = [PhaseMap EXCEPT ![o] = "stopping"]
      PROVE  ServiceStep
  <2>1. Service!Stop(o)
    BY <1>1, <1>6 DEF Service!Stop, Service!Moves, PhaseMap
  <2> QED
    BY <2>1 DEF ServiceStep, Service!Next
<1>7. ASSUME NEW o \in Objs,
             PhaseOf(o) \in {"stopping", "failed"},
             PhaseMap' = [PhaseMap EXCEPT ![o] = "inactive"]
      PROVE  ServiceStep
  <2>1. Service!Finish(o)
    BY <1>1, <1>7 DEF Service!Finish, Service!Moves, PhaseMap
  <2> QED
    BY <2>1 DEF ServiceStep, Service!Next
<1>8. ASSUME NEW o \in Objs,
             PhaseOf(o) = "active" /\ PhaseMap' = [PhaseMap EXCEPT ![o] = "failed"]
      PROVE  ServiceStep
  <2>1. Service!Fail(o)
    BY <1>1, <1>8 DEF Service!Fail, Service!Moves, PhaseMap
  <2> QED
    BY <2>1 DEF ServiceStep, Service!Next
<1> QED
  BY <1>2, <1>3, <1>4, <1>5, <1>6, <1>7, <1>8

(* The hypotheses of every step lemma below. *)
Step == TypeOK /\ SpecInv /\ PhaseCases /\ ServedIs /\ ~ overtaken
        /\ TypeOK' /\ SpecInv' /\ PhaseCases' /\ ServedIs' /\ overtaken' = overtaken

(* The variables on which it depends who is served. *)
servedVars == <<starting, xmsg, tpc, tspec, fault>>

LEMMA ServedSame ==
    ASSUME UNCHANGED servedVars PROVE \A o \in Objs : Served(o)' <=> Served(o)
BY DEF servedVars, Served, Serves, InUse

LEMMA NothingMoves ==
    ASSUME Step, UNCHANGED <<obj, servedVars>> PROVE ServiceStep
BY ServedSame, PhasesKept, StepIs DEF Step, servedVars

LEMMA StopAllMoves ==
    ASSUME Step, StopAll, UNCHANGED servedVars PROVE ServiceStep
<1> USE DEF Step
<1>1. ASSUME NEW o \in Objs
      PROVE  PhaseOf(o)' = CASE PhaseMap[o] = "active"                 -> "stopping"
                             [] PhaseMap[o] \in {"disabled", "failed"} -> "inactive"
                             [] OTHER                                  -> PhaseMap[o]
  <2>1. PhaseMap[o] = PhaseOf(o)
    BY DEF PhaseMap
  <2>2. Served(o)' <=> Served(o)
    BY ServedSame
  <2>3. InList(o) <=> obj[o].st \in States
    BY DEF SpecInv, ListOfLive
  <2>4. obj'[o].st = IF InList(o) THEN "Inactive" ELSE obj[o].st
    BY SpecTyped DEF StopAll, TypeOK
  <2>5. Served(o) => obj[o].st \in {"Active", "Inactive"}
    BY ServedStarted
  <2> QED
    BY <2>1, <2>2, <2>3, <2>4, <2>5 DEF PhaseCases, States, Deleted
<1>2. Service!StopAll
  BY <1>1 DEF Service!StopAll, PhaseMap
<1> QED
  BY <1>2 DEF ServiceStep, Service!Next

LEMMA ClearMoves ==
    ASSUME Step, ClearList, starting = NoSpec, UNCHANGED servedVars, \A t \in Threads : ~ Worker(t)
    PROVE  ServiceStep
<1> USE DEF Step
<1>1. \A o \in Objs : ~ Served(o)
  BY ConstantsAssumption DEF ServedIs, Server, Worker, InUse, NoSpec
<1>2. \A o \in Objs : ~ Service!Busy(o)
  BY <1>1 DEF Service!Busy, PhaseMap, PhaseCases, States, Deleted
<1>3. ASSUME NEW o \in Objs
      PROVE  PhaseOf(o)' = IF Service!Listed(o) THEN "gone" ELSE PhaseMap[o]
  <2>1. PhaseMap[o] = PhaseOf(o)
    BY DEF PhaseMap
  <2>2. ~ Served(o) /\ ~ Served(o)'
    BY <1>1, ServedSame
  <2>3. InList(o) <=> obj[o].st \in States
    BY DEF SpecInv, ListOfLive
  <2>4. obj'[o].st = IF InList(o) THEN Deleted ELSE obj[o].st
    BY SpecTyped DEF ClearList, TypeOK
  <2> QED
    BY <2>1, <2>2, <2>3, <2>4 DEF PhaseCases, States, Deleted, Service!Listed
<1>4. Service!Clear
  BY <1>2, <1>3 DEF Service!Clear, PhaseMap
<1> QED
  BY <1>4 DEF ServiceStep, Service!Next

(* The messages that concern one ROSpec. *)
LEMMA OneMessageMoves ==
    ASSUME PatientClient, Step, NEW o \in Objs,
           AddRospec(o) \/ EnableRospec(o) \/ StartRospec(o) \/ StopRospec(o)
    PROVE  ServiceStep
<1> USE DEF Step
<1>0. obj \in [Objs -> ObjType]
  BY DEF TypeOK, ObjType
<1>1. CASE AddRospec(o) \/ EnableRospec(o) \/ StopRospec(o)
  <2>1. UNCHANGED servedVars
    BY <1>1 DEF AddRospec, EnableRospec, StopRospec, Receives, servedVars, execVars
  <2>2. \A p \in Objs \ {o} : obj'[p] = obj[p]
    BY <1>0, <1>1 DEF AddRospec, EnableRospec, StopRospec
  <2>3. PhaseMap' = [PhaseMap EXCEPT ![o] = PhaseOf(o)']
    BY <2>1, <2>2, ServedSame, OneMoves
  <2>4. Served(o)' <=> Served(o)
    BY <2>1, ServedSame
  <2>5. Served(o) => obj[o].st \in {"Active", "Inactive"}
    BY ServedStarted
  <2>6. CASE AddRospec(o)
    <3>1. obj[o].st = "none" /\ obj'[o].st = "Disabled"
      BY <1>0, <2>6 DEF AddRospec
    <3> QED
      BY <2>3, <3>1, StepIs DEF PhaseCases
  <2>7. CASE EnableRospec(o)
    <3>1. obj[o].st = "Disabled" /\ obj'[o].st = "Inactive"
      BY <1>0, <2>7 DEF EnableRospec, ObjType
    <3> QED
      BY <2>3, <2>4, <2>5, <3>1, StepIs DEF PhaseCases
  <2>8. CASE StopRospec(o)
    <3>1. obj[o].st = "Active" /\ obj'[o].st = "Inactive"
      BY <1>0, <2>8 DEF StopRospec, ObjType
    <3> QED
      BY <2>3, <2>4, <3>1, StepIs DEF PhaseCases
  <2> QED
    BY <1>1, <2>6, <2>7, <2>8
<1>2. CASE StartRospec(o)
  <2>1. /\ obj[o].st = "Inactive" /\ obj'[o].st = "Active" /\ apc = "recv" /\ awaited = 0
        /\ \A p \in Objs \ {o} : obj'[p] = obj[p]
        /\ starting' = o /\ UNCHANGED <<xmsg, tpc, tspec, fault>>
    BY <1>0, <1>2 DEF StartRospec, Receives, PatientClient, ObjType, execVars
  <2>2. \A t \in Threads : ~ Worker(t)
    BY <2>1, NoWorkerAwaited DEF SpecInv
  <2>3. starting = NoSpec
    BY <2>1 DEF SpecInv, ListOfLive
  <2>4. \A p \in Objs : ~ Served(p)
    BY <2>2, <2>3, ConstantsAssumption DEF ServedIs, Server, Worker, InUse, NoSpec
  <2>5. \A t \in Threads : ~ Server(t)'
    BY <2>1, <2>2 DEF Server, Worker, InUse
  <2>6. \A p \in Objs : Served(p)' <=> p = o
    BY <2>1, <2>5 DEF ServedIs
  <2>7. PhaseMap' = [PhaseMap EXCEPT ![o] = PhaseOf(o)']
    BY <2>1, <2>4, <2>6, OneMoves
  <2>8. PhaseOf(o) = "inactive" /\ PhaseOf(o)' = "active"
    BY <2>1, <2>4, <2>6 DEF PhaseCases
  <2>9. \A p \in Objs : PhaseOf(p) \notin {"active", "stopping"}
    BY <2>4 DEF PhaseCases, States, Deleted
  <2> QED
    BY <2>7, <2>8, <2>9, StepIs
<1> QED
  BY <1>1, <1>2

(* run(): the executor takes the ROSpec over, or no thread was made. *)
LEMMA RunExecutorMoves ==
    ASSUME Step, RunExecutor PROVE ServiceStep
<1> USE DEF Step
<1>1. /\ apc = "start" /\ starting' = NoSpec /\ xmsg' = starting
      /\ UNCHANGED <<obj, tspec, fault>>
      /\ starting # NoSpec
    BY DEF RunExecutor, localVars, SpecInv, ListOfLive
<1> PICK s \in Objs : s = starting
  BY <1>1 DEF TypeOK
<1>2. \A t \in Threads : ~ Server(t)
  BY <1>1 DEF SpecInv, OneWorker, Server, Worker, InUse
<1>3. \A p \in Objs : Served(p) <=> p = s
  BY <1>2 DEF ServedIs
<1>4. \A p \in Objs : Served(p)' <=> p = s /\ \E t \in Threads : Server(t)'
  BY <1>1, ConstantsAssumption DEF ServedIs, NoSpec
<1>5. CASE \E t \in Threads : Server(t)'
  BY <1>1, <1>3, <1>4, <1>5, PhasesKept, StepIs
<1>6. CASE ~ \E t \in Threads : Server(t)'
  <2>1. PhaseMap' = [PhaseMap EXCEPT ![s] = PhaseOf(s)']
    BY <1>1, <1>3, <1>4, <1>6, OneMoves
  <2>2. obj[s].st = "Active"
    BY <1>1 DEF SpecInv, ListOfLive
  <2>3. PhaseOf(s) = "active" /\ PhaseOf(s)' = "failed"
    BY <1>1, <1>3, <1>4, <1>6, <2>2 DEF PhaseCases
  <2> QED
    BY <2>1, <2>3, StepIs
<1> QED
  BY <1>5, <1>6

LEMMA AgentMoves ==
    ASSUME PatientClient, Step, AgentActions PROVE ServiceStep
<1> USE DEF Step
<1>1. CASE NewSession \/ ClientHangs \/ Hello
  BY <1>1, NothingMoves DEF NewSession, ClientHangs, Hello, agentVars, execVars, servedVars
<1>2. CASE RunExecutor
  BY <1>2, RunExecutorMoves
<1>3. CASE EndSession
  <2>a. ~ overtaken' /\ overtaken' = (overtaken \/ \E t \in Threads : owes[t])
    BY <1>3 DEF EndSession
  <2>0. \A t \in Threads : ~ owes[t]
    BY ONLY <2>a, Zenon
  <2>1. ClearList /\ UNCHANGED servedVars /\ apc = "sleep" /\ \A t \in Threads : ~ owes[t]
    BY <1>3, <2>0 DEF EndSession, execVars, servedVars
  <2>2. starting = NoSpec /\ \A t \in Threads : ~ Worker(t)
    BY <2>1 DEF SpecInv, ListOfLive, SleepOutlasts, Running, Worker
  <2> QED
    BY <2>1, <2>2, ClearMoves
<1>4. CASE CloseFailed
  <2>1. ClearList /\ UNCHANGED servedVars /\ apc = "failed"
    BY <1>4 DEF CloseFailed, execVars, servedVars
  <2>2. starting = NoSpec /\ \A t \in Threads : ~ Worker(t)
    BY <2>1 DEF SpecInv, ListOfLive, FailureStops
  <2> QED
    BY <2>1, <2>2, ClearMoves
<1>5. CASE RecvFails \/ TimeoutGivesUp
  BY <1>5, StopAllMoves DEF RecvFails, TimeoutGivesUp, execVars, servedVars
<1>6. CASE TimeoutKeepAlive \/ TimeoutFailed
  BY <1>6, NothingMoves DEF TimeoutKeepAlive, TimeoutFailed, execVars, servedVars
<1>7. CASE Message
  <2>1. CASE \E o \in Objs : AddRospec(o) \/ EnableRospec(o) \/ StartRospec(o) \/ StopRospec(o)
    BY <2>1, OneMessageMoves
  <2>2. CASE ConfigOpens \/ ConfigNoAntennas \/ ConfigRefused \/ KeepAliveAck
    BY <2>2, NothingMoves DEF ConfigOpens, ConfigNoAntennas, ConfigRefused, KeepAliveAck, execVars,
       servedVars
  <2>3. CASE KeepsAll
    BY <2>3, NothingMoves DEF KeepsAll, execVars, servedVars
  <2> QED
    BY <1>7, <2>1, <2>2, <2>3 DEF Message, GetReaderConfig, GetCapabilities, GetAccessSpecs,
       OtherMessage, AddRefused, EnableRefused, StartRefused, StopRefused
<1> QED
  BY <1>1, <1>2, <1>3, <1>4, <1>5, <1>6, <1>7 DEF AgentActions, AgentStep, Timeout

(* The executor's threads: the worker leaves its ROSpec when it has been   *)
(* stopped or a read has failed, and every other step shows nothing.       *)
LEMMA ThreadMoves ==
    ASSUME Step, NEW t \in Threads, Thread(t) PROVE ServiceStep
<1> USE DEF Step
<1>0. UNCHANGED <<starting, xmsg>> /\ t \in DOMAIN tpc
  BY DEF Thread, ThreadInit, ThreadBegin, ReadTags, ReadFails, Report, CheckStops, CheckGoesOn,
     RoundFailed, RoundStops, RoundAgain, ThreadEnd, ThreadExit, AgentSame, TypeOK
<1>a. \A l : Goes(t, l) => tpc'[t] = l /\ \A u \in Threads : u # t => tpc'[u] = tpc[u]
  BY <1>0 DEF Goes, TypeOK
<1>b. Server(t) => ~ \E u \in Threads : u # t /\ Worker(u)
  BY DEF SpecInv, OneWorker, Server, InUse, Worker
<1>1. ASSUME UNCHANGED obj, Server(t)' <=> Server(t),
             \A u \in Threads : u # t => (Server(u)' <=> Server(u))
      PROVE  ServiceStep
  <2>1. \A o \in Objs : Served(o)' <=> Served(o)
    BY <1>0, <1>1 DEF ServedIs
  <2> QED
    BY <1>1, <2>1, PhasesKept, StepIs
<1>2. ASSUME UNCHANGED obj, Server(t), ~ Server(t)',
             \A u \in Threads : u # t => tpc'[u] = tpc[u]
      PROVE  ServiceStep
  <2>1. /\ xmsg \in Objs /\ obj[xmsg].st \in {"Active", "Inactive"} /\ apc # "start"
        /\ \A u \in Threads : u # t => ~ Server(u)'
    <3>1. Worker(t)
      BY <1>2 DEF Server, InUse, Worker
    <3> QED
      BY <1>2, <1>b, <3>1 DEF SpecInv, OneWorker, TypeOK, Server, InUse, Worker
  <2> PICK x \in Objs : x = xmsg
    BY <2>1
  <2>2. starting = NoSpec
    BY <2>1 DEF SpecInv, ListOfLive
  <2>3. \A o \in Objs : ~ Served(o)'
    BY <1>0, <1>2, <2>1, <2>2, ConstantsAssumption DEF ServedIs, NoSpec
  <2>4. \A o \in Objs : Served(o) <=> o = x
    BY <1>2, <2>2, ConstantsAssumption DEF ServedIs, NoSpec
  <2>5. PhaseMap' = [PhaseMap EXCEPT ![x] = PhaseOf(x)']
    BY <1>2, <2>3, <2>4, OneMoves
  <2>6. CASE obj[x].st = "Active"
    <3>1. PhaseOf(x) = "active" /\ PhaseOf(x)' = "failed"
      BY <1>2, <2>3, <2>4, <2>6 DEF PhaseCases
    <3> QED
      BY <2>5, <3>1, StepIs
  <2>7. CASE obj[x].st = "Inactive"
    <3>1. PhaseOf(x) = "stopping" /\ PhaseOf(x)' = "inactive"
      BY <1>2, <2>3, <2>4, <2>7 DEF PhaseCases
    <3> QED
      BY <2>5, <3>1, StepIs
  <2> QED
    BY <2>1, <2>6, <2>7
<1>3. CASE ThreadInit(t)
  <2>1. tpc[t] = "init" /\ tpc'[t] = "begin" /\ UNCHANGED obj
    BY <1>3, <1>a DEF ThreadInit
  <2>2. Server(t) /\ Server(t)'
    BY <2>1 DEF Server, InUse
  <2>3. \A u \in Threads : u # t => ~ Worker(u) /\ tpc'[u] = tpc[u]
    BY <1>3, <1>a, <1>b, <2>2 DEF ThreadInit
  <2>4. \A u \in Threads : u # t => ~ Server(u) /\ ~ Server(u)'
    BY <2>3 DEF Server, InUse, Worker
  <2> QED
    BY <1>1, <2>1, <2>2, <2>4
<1>4. CASE ThreadBegin(t) \/ ReadTags(t) \/ Report(t) \/ CheckStops(t) \/ CheckGoesOn(t) \/ RoundAgain(t)
  <2>1. PICK l \in {"read", "report", "check", "round"} : Goes(t, l)
    BY <1>4 DEF ThreadBegin, ReadTags, Report, CheckStops, CheckGoesOn, RoundAgain
  <2>2. UNCHANGED <<obj, fault>> /\ ~ fault /\ Server(t)
    BY <1>4 DEF ThreadBegin, ReadTags, Report, CheckStops, CheckGoesOn, RoundAgain, SpecInv, Flags,
       Server, InUse
  <2>3. Server(t)' /\ \A u \in Threads : u # t => (Server(u)' <=> Server(u))
    BY <1>a, <2>1, <2>2 DEF Server, InUse
  <2> QED
    BY <1>1, <2>2, <2>3
<1>5. CASE ReadFails(t)
  <2>1. tpc[t] = "read" /\ Goes(t, "round") /\ UNCHANGED obj /\ fault'
    BY <1>5 DEF ReadFails
  <2>2. Server(t) /\ ~ Server(t)'
    BY <1>a, <2>1 DEF Server, InUse
  <2> QED
    BY <1>2, <1>a, <2>1, <2>2
<1>6. CASE RoundStops(t)
  <2>1. tpc[t] = "round" /\ Goes(t, "end") /\ ~ fault /\ tstop[t]
    BY <1>6 DEF RoundStops
  <2>2. Server(t) /\ ~ Server(t)'
    BY <1>a, <2>1 DEF Server, InUse
  <2>3. obj' = obj
    <3>1. tspec[t] \in Objs /\ obj[tspec[t]].st = "Inactive"
      BY <2>1 DEF SpecInv, Flags, OneWorker, Worker, SpecOf, TypeOK
    <3>2. obj' = [obj EXCEPT ![tspec[t]].st = "Inactive"]
      BY <1>6, <3>1 DEF RoundStops, Deleted
    <3>3. obj[tspec[t]] \in ObjType /\ obj \in [Objs -> ObjType]
      BY <3>1 DEF TypeOK, ObjType
    <3>4. [obj[tspec[t]] EXCEPT !.st = "Inactive"] = obj[tspec[t]]
      BY <3>1, <3>3 DEF ObjType
    <3> QED
      BY <3>2, <3>3, <3>4
  <2> QED
    BY <1>2, <1>a, <2>1, <2>2, <2>3
<1>7. CASE RoundFailed(t) \/ ThreadEnd(t) \/ ThreadExit(t)
  <2>1. PICK l \in {"exit", "none"} : Goes(t, l)
    BY <1>7 DEF RoundFailed, ThreadEnd, ThreadExit
  <2>2. UNCHANGED <<obj, fault>> /\ ~ Server(t)
    BY <1>7 DEF RoundFailed, ThreadEnd, ThreadExit, Server, InUse
  <2>3. ~ Server(t)' /\ \A u \in Threads : u # t => (Server(u)' <=> Server(u))
    BY <1>a, <2>1, <2>2 DEF Server, InUse
  <2> QED
    BY <1>1, <2>2, <2>3
<1> QED
  BY <1>3, <1>4, <1>5, <1>6, <1>7 DEF Thread

(* The agent, the message processor and the executor's threads implement   *)
(* the life of a ROSpec as RospecService promises it, but for liveness:    *)
(* a ROSpec starts only while no other runs, is never seen to run after it *)
(* was deleted, and what is removed at the end of a session is at rest,    *)
(* until the agent's sleep is over before a thread's round: the service    *)
(* then counts as broken and promises nothing more.                        *)
THEOREM AgentImplementsService ==
    PatientClient => (Spec => Service!Init /\ [][Service!Next]_<<PhaseMap, overtaken>>)
<1> SUFFICES ASSUME PatientClient
             PROVE  Spec => Service!Init /\ [][Service!Next]_<<PhaseMap, overtaken>>
  OBVIOUS
<1>1. Init => Service!Init
  <2> SUFFICES ASSUME Init PROVE PhaseMap = [o \in Objs |-> "none"] /\ overtaken = FALSE
    BY DEF Service!Init, PhaseMap
  <2>1. \A o \in Objs : PhaseOf(o) = "none"
    <3>1. \A o \in Objs : obj[o].st = "none"
      BY DEF Init, NewObj
    <3> QED
      BY <3>1, TypesInit, PhaseCasesHold DEF PhaseCases
  <2> QED
    BY <2>1 DEF PhaseMap, Init
<1>2. /\ TypeOK /\ LastsOrInv /\ TypeOK' /\ LastsOrInv' /\ [Next]_vars
      => [Service!Next]_<<PhaseMap, overtaken>>
  <2> SUFFICES ASSUME TypeOK, LastsOrInv, TypeOK', LastsOrInv', [Next]_vars PROVE ServiceStep
    BY DEF ServiceStep
  <2>0. CASE overtaken'
    BY <2>0 DEF ServiceStep, Service!Next
  <2>1. CASE ~ overtaken'
    <3>0. ~ overtaken /\ overtaken' = overtaken
      BY <2>1, OvertakenStays DEF TypeOK
    <3>1. Step
      BY <2>1, <3>0, PhaseCasesHold, PhaseCasesNext, ServedBy, ServedByNext DEF Step, LastsOrInv
    <3>2. CASE AgentActions
      BY <3>1, <3>2, AgentMoves
    <3>3. CASE \E t \in Threads : Thread(t)
      BY <3>1, <3>3, ThreadMoves
    <3>4. CASE UNCHANGED vars
      BY <3>1, <3>4, NothingMoves DEF vars, agentVars, execVars, servedVars
    <3> QED
      BY <3>2, <3>3, <3>4 DEF Next, AgentActions
  <2> QED
    BY <2>0, <2>1
<1> QED
  BY <1>1, <1>2, SpecInvariant, PTL DEF Spec
=============================================================================
