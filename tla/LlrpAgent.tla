----------------------------- MODULE LlrpAgent -----------------------------
(***************************************************************************)
(* One LLRP agent (llrp_MntAgent.cpp) with its message processor           *)
(* (llrp_MsgProcessor.cpp), its single ROSpec executor object              *)
(* (llrp_ROSpecExecutor.cpp) and the handle table of the reader API        *)
(* (iReaderapi.cpp), over several sessions.                                *)
(*                                                                         *)
(* The agent thread and every thread started on the executor object run    *)
(* concurrently.  An ADD_ROSPEC message is an object that lives until the  *)
(* agent deletes it; the executor keeps a plain pointer to it.  Which      *)
(* frames arrive is chosen freely; their bytes are the business of the     *)
(* module LtkFrame.  Before the agent deletes the messages at the end of a *)
(* session it sleeps (500 or 1000 ms); whether the threads are at the end  *)
(* of their round by then depends on the serial line, on which one read    *)
(* may take seconds, so a round may be overtaken by the deletion.          *)
(*                                                                         *)
(* Kernels says what select(-1, ...) does: Linux refuses it with EINVAL,   *)
(* winsock ignores the argument.  Openers says whether the daemon's main   *)
(* program has opened the reader before (llrp.cpp does).                   *)
(***************************************************************************)
EXTENDS Integers, Sequences, SequencesExt, FiniteSetsExt

CONSTANTS
    Threads,      \* pthreads that run() may create on the executor object
    Objs,         \* ADD_ROSPEC messages the client sends: numbers, 0 is NULL
    AntCount,     \* antennas GetAntList reports
    Kernels,      \* subset of {"linux", "winsock"}
    Openers,      \* subset of BOOLEAN: reader opened by the main program?
    MaxUnanswered,  \* keepalives that may stay unanswered: 2 in the code
    MaxSessions,  \* bound: sessions
    MinAcks,      \* bound: KEEPALIVE_ACKs nobody asked for
    Triggers,     \* stop triggers of the ROSpecs: "null", "other"
    Modes,        \* their antennas: "all" (ID 0) or "listed"
    Patient       \* the client runs one ROSpec at a time, waits for its End
                  \* events, and wants none on a reader without antennas

ASSUME ConstantsAssumption ==
    /\ Objs \subseteq Nat \ {0} /\ AntCount \in Nat \ {0}
    /\ Kernels \subseteq {"linux", "winsock"} /\ Openers \subseteq BOOLEAN
    /\ MaxUnanswered \in Nat /\ MaxSessions \in Nat /\ MinAcks \in Nat
    /\ Triggers \subseteq {"null", "other"} /\ Modes \subseteq {"all", "listed"}
    /\ Patient \in BOOLEAN

VARIABLES
    kernel,      \* the kernel below select()
    reader,      \* the IReader singleton: "none", "live" or "deleted"
    slot,        \* TRUE when the one entry of iReaderHandle[] is in use
    apc,         \* where the agent thread is
    starting,    \* the ROSpec startROSpec has set active, before it runs it
    handle,      \* iReaderHandle # 0
    antCount,    \* m_antCount
    list,        \* m_list_ADD_ROSPEC
    obj,         \* the messages: state of their ROSpec, antennas, stop trigger
    unanswered,  \* iKeepAliveSendCount
    failed,      \* m_biReaderIsFailed
    silent,      \* the client never sends again
    sessions,    \* sessions so far
    xmsg,        \* m_pCMessage of the executor, 0 before it exists
    fault,       \* m_bIReaderFault
    idle,        \* the executor's idle flag
    tpc,         \* where each executor thread is
    tspec,       \* pROSpec, local to main()
    tant,        \* i, the antenna index
    tstop,       \* bStopTrigger
    owes,        \* (history) this thread is in the round it was in when the
                 \* agent stopped every ROSpec
    overtaken,   \* (history) the ROSpecs were deleted before such a round ended
    awaited      \* End events the client still waits for

agentVars  == <<apc, starting, handle, antCount, list, unanswered, failed>>
readerVars == <<reader, slot>>
clientVars == <<silent, sessions>>
localVars  == <<tspec, tant, tstop>>
execVars   == <<xmsg, fault, idle, tpc, tspec, tant, tstop>>
roundVars  == <<owes, overtaken>>
vars == <<kernel, readerVars, agentVars, obj, clientVars, execVars, roundVars, awaited>>

States   == {"Disabled", "Inactive", "Active"}
NoSpec   == 0
Deleted  == "deleted"
Running(t) == tpc[t] # "none"

\* The object the pointer of the list leads to, first with that ROSpecID.
\* ROSpec IDs are those of the messages: a client that adds an ID twice
\* never reaches the second one.
InList(o) == \E i \in DOMAIN list : list[i] = o

TypeOK ==
    /\ kernel \in {"linux", "winsock"}
    /\ reader \in {"none", "live", "deleted"} /\ slot \in BOOLEAN
    /\ apc \in {"pool", "hello", "recv", "start", "failed", "sleep"}
    /\ starting \in Objs \union {NoSpec}
    /\ handle \in BOOLEAN /\ failed \in BOOLEAN /\ silent \in BOOLEAN
    /\ antCount \in {0, AntCount}
    /\ list \in Seq(Objs)
    /\ obj \in [Objs -> [st   : States \union {"none", Deleted},
                         ants : {"all", "listed"}, trig : {"null", "other"}]]
    /\ unanswered \in -MinAcks .. MaxUnanswered + 1
    /\ sessions \in 0 .. MaxSessions
    /\ xmsg \in Objs \union {NoSpec} /\ fault \in BOOLEAN /\ idle \in BOOLEAN
    /\ tpc \in [Threads -> {"none", "init", "begin", "read", "report", "check",
                            "round", "end", "exit"}]
    /\ tspec \in [Threads -> Objs \union {NoSpec}]
    /\ tant \in [Threads -> 0 .. AntCount]
    /\ tstop \in [Threads -> BOOLEAN]
    /\ owes \in [Threads -> BOOLEAN] /\ overtaken \in BOOLEAN
    /\ awaited \in 0 .. 2

NewObj == [st |-> "none", ants |-> "all", trig |-> "null"]

Init ==
    /\ kernel \in Kernels
    /\ \E opened \in Openers :
          /\ slot = opened
          /\ reader = IF opened THEN "live" ELSE "none"
    /\ apc = "pool" /\ starting = NoSpec /\ handle = FALSE /\ antCount = 0
    /\ list = << >> /\ obj = [o \in Objs |-> NewObj]
    /\ unanswered = 0 /\ failed = FALSE
    /\ silent = FALSE /\ sessions = 0
    /\ xmsg = NoSpec /\ fault = FALSE /\ idle = FALSE
    /\ tpc = [t \in Threads |-> "none"] /\ tspec = [t \in Threads |-> NoSpec]
    /\ tant = [t \in Threads |-> 0] /\ tstop = [t \in Threads |-> FALSE]
    /\ owes = [t \in Threads |-> FALSE] /\ overtaken = FALSE /\ awaited = 0
-----------------------------------------------------------------------------
(* The reader API's handle table. *)

\* IReaderApiInit with the table free: getInstance() makes the singleton or
\* returns the pointer of one that was deleted (spInstance is never reset).
InitTakesSlot ==
    /\ ~ slot
    /\ slot' = TRUE
    /\ reader' = IF reader = "none" THEN "live" ELSE reader

\* With the table full it deletes the singleton and returns NULL.
InitDeletes ==
    /\ slot
    /\ reader' = "deleted"
    /\ UNCHANGED slot

\* IReaderApiClose: an entry that matches is emptied and the object deleted.
ApiClose ==
    IF slot /\ handle THEN slot' = FALSE /\ reader' = "deleted"
                      ELSE UNCHANGED readerVars
-----------------------------------------------------------------------------
(* Sessions. *)

\* The server hands the agent a connection: setConnection, setRunning, run.
NewSession ==
    /\ apc = "pool" /\ sessions < MaxSessions
    /\ sessions' = sessions + 1
    /\ apc' = "hello" /\ handle' = FALSE /\ antCount' = 0
    /\ unanswered' = 0 /\ failed' = FALSE
    /\ silent' = FALSE /\ awaited' = 0
    /\ UNCHANGED <<kernel, readerVars, starting, list, obj, execVars, roundVars>>

\* sendReaderEventNotification: the connection event opens the session.
Hello ==
    /\ apc = "hello"
    /\ apc' = "recv"
    /\ UNCHANGED <<kernel, readerVars, starting, handle, antCount, list, unanswered,
                   failed, obj, clientVars, execVars, roundVars, awaited>>

ClientHangs ==
    /\ apc = "recv" /\ ~ silent
    /\ silent' = TRUE
    /\ UNCHANGED <<kernel, readerVars, agentVars, obj, sessions, execVars, roundVars, awaited>>

\* stopAllROSpec: every ROSpec, the disabled ones too, becomes inactive.
\* The sleep that follows is meant for the threads to end their round.
StopAll ==
    /\ obj' = [o \in Objs |-> IF InList(o) THEN [obj[o] EXCEPT !.st = "Inactive"] ELSE obj[o]]
    /\ owes' = [t \in Threads |-> Running(t)] /\ UNCHANGED overtaken
    /\ apc' = "sleep"

\* clearList_ADD_ROSPEC: the messages are deleted.
ClearList ==
    /\ list' = << >>
    /\ obj' = [o \in Objs |-> IF InList(o) THEN [obj[o] EXCEPT !.st = Deleted] ELSE obj[o]]

\* Mutant of EndSession: it does not sleep.
EndSessionAtOnce ==
    /\ apc = "sleep"
    /\ ClearList
    /\ handle' = FALSE /\ apc' = "pool"
    /\ UNCHANGED <<kernel, readerVars, starting, antCount, unanswered, failed,
                   clientVars, execVars, roundVars, awaited>>

\* After the sleep the list is cleared, whatever the threads are at, the socket
\* closed and the agent goes back to the pool; the reader stays open.
EndSession ==
    /\ apc = "sleep"
    /\ ClearList
    /\ handle' = FALSE /\ apc' = "pool"
    /\ overtaken' = (overtaken \/ \E t \in Threads : owes[t])
    /\ owes' = [t \in Threads |-> FALSE]
    /\ UNCHANGED <<kernel, readerVars, starting, antCount, unanswered, failed,
                   clientVars, execVars, awaited>>
-----------------------------------------------------------------------------
(* recvAdvance and what socketDeliver makes of its result. *)

CanWait == kernel = "winsock"       \* select(-1, ...) waits at all

\* select refused, recv failed, end of file, or a frame that is no message.
RecvFails ==
    /\ apc = "recv"
    /\ CanWait => ~ silent
    /\ StopAll
    /\ UNCHANGED <<kernel, readerVars, starting, handle, antCount, list, unanswered, failed,
                   clientVars, execVars, awaited>>

\* Mutants of TimeoutKeepAlive: it forgets to count, or counts once more.
KeepAliveUncounted ==
    /\ apc = "recv" /\ CanWait /\ ~ failed
    /\ unanswered <= MaxUnanswered
    /\ UNCHANGED vars

KeepAliveOnceMore ==
    /\ apc = "recv" /\ CanWait /\ ~ failed
    /\ unanswered <= MaxUnanswered + 1
    /\ unanswered' = unanswered + 1
    /\ UNCHANGED <<kernel, readerVars, apc, starting, handle, antCount, list, failed,
                   obj, clientVars, execVars, roundVars, awaited>>

TimeoutKeepAlive ==
    /\ apc = "recv" /\ CanWait /\ ~ failed
    /\ unanswered <= MaxUnanswered
    /\ unanswered' = unanswered + 1
    /\ UNCHANGED <<kernel, readerVars, apc, starting, handle, antCount, list, failed,
                   obj, clientVars, execVars, roundVars, awaited>>

TimeoutGivesUp ==
    /\ apc = "recv" /\ CanWait /\ ~ failed
    /\ unanswered > MaxUnanswered
    /\ StopAll
    /\ UNCHANGED <<kernel, readerVars, starting, handle, antCount, list, unanswered, failed,
                   clientVars, execVars, awaited>>

\* The failure of the reader is told to the client ...
TimeoutFailed ==
    /\ apc = "recv" /\ CanWait /\ failed
    /\ apc' = "failed"
    /\ UNCHANGED <<kernel, readerVars, starting, handle, antCount, list, unanswered, failed,
                   obj, clientVars, execVars, roundVars, awaited>>

\* Mutant of CloseFailed: setRunning without m_biReaderIsFailed.
CloseKeepsFailed ==
    /\ apc = "failed"
    /\ ApiClose
    /\ ClearList
    /\ handle' = FALSE /\ apc' = "recv" /\ awaited' = 0
    /\ UNCHANGED <<kernel, starting, antCount, unanswered, failed, clientVars,
                   execVars, roundVars>>

\* ... then the reader is closed and the ROSpecs are deleted, without a sleep.
CloseFailed ==
    /\ apc = "failed"
    /\ ApiClose
    /\ ClearList
    /\ handle' = FALSE /\ failed' = FALSE /\ apc' = "recv" /\ awaited' = 0
    /\ UNCHANGED <<kernel, starting, antCount, unanswered, clientVars,
                   execVars, roundVars>>

Timeout == TimeoutKeepAlive \/ TimeoutGivesUp \/ TimeoutFailed
-----------------------------------------------------------------------------
(* LLRP_MsgProcessor::processMessage, one action for each kind of message  *)
(* and outcome; each ends with the response, but for the three that get    *)
(* none: KEEPALIVE_ACK, GET_REPORT and the types it does not know.         *)

\* recvAdvance with a whole frame that decodes.
Receives ==
    /\ apc = "recv" /\ CanWait /\ ~ silent
    /\ UNCHANGED <<kernel, silent, sessions, roundVars, failed>>

KeepsAll == UNCHANGED <<readerVars, apc, starting, handle, antCount, list, unanswered,
                        obj, execVars, awaited>>

\* Answered, and nothing kept.
GetReaderConfig == Receives /\ KeepsAll
GetCapabilities == Receives /\ KeepsAll
GetAccessSpecs  == Receives /\ KeepsAll

\* What SET_READER_CONFIG without the reader's address, GET_ROSPECS and
\* GET_REPORT do is the business of LlrpReports; a type the processor does
\* not know (DELETE_ROSPEC, DISABLE_ROSPEC, CLOSE_CONNECTION, ...) is logged.
OtherMessage == Receives /\ KeepsAll

\* Refused: no reader, no such ROSpec or not in the state asked for.  STOP is
\* answered "success" all the same.
AddRefused       == Receives /\ ~ handle /\ KeepsAll
EnableRefused(o) == Receives /\ (InList(o) => obj[o].st # "Disabled") /\ KeepsAll
StartRefused(o)  == Receives /\ (InList(o) => obj[o].st # "Inactive") /\ KeepsAll
StopRefused(o)   == Receives /\ (InList(o) => obj[o].st # "Active") /\ KeepsAll

\* SET_READER_CONFIG with the reader's address: initialize().
ConfigOpens ==
    /\ Receives /\ ~ handle
    /\ InitTakesSlot
    /\ handle' = TRUE /\ antCount' = AntCount
    /\ UNCHANGED <<apc, starting, list, unanswered, obj, execVars, awaited>>

\* The antenna list cannot be read: the reader is closed, the handle stays
\* set, and as the result is not -1 the client is told "Success.".
ConfigNoAntennas ==
    /\ Receives /\ ~ handle /\ ~ slot
    /\ reader' = "deleted"
    /\ handle' = TRUE
    /\ UNCHANGED <<slot, apc, starting, antCount, list, unanswered, obj, execVars, awaited>>

\* The table is full: refused, and the singleton is gone.
ConfigRefused ==
    /\ Receives /\ ~ handle
    /\ InitDeletes
    /\ UNCHANGED <<apc, starting, handle, antCount, list, unanswered, obj, execVars, awaited>>

KeepAliveAck ==
    /\ Receives /\ unanswered > -MinAcks
    /\ unanswered' = unanswered - 1
    /\ UNCHANGED <<readerVars, apc, starting, handle, antCount, list, obj, execVars, awaited>>

\* addROSpecToList: refused without a reader.
AddRospec(o) ==
    /\ Receives /\ handle
    /\ obj[o].st = "none"
    /\ \E m \in Modes, tr \in Triggers :
          obj' = [obj EXCEPT ![o] = [st |-> "Disabled", ants |-> m, trig |-> tr]]
    /\ list' = Append(list, o)
    /\ UNCHANGED <<readerVars, apc, starting, handle, antCount, unanswered, execVars, awaited>>

EnableRospec(o) ==
    /\ Receives /\ InList(o) /\ obj[o].st = "Disabled"
    /\ obj' = [obj EXCEPT ![o].st = "Inactive"]
    /\ UNCHANGED <<readerVars, apc, starting, handle, antCount, list, unanswered, execVars,
                   awaited>>

\* The executor notifies End once, and for listed antennas once more.
EndEvents(o) == IF obj[o].ants = "all" THEN 1 ELSE 2

\* startROSpec: the ROSpec is set active ...
StartRospec(o) ==
    /\ Receives /\ InList(o) /\ obj[o].st = "Inactive"
    /\ Patient => awaited = 0 /\ antCount > 0
    /\ obj' = [obj EXCEPT ![o].st = "Active"]
    /\ starting' = o /\ apc' = "start" /\ awaited' = EndEvents(o)
    /\ UNCHANGED <<readerVars, handle, antCount, list, unanswered, execVars>>

\* ... and the one executor object is pointed at it and run, whether or not
\* a thread of it still runs.  run() tells nobody when no thread was made.
RunExecutor ==
    /\ apc = "start"
    /\ xmsg' = starting /\ idle' = FALSE
    /\ \/ UNCHANGED tpc
       \/ \E t \in Threads : /\ ~ Running(t)
                            /\ tpc' = [tpc EXCEPT ![t] = "init"]
    /\ starting' = NoSpec /\ apc' = "recv"
    /\ UNCHANGED <<kernel, readerVars, handle, antCount, list, unanswered, failed,
                   obj, clientVars, fault, localVars, roundVars, awaited>>

\* stopROSpec; the answer is "success" whatever it returns.
StopRospec(o) ==
    /\ Receives /\ InList(o) /\ obj[o].st = "Active"
    /\ obj' = [obj EXCEPT ![o].st = "Inactive"]
    /\ UNCHANGED <<readerVars, apc, starting, handle, antCount, list, unanswered, execVars,
                   awaited>>

Message ==
    \/ ConfigOpens \/ ConfigNoAntennas \/ ConfigRefused \/ KeepAliveAck
    \/ GetReaderConfig \/ GetCapabilities \/ GetAccessSpecs \/ OtherMessage
    \/ AddRefused
    \/ \E o \in Objs :
          \/ AddRospec(o) \/ EnableRospec(o) \/ StartRospec(o) \/ StopRospec(o)
          \/ EnableRefused(o) \/ StartRefused(o) \/ StopRefused(o)
-----------------------------------------------------------------------------
(* LLRP_ROSpecExecutor::main, for each thread run on the object. *)

AgentSame == UNCHANGED <<kernel, readerVars, apc, starting, handle, antCount, list, unanswered,
                         clientVars, xmsg>>

Goes(t, to) == tpc' = [tpc EXCEPT ![t] = to]

\* initialize(), and the ROSpec is taken from m_pCMessage.
ThreadInit(t) ==
    /\ tpc[t] = "init" /\ Goes(t, "begin")
    /\ fault' = FALSE
    /\ tspec' = [tspec EXCEPT ![t] = xmsg]
    /\ AgentSame /\ UNCHANGED <<failed, obj, idle, tant, tstop, roundVars, awaited>>

\* sleep(2) and the Start notification.
ThreadBegin(t) ==
    /\ tpc[t] = "begin" /\ Goes(t, "read")
    /\ AgentSame
    /\ UNCHANGED <<failed, obj, fault, idle, tspec, tant, tstop, roundVars, awaited>>

Antennas(t) == IF obj[tspec[t]].ants = "all" THEN antCount ELSE AntCount

\* The antennas are read one after the other.  With none the loop turns
\* without a read and without a look at the stop trigger: no step here.
ReadTags(t) ==
    /\ tpc[t] = "read" /\ tant[t] < Antennas(t)
    /\ handle /\ slot
    /\ Goes(t, "report")
    /\ AgentSame
    /\ UNCHANGED <<failed, obj, fault, idle, tspec, tant, tstop, roundVars, awaited>>

ReadFails(t) ==
    /\ tpc[t] = "read" /\ tant[t] < Antennas(t)
    /\ fault' = TRUE
    /\ Goes(t, "round")
    /\ AgentSame
    /\ UNCHANGED <<failed, obj, idle, tspec, tant, tstop, roundVars, awaited>>

\* updateTagsArray and sendTagsReport, which looks at m_pCMessage again.
Report(t) ==
    /\ tpc[t] = "report" /\ Goes(t, "check")
    /\ AgentSame
    /\ UNCHANGED <<failed, obj, fault, idle, tspec, tant, tstop, roundVars, awaited>>

\* Mutant of MustStop: the state of the ROSpec is not asked for.
MustStopNever(t) == obj[tspec[t]].trig # "null" /\ obj[tspec[t]].st # "Active"

MustStop(t) == /\ obj[tspec[t]].trig = "null"
               /\ obj[tspec[t]].st # "Active"

\* The stop trigger read from a ROSpec that was deleted may say either.
Freed(t) == obj[tspec[t]].st = Deleted

OneLess(n) == IF n > 0 THEN n - 1 ELSE 0

\* Mutant of CheckStops: every kind of ROSpec notifies the end here too.
CheckStopsNotifies(t) ==
    /\ tpc[t] = "check" /\ (MustStop(t) \/ Freed(t))
    /\ tstop' = [tstop EXCEPT ![t] = TRUE]
    /\ awaited' = OneLess(awaited)
    /\ Goes(t, "round")
    /\ AgentSame /\ UNCHANGED <<failed, obj, fault, idle, tspec, tant, roundVars>>

\* The stop trigger ends the round; listed antennas notify the end here too.
CheckStops(t) ==
    /\ tpc[t] = "check" /\ (MustStop(t) \/ Freed(t))
    /\ tstop' = [tstop EXCEPT ![t] = TRUE]
    /\ awaited' = IF obj[tspec[t]].ants = "listed" THEN OneLess(awaited) ELSE awaited
    /\ Goes(t, "round")
    /\ AgentSame /\ UNCHANGED <<failed, obj, fault, idle, tspec, tant, roundVars>>

CheckGoesOn(t) ==
    /\ tpc[t] = "check" /\ (~ MustStop(t) \/ Freed(t))
    /\ tant' = [tant EXCEPT ![t] = @ + 1]
    /\ Goes(t, IF tant[t] + 1 < Antennas(t) THEN "read" ELSE "round")
    /\ owes' = [owes EXCEPT ![t] = FALSE]
    /\ AgentSame /\ UNCHANGED <<failed, obj, fault, idle, tspec, tstop, overtaken, awaited>>

\* After a round: a failure is flagged to the agent and the thread exits, ...
RoundFailed(t) ==
    /\ tpc[t] = "round" /\ fault
    /\ failed' = TRUE
    /\ Goes(t, "exit")
    /\ AgentSame /\ UNCHANGED <<obj, fault, idle, tspec, tant, tstop, roundVars, awaited>>

\* ... a stop makes the ROSpec inactive (once more), ...
RoundStops(t) ==
    /\ tpc[t] = "round" /\ ~ fault /\ tstop[t]
    /\ obj' = [obj EXCEPT ![tspec[t]].st = IF @ = Deleted THEN @ ELSE "Inactive"]
    /\ Goes(t, "end")
    /\ AgentSame /\ UNCHANGED <<failed, fault, idle, tspec, tant, tstop, roundVars, awaited>>

\* ... otherwise the next round begins.
RoundAgain(t) ==
    /\ tpc[t] = "round" /\ ~ fault /\ ~ tstop[t]
    /\ tant' = [tant EXCEPT ![t] = 0]
    /\ Goes(t, "read")
    /\ AgentSame /\ UNCHANGED <<failed, obj, fault, idle, tspec, tstop, roundVars, awaited>>

ThreadEnd(t) ==
    /\ tpc[t] = "end" /\ Goes(t, "exit")
    /\ awaited' = OneLess(awaited)
    /\ AgentSame /\ UNCHANGED <<failed, obj, fault, idle, tspec, tant, tstop, roundVars>>

ThreadExit(t) ==
    /\ tpc[t] = "exit" /\ Goes(t, "none")
    /\ idle' = TRUE
    /\ tspec' = [tspec EXCEPT ![t] = NoSpec]
    /\ tant' = [tant EXCEPT ![t] = 0] /\ tstop' = [tstop EXCEPT ![t] = FALSE]
    /\ owes' = [owes EXCEPT ![t] = FALSE]
    /\ AgentSame /\ UNCHANGED <<failed, obj, fault, overtaken, awaited>>

Thread(t) ==
    \/ ThreadInit(t) \/ ThreadBegin(t) \/ ReadTags(t) \/ ReadFails(t) \/ Report(t)
    \/ CheckStops(t) \/ CheckGoesOn(t)
    \/ RoundFailed(t) \/ RoundStops(t) \/ RoundAgain(t) \/ ThreadEnd(t) \/ ThreadExit(t)
-----------------------------------------------------------------------------
AgentStep == Hello \/ RunExecutor \/ EndSession \/ CloseFailed

Next ==
    \/ NewSession \/ ClientHangs \/ AgentStep
    \/ RecvFails \/ Timeout \/ Message
    \/ \E t \in Threads : Thread(t)

(***************************************************************************)
(* Threads run; so does the agent, and on Linux its refused select.  A     *)
(* read may take long, but it ends, as long as the serial port is there    *)
(* (CallEnds of ReaderApi).  A client that is never quiet for a second     *)
(* keeps the agent from its timeout (it only looks at the failure flag     *)
(* then): the client pauses again and again.                               *)
(***************************************************************************)
Fairness ==
    /\ WF_vars(AgentStep)
    /\ WF_vars(~ CanWait /\ RecvFails)
    /\ SF_vars(Timeout)
    /\ \A t \in Threads : WF_vars(Thread(t))

Spec == Init /\ [][Next]_vars /\ Fairness
-----------------------------------------------------------------------------
(* Properties. *)

InUse(t) == \/ tpc[t] \in {"begin", "read", "report", "check"}
            \/ tpc[t] = "round" /\ ~ fault

\* The agent deletes the ROSpecs after a sleep (or, when the reader failed,
\* at once) and the executor keeps a pointer to the message: no thread uses
\* a ROSpec that was deleted, and none reads with the handle set to 0, unless
\* such a sleep was over before the round that a thread was in.
ExecutorPointersLive ==
    ~ overtaken =>
        \A t \in Threads :
            /\ InUse(t) => obj[tspec[t]].st # Deleted
            /\ tpc[t] \in {"init", "report"} => obj[xmsg].st # Deleted
            /\ tpc[t] = "read" => handle

\* The threads share the fault flag, the ROSpec ID and the tag table of the
\* one executor object: at most one of them is in an inventory, in the next
\* session too, unless a sleep was over before a thread's round.
OneInventory ==
    ~ overtaken =>
        \A t, u \in Threads :
            t # u => ~ (tpc[t] = "init" \/ InUse(t)) \/ ~ (tpc[u] = "init" \/ InUse(u))

\* "to make sure executor has exit before clearling and deleting all the ROSPEC"
\* is what the agent sleeps for (llrp_MntAgent.cpp:228 and :315): no ROSpec is
\* deleted while a thread reads an antenna for it.
ExecutorHasExit ==
    [][\A t \in Threads : tpc[t] = "read" /\ ~ Freed(t) => ~ Freed(t)']_vars

\* A client that hangs is given up after three unanswered keepalives,
\* whatever the executor does: the agent returns to the pool.  Nothing is
\* promised once a thread went on with a ROSpec that was deleted.
SilentDropped == silent ~> apc = "pool" \/ overtaken

\* A failure that the executor flags is told to the client, or the session
\* ends.
FailureTold == failed ~> ~ failed \/ apc = "pool" \/ overtaken

Serves(t, o) == \/ tpc[t] = "init" /\ xmsg = o
                \/ InUse(t) /\ tspec[t] = o

PhaseOf(o) ==
    LET served == starting = o \/ \E t \in Threads : Serves(t, o)
    IN  CASE obj[o].st = "none"     -> "none"
          [] obj[o].st = Deleted    -> "gone"
          [] obj[o].st = "Disabled" -> "disabled"
          [] obj[o].st = "Active"   -> IF served THEN "active" ELSE "failed"
          [] obj[o].st = "Inactive" -> IF served THEN "stopping" ELSE "inactive"

Service == INSTANCE RospecService WITH
    phase <- [o \in Objs |-> PhaseOf(o)], broken <- overtaken

\* The agent, the message processor and the executor threads together keep
\* the life of a ROSpec as the client sees it: a started ROSpec stays active
\* until it is stopped or the reader fails, a stop is completed, and nothing
\* that runs is removed, as long as the sleep before the ROSpecs are deleted
\* outlasts the rounds of the threads.
RospecLife == Service!Spec
=============================================================================
