----------------------------- MODULE ReaderApi -----------------------------
(***************************************************************************)
(* The reader API (iReaderapi.cpp): the only way to the antenna            *)
(* multiplexer and to the RFID reader, which share one serial line.  A     *)
(* GPIO pin says which of the two the line goes to.  Every call takes      *)
(* m_hMutex, runs a fixed program of module selections and commands, and   *)
(* gives the mutex; IF_ERROR_RETURN breaks the program off at the first    *)
(* error.  A command is sent up to three times.                            *)
(*                                                                         *)
(* The devices answer, or a command or its answer is lost.  With Late they *)
(* may also answer after the line's timeout.  The serial port may go away  *)
(* for good; then every read() returns -1.                                 *)
(***************************************************************************)
EXTENDS Integers, Sequences

CONSTANTS
    Tasks,                 \* executor, agents, ROSpec executor, CLI
    Ants,                  \* antennas; each has a power of its own
    None,                  \* no antenna
    Free,                  \* the mutex has no owner
    SlaveStatuses,         \* status bytes of the multiplexer's slaves, 0 is good
    MAX_TAGS_PER_ANTENNA,
    Late                   \* whether the devices may answer after the timeout

ASSUME ReaderAssumption ==
    /\ Free \notin Tasks
    /\ None \notin Ants
    /\ SlaveStatuses \subseteq 0 .. 255 /\ 0 \in SlaveStatuses
    /\ MAX_TAGS_PER_ANTENNA \in Nat \ {0}
    /\ Late \in BOOLEAN

(* Mutant of ReadTagsMetaDataRSSI: the line is not put back to the reader. *)
ReadTagsOnMux == <<"MUX", "antport", "power", "inventory", "fetch">>

(* The programs of the calls that the daemon makes; TempProtectSet has the *)
(* shape of EquipTempGet.                                                  *)
ReadTagsMetaDataRSSI == <<"MUX", "antport", "READER", "power", "inventory", "fetch">>
GetAntList == <<"MUX", "antmap", "READER">>
SyncChannel == <<"MUX", "rescan", "READER">>
EquipTempGet == <<"READER", "temp">>

Programs == {ReadTagsMetaDataRSSI, GetAntList, SyncChannel, EquipTempGet}
Modules == {"MUX", "READER"}
MuxCommands == {"antport", "antmap", "rescan"}
ReaderCommands == {"power", "inventory", "fetch", "temp"}
DeviceOf(cmd) == IF cmd \in MuxCommands THEN "MUX" ELSE "READER"

(* iReadererror.h, muxerror.h *)
SUCCESS == 0
NOT_INTIALIZED == 1
HANDLE_INVALID == 2
TIMEOUT_1 == 4
INVALID == 6
COMMAND_FAIL == 9
SLAVE_NO_RESPONSE == 10
SET_POWER_FAIL == 14
SOCKET_ERROR == -1
JUMBO_DATA_LEN == 255
ErrorCodes == 0 .. 255 \cup {SOCKET_ERROR}

VARIABLES
    hMutex,     \* IReader::m_hMutex
    task,       \* what each task does
    module,     \* where the GPIO pin points
    rx,         \* answers in the host's receive buffer
    muxq, readerq, \* commands the devices have not yet handled
    ant,        \* the antenna the multiplexer has switched to
    power,      \* the antenna whose power the reader has
    stored,     \* the reader's tag buffer: how many, and read how
    port        \* the serial port: open, or gone

deviceVars == <<muxq, readerq, ant, power, stored, port>>
vars == <<hMutex, task, module, rx, deviceVars>>

(* Where a reading comes from: the antenna, and the power it was read at. *)
Readings == (Ants \cup {None}) \X (Ants \cup {None})
NoReading == <<None, None>>

(* own: the tags received by the last call were read as it had asked. *)
Idle(ret, own) ==
    [pc |-> "idle", prog |-> <<>>, ant |-> None, step |-> 0, tries |-> 0, left |-> 0,
     own |-> own, ret |-> ret]

Init ==
    /\ hMutex = Free
    /\ task = [t \in Tasks |-> Idle(SUCCESS, TRUE)]
    /\ module = "READER"
    /\ rx = <<>> /\ muxq = <<>> /\ readerq = <<>>
    /\ ant = None /\ power = None
    /\ stored = [n |-> 0, from |-> NoReading]
    /\ port = "open"

-----------------------------------------------------------------------------
(* The calls. *)

Command(t) == task[t].prog[task[t].step]

(* Mutant of Return: no error gives the mutex. *)
ReturnKeepsMutex(t, err) ==
    /\ task' = [task EXCEPT ![t] = Idle(err, task[t].own)]
    /\ hMutex' = IF err # SUCCESS THEN hMutex ELSE Free

(* IF_ERROR_RETURN and the good end: the mutex is given, except after the  *)
(* two codes that a call returns before it has taken it.                   *)
Return(t, err) ==
    /\ task' = [task EXCEPT ![t] = Idle(err, task[t].own)]
    /\ hMutex' = IF err \in {NOT_INTIALIZED, HANDLE_INVALID} THEN hMutex ELSE Free

(* Mutant of StepDone: the program runs a step too far. *)
StepDoneTooFar(t) ==
    IF task[t].step <= Len(task[t].prog)
      THEN /\ task' = [task EXCEPT ![t].pc = "run", ![t].step = @ + 1, ![t].tries = 0]
           /\ UNCHANGED hMutex
      ELSE Return(t, SUCCESS)

StepDone(t) ==
    IF task[t].step < Len(task[t].prog)
      THEN /\ task' = [task EXCEPT ![t].pc = "run", ![t].step = @ + 1, ![t].tries = 0]
           /\ UNCHANGED hMutex
      ELSE Return(t, SUCCESS)

(* What an earlier call returned matters only as long as it has the mutex. *)
Call(t) ==
    /\ task[t].pc = "idle"
    /\ \E prog \in Programs, a \in Ants :
          task' = [task EXCEPT ![t] =
                      [Idle(IF hMutex = t THEN task[t].ret ELSE SUCCESS, TRUE) EXCEPT
                          !.pc = "take", !.prog = prog,
                          !.ant = IF prog = ReadTagsMetaDataRSSI THEN a ELSE None]]
    /\ UNCHANGED <<hMutex, module, rx, deviceVars>>

(* Mutant of TakeMutex: the call does not wait for the mutex. *)
TakeMutexNoWait(t) ==
    /\ task[t].pc = "take"
    /\ hMutex' = t
    /\ task' = [task EXCEPT ![t].pc = "run", ![t].step = 1]
    /\ UNCHANGED <<module, rx, deviceVars>>

(* IReaderTakeMutex ignores what take() returns: a task that still has the *)
(* mutex is refused by the error-checking mutex and goes on with it.       *)
TakeMutex(t) ==
    /\ task[t].pc = "take" /\ hMutex \in {Free, t}
    /\ hMutex' = t
    /\ task' = [task EXCEPT ![t].pc = "run", ![t].step = 1]
    /\ UNCHANGED <<module, rx, deviceVars>>

(* SelectModule: the GPIO pin; it cannot fail. *)
SelectModule(t) ==
    /\ task[t].pc = "run" /\ Command(t) \in Modules
    /\ module' = Command(t)
    /\ StepDone(t)
    /\ UNCHANGED <<rx, deviceVars>>

(* One try of SyncSendToSlave or sendmsg: clearRcv, then the bytes, which  *)
(* reach the selected device or are lost.  What write() returns is not     *)
(* looked at.                                                              *)
Send(t) ==
    /\ task[t].pc = "run" /\ Command(t) \notin Modules
    /\ task' = [task EXCEPT ![t].pc = "await", ![t].tries = @ + 1]
    /\ rx' = <<>>
    /\ \/ UNCHANGED <<muxq, readerq>>
       \/ /\ module = "MUX" /\ Command(t) \in MuxCommands /\ port = "open"
          /\ muxq' = Append(muxq, <<Command(t), task[t].ant>>)
          /\ UNCHANGED readerq
       \/ /\ module = "READER" /\ Command(t) \in ReaderCommands /\ port = "open"
          /\ readerq' = Append(readerq, <<Command(t), task[t].ant>>)
          /\ UNCHANGED muxq
    /\ UNCHANGED <<hMutex, module, ant, power, stored, port>>

(* Mutant of Timeout: a command is sent until it is answered. *)
TimeoutRetriesForEver(t) ==
    /\ task[t].pc = "await" /\ rx = <<>> /\ port = "open"
    /\ Late \/ (muxq = <<>> /\ readerq = <<>>)
    /\ task' = [task EXCEPT ![t].pc = "run", ![t].tries = 0] /\ UNCHANGED hMutex
    /\ UNCHANGED <<module, rx, deviceVars>>

(* getChar runs into the line's timeout, which read() reports as 0: again, *)
(* up to three times.  With devices that are never late nothing is under   *)
(* way then.                                                               *)
Timeout(t) ==
    /\ task[t].pc = "await" /\ rx = <<>> /\ port = "open"
    /\ Late \/ (muxq = <<>> /\ readerq = <<>>)
    /\ IF task[t].tries < 3
         THEN task' = [task EXCEPT ![t].pc = "run"] /\ UNCHANGED hMutex
         ELSE Return(t, IF Command(t) \in MuxCommands THEN COMMAND_FAIL ELSE TIMEOUT_1)
    /\ UNCHANGED <<module, rx, deviceVars>>

(* read() returns -1: MSG_receiveMsgObj hands it on and the call ends at   *)
(* once.  RcvFromSlave stops only at 0: it takes the -1 for a byte 0, for  *)
(* ever, so a command to the multiplexer has no step then.                 *)
ReadError(t) ==
    /\ task[t].pc \in {"await", "more"} /\ Command(t) \in ReaderCommands /\ port = "gone"
    /\ Return(t, SOCKET_ERROR)
    /\ UNCHANGED <<module, rx, deviceVars>>

(* Mutant of Judge: the slave's status byte is not looked at. *)
JudgeIgnoresStatus(t, r) ==
    LET cmd == Command(t) IN
    CASE cmd \in {"antmap", "rescan"} -> StepDone(t)
      [] cmd = "antport" ->
            IF r.cmd # cmd THEN Return(t, SLAVE_NO_RESPONSE) ELSE StepDone(t)
      [] cmd = "power" ->
            IF r.cmd # cmd \/ r.num # 0 THEN Return(t, SET_POWER_FAIL) ELSE StepDone(t)
      [] cmd = "temp" ->
            IF r.cmd # cmd \/ r.num # 0 THEN Return(t, SOCKET_ERROR) ELSE StepDone(t)

(* What the caller makes of an answer r to its command. *)
Judge(t, r) ==
    LET cmd == Command(t) IN
    CASE cmd \in {"antmap", "rescan"} -> StepDone(t)
      [] cmd = "antport" ->
            IF r.cmd # cmd THEN Return(t, SLAVE_NO_RESPONSE)
            ELSE IF r.num # 0 THEN Return(t, r.num) ELSE StepDone(t)
      [] cmd = "power" ->
            IF r.cmd # cmd \/ r.num # 0 THEN Return(t, SET_POWER_FAIL) ELSE StepDone(t)
      [] cmd = "temp" ->
            IF r.cmd # cmd \/ r.num # 0 THEN Return(t, SOCKET_ERROR) ELSE StepDone(t)

(* An answer with a good checksum. *)
Receive(t) ==
    /\ task[t].pc = "await" /\ rx # <<>> /\ Command(t) \notin {"inventory", "fetch"}
    /\ rx' = Tail(rx)
    /\ Judge(t, Head(rx))
    /\ UNCHANGED <<module, deviceVars>>

(* The answer to the inventory says how many tags are buffered.  Its       *)
(* opcode is not looked at: another answer may say any number.             *)
ReceiveInventory(t) ==
    /\ task[t].pc = "await" /\ rx # <<>> /\ Command(t) = "inventory"
    /\ rx' = Tail(rx)
    /\ \E n \in IF Head(rx).cmd = "inventory" THEN {Head(rx).num}
                                             ELSE 0 .. MAX_TAGS_PER_ANTENNA + 1 :
          \/ n > MAX_TAGS_PER_ANTENNA /\ Return(t, INVALID)
          \/ n = 0 /\ Return(t, SUCCESS)
          \/ /\ n \in 1 .. MAX_TAGS_PER_ANTENNA
             /\ task' = [task EXCEPT ![t].pc = "run", ![t].step = @ + 1,
                                     ![t].tries = 0, ![t].left = n]
             /\ UNCHANGED hMutex
    /\ UNCHANGED <<module, deviceVars>>

(* The tags come one per message; only the first is asked for.             *)
ReceiveTag(t) ==
    /\ task[t].pc \in {"await", "more"} /\ rx # <<>> /\ Command(t) = "fetch"
    /\ rx' = Tail(rx)
    /\ LET own == task[t].own /\ Head(rx).from = <<task[t].ant, task[t].ant>> IN
       IF task[t].left > 1
         THEN /\ task' = [task EXCEPT ![t].pc = "more", ![t].left = @ - 1, ![t].own = own]
              /\ UNCHANGED hMutex
         ELSE /\ task' = [task EXCEPT ![t] = Idle(SUCCESS, own)]
              /\ hMutex' = Free
    /\ UNCHANGED <<module, deviceVars>>

(* No further tag comes: MSG_receiveMsgObj is not repeated. *)
TagsMissing(t) ==
    /\ task[t].pc = "more" /\ rx = <<>> /\ port = "open"
    /\ Late \/ readerq = <<>>
    /\ Return(t, TIMEOUT_1)
    /\ UNCHANGED <<module, rx, deviceVars>>

(* A reader message whose length field is too large ends the call.         *)
JumboMessage(t) ==
    /\ task[t].pc \in {"await", "more"} /\ rx # <<>>
    /\ Command(t) \in ReaderCommands
    /\ rx' = Tail(rx)
    /\ Return(t, JUMBO_DATA_LEN)
    /\ UNCHANGED <<module, deviceVars>>

TaskStep(t) ==
    \/ TakeMutex(t) \/ SelectModule(t) \/ Send(t) \/ Timeout(t) \/ Receive(t)
    \/ ReceiveInventory(t) \/ ReceiveTag(t) \/ TagsMissing(t) \/ JumboMessage(t)
    \/ ReadError(t)

-----------------------------------------------------------------------------
(* The devices, as the host has to expect them: a command takes effect     *)
(* when it is handled, and its answer gets through only if it is not lost  *)
(* and the line still goes to the device.                                  *)

Answers(dev, replies) ==
    \/ UNCHANGED rx
    \/ module = dev /\ port = "open" /\ rx' = rx \o replies

Answer(cmd, num, from) == [cmd |-> cmd, num |-> num, from |-> from]

MuxDevice ==
    /\ muxq # <<>>
    /\ muxq' = Tail(muxq)
    /\ LET cmd == Head(muxq)[1] IN
       \E status \in SlaveStatuses :
          /\ ant' = IF cmd = "antport" /\ status = 0 THEN Head(muxq)[2] ELSE ant
          /\ Answers("MUX", <<Answer(cmd, status, NoReading)>>)
    /\ UNCHANGED <<hMutex, task, module, readerq, power, stored, port>>

ReaderDevice ==
    /\ readerq # <<>>
    /\ readerq' = Tail(readerq)
    /\ LET cmd == Head(readerq)[1] IN
       \/ /\ cmd = "inventory"
          /\ \E n \in 0 .. MAX_TAGS_PER_ANTENNA + 1 :
                /\ stored' = [n |-> n, from |-> <<ant, power>>]
                /\ Answers("READER", <<Answer(cmd, n, NoReading)>>)
          /\ UNCHANGED power
       \/ /\ cmd = "fetch"
          /\ \E sent \in 0 .. stored.n :
                Answers("READER", [i \in 1 .. sent |-> Answer(cmd, 0, stored.from)])
          /\ UNCHANGED <<stored, power>>
       \/ /\ cmd \in {"power", "temp"}
          /\ \E failed \in {0, 1} :
                /\ power' = IF cmd = "power" /\ failed = 0 THEN Head(readerq)[2] ELSE power
                /\ Answers("READER", <<Answer(cmd, failed, NoReading)>>)
          /\ UNCHANGED stored
    /\ UNCHANGED <<hMutex, task, module, muxq, ant, port>>

(* The serial port goes away, with what it had received. *)
Unplug ==
    /\ port = "open" /\ port' = "gone" /\ rx' = <<>>
    /\ UNCHANGED <<hMutex, task, module, muxq, readerq, ant, power, stored>>

Next == MuxDevice \/ ReaderDevice \/ Unplug \/ \E t \in Tasks : Call(t) \/ TaskStep(t)

Spec == Init /\ [][Next]_vars

(* A task that runs goes on, and the line's timeout makes it go on; the    *)
(* devices, if they are never late, do what they do within the timeout.    *)
FairSpec == /\ Spec
            /\ \A t \in Tasks : WF_vars(TaskStep(t))
            /\ WF_vars(MuxDevice \/ ReaderDevice)

-----------------------------------------------------------------------------
InCall(t) == task[t].pc \in {"run", "await", "more"}

(* A slave answers with a status, the reader also with a number of tags. *)
Replies ==
    {r \in [cmd : MuxCommands \cup ReaderCommands, num : Nat, from : Readings] :
        r.cmd \in MuxCommands => r.num \in SlaveStatuses}

TypeOK ==
    /\ hMutex \in Tasks \cup {Free}
    /\ task \in [Tasks -> [pc : {"idle", "take", "run", "await", "more"},
                           prog : Programs \cup {<<>>}, ant : Ants \cup {None},
                           step : 0 .. 6, tries : Nat, left : Nat,
                           own : BOOLEAN, ret : ErrorCodes]]
    /\ \A t \in Tasks : InCall(t) => task[t].step \in 1 .. Len(task[t].prog)
    /\ \A t \in Tasks : task[t].pc \in {"await", "more"} => Command(t) \notin Modules
    /\ module \in Modules
    /\ rx \in Seq(Replies)
    /\ muxq \in Seq(MuxCommands \X (Ants \cup {None}))
    /\ readerq \in Seq(ReaderCommands \X (Ants \cup {None}))
    /\ ant \in Ants \cup {None} /\ power \in Ants \cup {None}
    /\ stored \in [n : Nat, from : Readings]
    /\ port \in {"open", "gone"}

(* Two calls never share the line: each that is past its TakeMutex has the *)
(* mutex, also after a call that left without giving it.                   *)
OneCallAtATime == \A t \in Tasks : InCall(t) => hMutex = t

(* While a command waits for its answer the line goes to its device, so no *)
(* other call and no selection left behind by a failed one can divert it.  *)
RightModule ==
    \A t \in Tasks : task[t].pc \in {"await", "more"} => module = DeviceOf(Command(t))

(* A task that has left its call still has the mutex only if the call      *)
(* returned one of the two codes that IF_ERROR_RETURN takes for "the mutex *)
(* was not taken": a slave's status byte can be one of them.               *)
MutexGiven ==
    \A t \in Tasks : hMutex = t /\ ~ InCall(t) =>
        task[t].ret \in {NOT_INTIALIZED, HANDLE_INVALID}

(* "Select the antenna to be read": the tags a call gets were read on its  *)
(* antenna, with its antenna's power, whatever other calls did before and  *)
(* whatever was lost or failed.                                            *)
ReadsNamedAntenna == \A t \in Tasks : task[t].own

(* The endless loop of RcvFromSlave, with the mutex held. *)
Hangs(t) == port = "gone" /\ task[t].pc = "await" /\ Command(t) \in MuxCommands

(* A call that has the mutex comes to its end, whatever is lost, and also  *)
(* when the port goes away, with one exception: a command to the           *)
(* multiplexer then never ends and nobody has the reader any more.         *)
CallEnds == \A t \in Tasks : InCall(t) ~> ~ InCall(t) \/ Hangs(t)
=============================================================================
