-------------------------- MODULE ReaderApiProofs --------------------------
(***************************************************************************)
(* Proofs about ReaderApi, for any number of tasks and antennas, any       *)
(* status bytes, and devices that are late or not: calls exclude each      *)
(* other, the mutex is kept only after the two codes that look as if it    *)
(* had not been taken, and a command waits with the line on its device.    *)
(* For devices that are never late: a read returns tags of its antenna.    *)
(***************************************************************************)
EXTENDS ReaderApi, SequenceTheorems, TLAPS

Positions(p) == 1 .. Len(p)

(* What every program has in common: known entries, a module first, and a  *)
(* command goes to the module that was selected last before it.            *)
LEMMA ProgramShape ==
    ASSUME NEW p \in Programs
    PROVE  /\ Len(p) \in 2 .. 6
           /\ \A s \in Positions(p) : p[s] \in Modules \cup MuxCommands \cup ReaderCommands
           /\ \A s \in Positions(p) : p[s] = "inventory" => s + 1 \in Positions(p)
           /\ \A s \in Positions(p) : p[s] \notin Modules =>
                 \E k \in 1 .. s - 1 :
                    /\ p[k] = DeviceOf(p[s]) /\ p[k] \in Modules
                    /\ \A j \in k + 1 .. s - 1 : p[j] \notin Modules
<1> USE DEF Modules, MuxCommands, ReaderCommands, DeviceOf, Positions
<1>1. CASE p = ReadTagsMetaDataRSSI
  <2>1. /\ Len(p) = 6 /\ p[1] = "MUX" /\ p[2] = "antport" /\ p[3] = "READER"
        /\ p[4] = "power" /\ p[5] = "inventory" /\ p[6] = "fetch"
    BY <1>1 DEF ReadTagsMetaDataRSSI
  <2>2. ASSUME NEW s \in Positions(p), p[s] \notin Modules
        PROVE  \E k \in 1 .. s - 1 :
                    /\ p[k] = DeviceOf(p[s]) /\ p[k] \in Modules
                    /\ \A j \in k + 1 .. s - 1 : p[j] \notin Modules
    <3>1. s \in {2, 4, 5, 6}
      BY <2>1, <2>2
    <3>2. CASE s = 2
      BY <2>1, <3>2
    <3>3. CASE s \in {4, 5, 6}
      <4>1. p[3] = DeviceOf(p[s]) /\ p[3] \in Modules /\ 3 \in 1 .. s - 1
        BY <2>1, <3>3
      <4>2. \A j \in 3 + 1 .. s - 1 : p[j] \notin Modules
        BY <2>1, <3>3
      <4> QED
        BY <4>1, <4>2
    <3> QED
      BY <3>1, <3>2, <3>3
  <2>3. \A s \in Positions(p) : s \in {1, 2, 3, 4, 5, 6}
    BY <2>1
  <2> QED
    BY <2>1, <2>2, <2>3
<1>2. CASE p \in {GetAntList, SyncChannel, EquipTempGet}
  <2>1. /\ Len(p) \in {2, 3} /\ p[1] \in Modules
        /\ p[2] \notin Modules \cup {"inventory"}
        /\ p[1] = DeviceOf(p[2]) /\ p[2] \in MuxCommands \cup ReaderCommands
        /\ Len(p) = 3 => p[3] = "READER"
    BY <1>2 DEF GetAntList, SyncChannel, EquipTempGet
  <2>2. ASSUME NEW s \in Positions(p)
        PROVE  \/ s = 1
               \/ s = 2
               \/ s = 3 /\ p[s] = "READER"
    <3>1. CASE Len(p) = 2
      BY <2>2, <3>1
    <3>2. CASE Len(p) = 3
      <4>1. s \in 1 .. 3 /\ p[3] = "READER"
        BY <2>1, <2>2, <3>2
      <4> QED
        BY <4>1
    <3> QED
      BY <2>1, <3>1, <3>2
  <2>3. ASSUME NEW s \in Positions(p), p[s] \notin Modules
        PROVE  \E k \in 1 .. s - 1 :
                    /\ p[k] = DeviceOf(p[s]) /\ p[k] \in Modules
                    /\ \A j \in k + 1 .. s - 1 : p[j] \notin Modules
    <3>1. s = 2
      BY <2>1, <2>2, <2>3
    <3>2. p[1] = DeviceOf(p[s]) /\ p[1] \in Modules /\ 1 \in 1 .. s - 1
          /\ \A j \in 1 + 1 .. s - 1 : p[j] \notin Modules
      BY <2>1, <3>1
    <3> QED
      BY <3>2
  <2>4. \A s \in Positions(p) : p[s] \in Modules \cup MuxCommands \cup ReaderCommands
                                /\ p[s] # "inventory"
    BY <2>1, <2>2
  <2> QED
    BY <2>1, <2>3, <2>4
<1> QED
  BY <1>1, <1>2 DEF Programs

-----------------------------------------------------------------------------
(* What a step of a call comes to: it takes the mutex, goes on, or ends.   *)

Records == [pc : {"idle", "take", "run", "await", "more"},
            prog : Programs \cup {<<>>}, ant : Ants \cup {None},
            step : 0 .. 6, tries : Nat, left : Nat,
            own : BOOLEAN, ret : ErrorCodes]

TakesMutex(t) ==
    /\ task[t].pc = "take" /\ hMutex \in {Free, t} /\ hMutex' = t
    /\ task' = [task EXCEPT ![t] = [task[t] EXCEPT !.pc = "run", !.step = 1]]

GoesOn(t) ==
    /\ InCall(t) /\ UNCHANGED hMutex
    /\ \E r \in Records :
          /\ task' = [task EXCEPT ![t] = r]
          /\ r.pc \in {"run", "await", "more"} /\ r.prog = task[t].prog
          /\ \/ r.step = task[t].step /\ (r.pc = "run" \/ Command(t) \notin Modules)
             \/ r.pc = "run" /\ r.step = task[t].step + 1 /\ r.step <= Len(task[t].prog)

Ends(t) ==
    /\ InCall(t)
    /\ \E err \in ErrorCodes, own \in BOOLEAN :
          /\ task' = [task EXCEPT ![t] = Idle(err, own)]
          /\ \/ hMutex' = Free
             \/ hMutex' = hMutex /\ err \in {NOT_INTIALIZED, HANDLE_INVALID}

(* The part of TypeOK that speaks of the tasks and the answers. *)
Shape ==
    /\ hMutex \in Tasks \cup {Free}
    /\ task \in [Tasks -> Records]
    /\ \A t \in Tasks : InCall(t) => task[t].step \in Positions(task[t].prog)
    /\ \A t \in Tasks : task[t].pc \in {"await", "more"} => Command(t) \notin Modules
    /\ \A t \in Tasks : task[t].pc \in {"take", "run", "await", "more"} => task[t].prog \in Programs
    /\ rx \in Seq(Replies)

LEMMA CodesAreErrors ==
    ASSUME ReaderAssumption
    PROVE  /\ {SUCCESS, NOT_INTIALIZED, HANDLE_INVALID, TIMEOUT_1, INVALID, COMMAND_FAIL,
               SLAVE_NO_RESPONSE, SET_POWER_FAIL, SOCKET_ERROR, JUMBO_DATA_LEN} \subseteq ErrorCodes
           /\ SlaveStatuses \subseteq ErrorCodes
BY DEF ReaderAssumption, ErrorCodes, SUCCESS, NOT_INTIALIZED, HANDLE_INVALID, TIMEOUT_1, INVALID,
   COMMAND_FAIL, SLAVE_NO_RESPONSE, SET_POWER_FAIL, SOCKET_ERROR, JUMBO_DATA_LEN

LEMMA ReturnEnds ==
    ASSUME Shape, NEW t \in Tasks, InCall(t), NEW err \in ErrorCodes, Return(t, err)
    PROVE  Ends(t)
<1>1. task[t].own \in BOOLEAN
  BY Zenon DEF Shape, Records
<1> QED
  BY <1>1 DEF Return, Ends

LEMMA StepDoneGoesOn ==
    ASSUME ReaderAssumption, Shape, NEW t \in Tasks, InCall(t), StepDone(t)
    PROVE  GoesOn(t) \/ Ends(t)
<1>1. CASE task[t].step < Len(task[t].prog)
  <2>1. task[t] \in Records /\ task[t].prog \in Programs
    BY DEF Shape, InCall
  <2>2. task[t].step \in 0 .. 6
    BY <2>1 DEF Records
  <2>3. Len(task[t].prog) \in 2 .. 6
    BY <2>1, ProgramShape
  <2>4. task[t].step + 1 \in 0 .. 6 /\ task[t].step + 1 <= Len(task[t].prog)
    <3>1. \A a \in 0 .. 6, b \in 2 .. 6 : a < b => a + 1 \in 0 .. 6 /\ a + 1 <= b
      OBVIOUS
    <3> QED
      BY <1>1, <2>2, <2>3, <3>1, Zenon
  <2> DEFINE r == [task[t] EXCEPT !.pc = "run", !.step = @ + 1, !.tries = 0]
  <2>5. task' = [task EXCEPT ![t] = r] /\ UNCHANGED hMutex
    BY <1>1 DEF StepDone, Shape
  <2>6. r \in Records /\ r.pc = "run" /\ r.prog = task[t].prog /\ r.step = task[t].step + 1
    BY <2>1, <2>4, ZenonT(60) DEF Records
  <2> HIDE DEF r
  <2> QED
    BY <2>4, <2>5, <2>6 DEF GoesOn
<1>2. CASE ~ (task[t].step < Len(task[t].prog))
  BY <1>2, CodesAreErrors, ReturnEnds DEF StepDone
<1> QED
  BY <1>1, <1>2

LEMMA CommandKnown ==
    ASSUME Shape, NEW t \in Tasks, InCall(t)
    PROVE  /\ task[t] \in Records /\ task[t].prog \in Programs
           /\ task[t].step \in Positions(task[t].prog)
           /\ Command(t) \in Modules \cup MuxCommands \cup ReaderCommands
<1>1. task[t] \in Records /\ task[t].prog \in Programs
  BY DEF Shape, InCall
<1>2. task[t].step \in Positions(task[t].prog)
  BY DEF Shape
<1> QED
  BY <1>1, <1>2, ProgramShape DEF Command

LEMMA JudgeGoesOn ==
    ASSUME ReaderAssumption, Shape, NEW t \in Tasks, InCall(t), NEW r \in Replies,
           Command(t) \notin Modules \cup {"inventory", "fetch"}, Judge(t, r)
    PROVE  GoesOn(t) \/ Ends(t)
<1> DEFINE cmd == Command(t)
<1>1. cmd \in {"antport", "antmap", "rescan", "power", "temp"}
  BY CommandKnown DEF MuxCommands, ReaderCommands
<1>2. CASE cmd \in {"antmap", "rescan"}
  BY <1>2, StepDoneGoesOn DEF Judge
<1>3. CASE cmd = "antport"
  <2>1. IF r.cmd # cmd THEN Return(t, SLAVE_NO_RESPONSE)
        ELSE IF r.num # 0 THEN Return(t, r.num) ELSE StepDone(t)
    BY <1>3 DEF Judge
  <2>2. r.cmd = cmd => r.num \in ErrorCodes
    BY <1>3, CodesAreErrors DEF Replies, MuxCommands
  <2> QED
    BY <2>1, <2>2, CodesAreErrors, ReturnEnds, StepDoneGoesOn
<1>4. CASE cmd = "power"
  <2>1. IF r.cmd # cmd \/ r.num # 0 THEN Return(t, SET_POWER_FAIL) ELSE StepDone(t)
    BY <1>4 DEF Judge
  <2> QED
    BY <2>1, CodesAreErrors, ReturnEnds, StepDoneGoesOn
<1>5. CASE cmd = "temp"
  <2>1. IF r.cmd # cmd \/ r.num # 0 THEN Return(t, SOCKET_ERROR) ELSE StepDone(t)
    BY <1>5 DEF Judge
  <2> QED
    BY <2>1, CodesAreErrors, ReturnEnds, StepDoneGoesOn
<1> QED
  BY <1>1, <1>2, <1>3, <1>4, <1>5

(* A call that stays at its command, with other fields changed. *)
LEMMA Stays ==
    ASSUME Shape, NEW t \in Tasks, InCall(t), UNCHANGED hMutex, NEW r \in Records,
           task' = [task EXCEPT ![t] = r], r.prog = task[t].prog, r.step = task[t].step,
           r.pc \in {"run", "await", "more"}, r.pc = "run" \/ Command(t) \notin Modules
    PROVE  GoesOn(t)
BY DEF GoesOn

LEMMA StepKinds ==
    ASSUME ReaderAssumption, Shape, NEW t \in Tasks, TaskStep(t)
    PROVE  TakesMutex(t) \/ GoesOn(t) \/ Ends(t)
<1> task[t] \in Records
  BY DEF Shape
<1>1. CASE TakeMutex(t)
  <2>1. task' = [task EXCEPT ![t] = [task[t] EXCEPT !.pc = "run", !.step = 1]]
    BY <1>1 DEF TakeMutex, Shape
  <2> QED
    BY <1>1, <2>1 DEF TakeMutex, TakesMutex
<1>2. CASE SelectModule(t)
  BY <1>2, StepDoneGoesOn DEF SelectModule, InCall
<1>3. CASE Send(t)
  <2> DEFINE r == [task[t] EXCEPT !.pc = "await", !.tries = @ + 1]
  <2>1. task' = [task EXCEPT ![t] = r] /\ InCall(t) /\ UNCHANGED hMutex
        /\ Command(t) \notin Modules
    BY <1>3 DEF Send, Shape, InCall
  <2>2. task[t].tries + 1 \in Nat
    BY DEF Records
  <2>3. r \in Records /\ r.pc = "await" /\ r.prog = task[t].prog /\ r.step = task[t].step
    BY <2>2, ZenonT(60) DEF Records
  <2> HIDE DEF r
  <2> QED
    BY <2>1, <2>3, Stays
<1>4. CASE Timeout(t)
  <2>1. InCall(t)
    BY <1>4 DEF Timeout, InCall
  <2>2. CASE task[t].tries < 3
    <3> DEFINE r == [task[t] EXCEPT !.pc = "run"]
    <3>1. task' = [task EXCEPT ![t] = r] /\ UNCHANGED hMutex
      BY <1>4, <2>2 DEF Timeout, Shape
    <3>2. r \in Records /\ r.pc = "run" /\ r.prog = task[t].prog /\ r.step = task[t].step
      BY DEF Records
    <3> HIDE DEF r
    <3> QED
      BY <2>1, <3>1, <3>2, Stays
  <2>3. CASE ~ (task[t].tries < 3)
    BY <1>4, <2>1, <2>3, CodesAreErrors, ReturnEnds DEF Timeout
  <2> QED
    BY <2>2, <2>3
<1>5. CASE Receive(t)
  <2>1. InCall(t) /\ Head(rx) \in Replies /\ Judge(t, Head(rx))
    BY <1>5 DEF Receive, InCall, Shape
  <2>2. Command(t) \notin Modules \cup {"inventory", "fetch"}
    BY <1>5 DEF Receive, Shape
  <2> QED
    BY <2>1, <2>2, JudgeGoesOn
<1>6. CASE ReceiveInventory(t)
  <2>1. InCall(t) /\ Command(t) = "inventory"
    BY <1>6 DEF ReceiveInventory, InCall
  <2>2. PICK n \in Nat :
          \/ Return(t, INVALID)
          \/ Return(t, SUCCESS)
          \/ /\ task' = [task EXCEPT ![t].pc = "run", ![t].step = @ + 1,
                                     ![t].tries = 0, ![t].left = n]
             /\ UNCHANGED hMutex
    <3>1. Head(rx) \in Replies
      BY <1>6 DEF ReceiveInventory, Shape
    <3> DEFINE N == IF Head(rx).cmd = "inventory" THEN {Head(rx).num}
                                             ELSE 0 .. MAX_TAGS_PER_ANTENNA + 1
    <3>2. N \subseteq Nat
      BY <3>1 DEF Replies, ReaderAssumption
    <3> QED
      BY <1>6, <3>2 DEF ReceiveInventory
  <2>3. CASE Return(t, INVALID) \/ Return(t, SUCCESS)
    BY <2>1, <2>3, CodesAreErrors, ReturnEnds
  <2>4. CASE /\ task' = [task EXCEPT ![t].pc = "run", ![t].step = @ + 1,
                                     ![t].tries = 0, ![t].left = n]
             /\ UNCHANGED hMutex
    <3>1. task[t].prog \in Programs /\ task[t].step \in Positions(task[t].prog)
      BY <2>1, CommandKnown
    <3>2. task[t].step + 1 \in Positions(task[t].prog)
      BY <2>1, <3>1, ProgramShape DEF Command
    <3>3. Len(task[t].prog) \in 2 .. 6
      BY <3>1, ProgramShape
    <3>4. task[t].step + 1 \in 0 .. 6 /\ task[t].step + 1 <= Len(task[t].prog)
      <4>1. \A a \in Int, b \in 2 .. 6 : a \in 1 .. b => a \in 0 .. 6 /\ a <= b
        OBVIOUS
      <4>2. task[t].step + 1 \in Int
        BY DEF Records
      <4> QED
        BY <3>2, <3>3, <4>1, <4>2, Zenon DEF Positions
    <3> DEFINE r == [task[t] EXCEPT !.pc = "run", !.step = @ + 1, !.tries = 0, !.left = n]
    <3>5. task' = [task EXCEPT ![t] = r]
      BY <2>4 DEF Shape
    <3>6. r \in Records /\ r.pc = "run" /\ r.prog = task[t].prog /\ r.step = task[t].step + 1
      BY <3>4, ZenonT(60) DEF Records
    <3> HIDE DEF r
    <3> QED
      BY <2>1, <2>4, <3>4, <3>5, <3>6 DEF GoesOn
  <2> QED
    BY <2>2, <2>3, <2>4
<1>7. CASE ReceiveTag(t)
  <2> DEFINE own == task[t].own /\ Head(rx).from = <<task[t].ant, task[t].ant>>
  <2>1. InCall(t) /\ Command(t) \notin Modules
    BY <1>7 DEF ReceiveTag, InCall, Modules
  <2>2. own \in BOOLEAN
    BY Zenon
  <2> HIDE DEF own
  <2>3. CASE task[t].left > 1
    <3> DEFINE r == [task[t] EXCEPT !.pc = "more", !.left = @ - 1, !.own = own]
    <3>1. task' = [task EXCEPT ![t] = r] /\ UNCHANGED hMutex
      BY <1>7, <2>3 DEF ReceiveTag, Shape, own
    <3>2. task[t].left - 1 \in Nat
      BY <2>3 DEF Records
    <3>3. r \in Records /\ r.pc = "more" /\ r.prog = task[t].prog /\ r.step = task[t].step
      <4>1. \A o \in BOOLEAN, l \in Nat :
               LET q == [task[t] EXCEPT !.pc = "more", !.left = l, !.own = o] IN
               q \in Records /\ q.pc = "more" /\ q.prog = task[t].prog /\ q.step = task[t].step
        BY ZenonT(60) DEF Records
      <4> QED
        BY <2>2, <3>2, <4>1, ZenonT(40)
    <3> HIDE DEF r
    <3> QED
      BY <2>1, <3>1, <3>3, Stays
  <2>4. CASE ~ (task[t].left > 1)
    <3>1. task' = [task EXCEPT ![t] = Idle(SUCCESS, own)] /\ hMutex' = Free
      BY <1>7, <2>4 DEF ReceiveTag, own
    <3> QED
      BY <2>1, <2>2, <3>1, CodesAreErrors DEF Ends
  <2> QED
    BY <2>3, <2>4
<1>8. CASE TagsMissing(t)
  BY <1>8, CodesAreErrors, ReturnEnds DEF TagsMissing, InCall
<1>9. CASE JumboMessage(t)
  BY <1>9, CodesAreErrors, ReturnEnds DEF JumboMessage, InCall
<1>10. CASE ReadError(t)
  BY <1>10, CodesAreErrors, ReturnEnds DEF ReadError, InCall
<1> QED
  BY <1>1, <1>2, <1>3, <1>4, <1>5, <1>6, <1>7, <1>8, <1>9, <1>10 DEF TaskStep

-----------------------------------------------------------------------------
LEMMA IdleRecord ==
    ASSUME NEW err \in ErrorCodes, NEW own \in BOOLEAN
    PROVE  Idle(err, own) \in Records /\ Idle(err, own).pc = "idle" /\ Idle(err, own).ret = err
BY DEF Idle, Records

(* A step of one call keeps the shape of all. *)
LEMMA KindShape ==
    ASSUME Shape, NEW t \in Tasks, rx' \in Seq(Replies), TakesMutex(t) \/ GoesOn(t) \/ Ends(t)
    PROVE  Shape'
<1> task[t] \in Records
  BY DEF Shape
<1>0. hMutex' \in Tasks \cup {Free}
  BY DEF Shape, TakesMutex, GoesOn, Ends
<1>1. SUFFICES ASSUME NEW r \in Records, task' = [task EXCEPT ![t] = r],
                      \/ r.pc = "idle"
                      \/ /\ r.pc \in {"run", "await", "more"} /\ r.prog \in Programs
                         /\ r.step \in Positions(r.prog)
                         /\ r.pc \in {"await", "more"} => r.prog[r.step] \notin Modules
               PROVE  Shape'
  <2>1. CASE TakesMutex(t)
    <3> DEFINE r == [task[t] EXCEPT !.pc = "run", !.step = 1]
    <3>1. r \in Records /\ r.pc = "run" /\ r.prog = task[t].prog /\ r.step = 1
      <4>1. \A n \in 0 .. 6 :
               LET q == [task[t] EXCEPT !.pc = "run", !.step = n] IN
               q \in Records /\ q.pc = "run" /\ q.prog = task[t].prog /\ q.step = n
        BY DEF Records
      <4>2. 1 \in 0 .. 6
        OBVIOUS
      <4> QED
        BY <4>1, <4>2, Zenon
    <3>2. task[t].prog \in Programs
      BY <2>1 DEF TakesMutex, Shape
    <3>3. 1 \in Positions(task[t].prog)
      <4>1. Len(task[t].prog) \in 2 .. 6
        BY <3>2, ProgramShape
      <4>2. \A b \in 2 .. 6 : 1 \in 1 .. b
        OBVIOUS
      <4> QED
        BY <4>1, <4>2, Zenon DEF Positions
    <3>4. task' = [task EXCEPT ![t] = r]
      BY <2>1 DEF TakesMutex
    <3> HIDE DEF r
    <3> QED
      BY <3>1, <3>2, <3>3, <3>4, <1>1
  <2>2. CASE GoesOn(t)
    <3> PICK r \in Records :
          /\ task' = [task EXCEPT ![t] = r]
          /\ r.pc \in {"run", "await", "more"} /\ r.prog = task[t].prog
          /\ \/ r.step = task[t].step /\ (r.pc = "run" \/ Command(t) \notin Modules)
             \/ r.pc = "run" /\ r.step = task[t].step + 1 /\ r.step <= Len(task[t].prog)
      BY <2>2 DEF GoesOn
    <3>1. task[t].prog \in Programs /\ task[t].step \in Positions(task[t].prog)
      BY <2>2, CommandKnown DEF GoesOn
    <3>2. Len(task[t].prog) \in 2 .. 6
      BY <3>1, ProgramShape
    <3>3. task[t].step + 1 <= Len(task[t].prog) => task[t].step + 1 \in Positions(task[t].prog)
      <4>1. \A a \in Int, b \in 2 .. 6 : a \in 1 .. b /\ a + 1 <= b => a + 1 \in 1 .. b
        OBVIOUS
      <4>2. task[t].step \in Int
        BY DEF Records
      <4> QED
        BY <3>1, <3>2, <4>1, <4>2, Zenon DEF Positions
    <3>4. r.step \in Positions(r.prog)
      BY <3>1, <3>3
    <3>5. r.pc \in {"await", "more"} => r.prog[r.step] \notin Modules
      BY DEF Command
    <3> QED
      BY <3>1, <3>4, <3>5, <1>1
  <2>3. CASE Ends(t)
    BY <2>3, <1>1, IdleRecord DEF Ends
  <2> QED
    BY <2>1, <2>2, <2>3
<1>2. \A u \in Tasks : task'[u] = IF u = t THEN r ELSE task[u]
  BY <1>1 DEF Shape
<1>3. task' \in [Tasks -> Records]
  BY <1>1 DEF Shape
<1>4. ASSUME NEW u \in Tasks
      PROVE  /\ InCall(u)' => task'[u].step \in Positions(task'[u].prog)
             /\ task'[u].pc \in {"await", "more"} => Command(u)' \notin Modules
             /\ task'[u].pc \in {"take", "run", "await", "more"} => task'[u].prog \in Programs
  <2>1. CASE u = t
    BY <1>1, <1>2, <2>1 DEF InCall, Command
  <2>2. CASE u # t
    BY <1>2, <2>2 DEF Shape, InCall, Command
  <2> QED
    BY <2>1, <2>2
<1> QED
  BY <1>0, <1>3, <1>4 DEF Shape

(* The answers in the buffer stay answers. *)
LEMMA RxStep ==
    ASSUME ReaderAssumption, Shape, stored \in [n : Nat, from : Readings],
           ant \in Ants \cup {None}, power \in Ants \cup {None},
           muxq \in Seq(MuxCommands \X (Ants \cup {None})),
           readerq \in Seq(ReaderCommands \X (Ants \cup {None})), Next
    PROVE  rx' \in Seq(Replies)
<1> rx \in Seq(Replies)
  BY DEF Shape
<1>1. CASE \E t \in Tasks : Call(t) \/ TaskStep(t)
  <2>1. rx' = rx \/ rx' = <<>> \/ (rx # <<>> /\ rx' = Tail(rx))
    BY <1>1, Zenon DEF Call, TaskStep, TakeMutex, SelectModule, Send, Timeout, Receive,
       ReceiveInventory, ReceiveTag, TagsMissing, JumboMessage, ReadError
  <2>2. rx # <<>> => Tail(rx) \in Seq(Replies)
    BY HeadTailProperties, Zenon
  <2>3. <<>> \in Seq(Replies)
    BY EmptySeq, Zenon
  <2> QED
    BY <2>1, <2>2, <2>3, Zenon
<1>2. CASE MuxDevice
  <2>1. PICK cmd \in MuxCommands, status \in SlaveStatuses :
           Answers("MUX", <<Answer(cmd, status, NoReading)>>)
    <3>1. Head(muxq) \in MuxCommands \X (Ants \cup {None})
      BY <1>2 DEF MuxDevice
    <3>2. Head(muxq)[1] \in MuxCommands
      BY <3>1
    <3> QED
      BY <1>2, <3>2 DEF MuxDevice
  <2>2. Answer(cmd, status, NoReading) \in Replies
    BY DEF Answer, Replies, NoReading, Readings, ReaderAssumption
  <2>3. <<Answer(cmd, status, NoReading)>> \in Seq(Replies)
    BY <2>2
  <2>4. rx \o <<Answer(cmd, status, NoReading)>> \in Seq(Replies)
    BY <2>3, ConcatProperties, Zenon
  <2> QED
    BY <2>1, <2>4, Zenon DEF Answers
<1>3. CASE ReaderDevice
  <2>1. PICK replies \in Seq(Replies) : Answers("READER", replies)
    <3> DEFINE cmd == Head(readerq)[1]
    <3>1. NoReading \in Readings
      BY DEF NoReading, Readings
    <3>2. \A c \in ReaderCommands, n \in Nat, f \in Readings : Answer(c, n, f) \in Replies
      BY DEF Answer, Replies, MuxCommands, ReaderCommands
    <3>3. CASE /\ cmd = "inventory"
               /\ \E n \in 0 .. MAX_TAGS_PER_ANTENNA + 1 :
                     Answers("READER", <<Answer(cmd, n, NoReading)>>)
      <4> PICK n \in 0 .. MAX_TAGS_PER_ANTENNA + 1 :
                     Answers("READER", <<Answer("inventory", n, NoReading)>>)
        BY <3>3
      <4>1. <<Answer("inventory", n, NoReading)>> \in Seq(Replies)
        BY <3>1, <3>2 DEF ReaderCommands, ReaderAssumption
      <4> QED
        BY <4>1
    <3>4. CASE /\ cmd = "fetch"
               /\ \E sent \in 0 .. stored.n :
                     Answers("READER", [i \in 1 .. sent |-> Answer(cmd, 0, stored.from)])
      <4> PICK sent \in 0 .. stored.n :
                     Answers("READER", [i \in 1 .. sent |-> Answer("fetch", 0, stored.from)])
        BY <3>4
      <4>1. Answer("fetch", 0, stored.from) \in Replies
        BY <3>2 DEF ReaderCommands
      <4>2. [i \in 1 .. sent |-> Answer("fetch", 0, stored.from)] \in Seq(Replies)
        BY <4>1
      <4> QED
        BY <4>2
    <3>5. CASE /\ cmd \in {"power", "temp"}
               /\ \E failed \in {0, 1} :
                     Answers("READER", <<Answer(cmd, failed, NoReading)>>)
      <4> PICK failed \in {0, 1} : Answers("READER", <<Answer(cmd, failed, NoReading)>>)
        BY <3>5
      <4>1. <<Answer(cmd, failed, NoReading)>> \in Seq(Replies)
        BY <3>1, <3>2, <3>5 DEF ReaderCommands
      <4> QED
        BY <4>1
    <3> QED
      BY <1>3, <3>3, <3>4, <3>5 DEF ReaderDevice
  <2>2. rx \o replies \in Seq(Replies)
    BY ConcatProperties, Zenon
  <2> QED
    BY <2>1, <2>2, Zenon DEF Answers
<1>4. CASE Unplug
  BY <1>4, EmptySeq DEF Unplug
<1> QED
  BY <1>1, <1>2, <1>3, <1>4 DEF Next

LEMMA DevicesStep ==
    ASSUME ReaderAssumption, TypeOK, Next
    PROVE  /\ module' \in Modules
           /\ muxq' \in Seq(MuxCommands \X (Ants \cup {None}))
           /\ readerq' \in Seq(ReaderCommands \X (Ants \cup {None}))
           /\ ant' \in Ants \cup {None} /\ power' \in Ants \cup {None}
           /\ stored' \in [n : Nat, from : Readings]
           /\ port' \in {"open", "gone"}
<1> /\ module \in Modules
    /\ muxq \in Seq(MuxCommands \X (Ants \cup {None}))
    /\ readerq \in Seq(ReaderCommands \X (Ants \cup {None}))
    /\ ant \in Ants \cup {None} /\ power \in Ants \cup {None}
    /\ stored \in [n : Nat, from : Readings]
    /\ port \in {"open", "gone"}
    /\ \A t \in Tasks : task[t].ant \in Ants \cup {None}
  BY DEF TypeOK
<1>1. CASE \E t \in Tasks : Call(t) \/ TaskStep(t)
  <2> PICK t \in Tasks : Call(t) \/ TaskStep(t)
    BY <1>1
  <2>1. CASE Send(t)
    <3>1. UNCHANGED <<module, ant, power, stored, port>>
      BY <2>1 DEF Send
    <3>2. \/ UNCHANGED muxq
          \/ Command(t) \in MuxCommands /\ muxq' = Append(muxq, <<Command(t), task[t].ant>>)
      BY <2>1 DEF Send
    <3>3. \/ UNCHANGED readerq
          \/ /\ Command(t) \in ReaderCommands
             /\ readerq' = Append(readerq, <<Command(t), task[t].ant>>)
      BY <2>1 DEF Send
    <3>4. muxq' \in Seq(MuxCommands \X (Ants \cup {None}))
      <4>1. Command(t) \in MuxCommands => <<Command(t), task[t].ant>> \in MuxCommands \X (Ants \cup {None})
        OBVIOUS
      <4>2. Command(t) \in MuxCommands => Append(muxq, <<Command(t), task[t].ant>>)
                                            \in Seq(MuxCommands \X (Ants \cup {None}))
        BY <4>1, AppendProperties, Zenon
      <4> QED
        BY <3>2, <4>2
    <3>5. readerq' \in Seq(ReaderCommands \X (Ants \cup {None}))
      <4>1. Command(t) \in ReaderCommands =>
               <<Command(t), task[t].ant>> \in ReaderCommands \X (Ants \cup {None})
        OBVIOUS
      <4>2. Command(t) \in ReaderCommands => Append(readerq, <<Command(t), task[t].ant>>)
                                               \in Seq(ReaderCommands \X (Ants \cup {None}))
        BY <4>1, AppendProperties, Zenon
      <4> QED
        BY <3>3, <4>2
    <3> QED
      BY <3>1, <3>4, <3>5
  <2>2. CASE SelectModule(t)
    BY <2>2 DEF SelectModule, deviceVars
  <2>3. CASE ~ Send(t) /\ ~ SelectModule(t)
    <3>1. UNCHANGED <<module, deviceVars>>
      BY <2>3, Zenon DEF Call, TaskStep, TakeMutex, Timeout, Receive,
         ReceiveInventory, ReceiveTag, TagsMissing, JumboMessage, ReadError
    <3> QED
      BY <3>1 DEF deviceVars
  <2> QED
    BY <2>1, <2>2, <2>3
<1>2. CASE MuxDevice
  <2>1. Head(muxq)[2] \in Ants \cup {None} /\ Tail(muxq) \in Seq(MuxCommands \X (Ants \cup {None}))
    BY <1>2 DEF MuxDevice
  <2> QED
    BY <1>2, <2>1 DEF MuxDevice
<1>3. CASE ReaderDevice
  <2>1. Head(readerq)[2] \in Ants \cup {None} /\ Tail(readerq) \in Seq(ReaderCommands \X (Ants \cup {None}))
    BY <1>3 DEF ReaderDevice
  <2>2. UNCHANGED <<module, muxq, ant, port>> /\ readerq' = Tail(readerq)
    BY <1>3 DEF ReaderDevice
  <2>3. power' = power \/ power' = Head(readerq)[2]
    BY <1>3 DEF ReaderDevice
  <2>4. stored' = stored \/ \E n \in 0 .. MAX_TAGS_PER_ANTENNA + 1 :
                               stored' = [n |-> n, from |-> <<ant, power>>]
    BY <1>3 DEF ReaderDevice
  <2>5. stored' \in [n : Nat, from : Readings]
    BY <2>4 DEF Readings, ReaderAssumption
  <2> QED
    BY <2>1, <2>2, <2>3, <2>5
<1>4. CASE Unplug
  BY <1>4 DEF Unplug
<1> QED
  BY <1>1, <1>2, <1>3, <1>4 DEF Next

LEMMA CallKind ==
    ASSUME Shape, NEW t \in Tasks, Call(t)
    PROVE  \E r \in Records :
              /\ task' = [task EXCEPT ![t] = r]
              /\ r.pc = "take" /\ r.prog \in Programs
              /\ hMutex = t => r.ret = task[t].ret
<1> DEFINE ret == IF hMutex = t THEN task[t].ret ELSE SUCCESS
<1>1. PICK prog \in Programs, a \in Ants :
          task' = [task EXCEPT ![t] =
                      [Idle(ret, TRUE) EXCEPT
                          !.pc = "take", !.prog = prog,
                          !.ant = IF prog = ReadTagsMetaDataRSSI THEN a ELSE None]]
  BY DEF Call
<1> DEFINE b == IF prog = ReadTagsMetaDataRSSI THEN a ELSE None
           r == [Idle(ret, TRUE) EXCEPT !.pc = "take", !.prog = prog, !.ant = b]
<1>2. ret \in ErrorCodes
  BY DEF Shape, Records, SUCCESS, ErrorCodes
<1>3. b \in Ants \cup {None}
  OBVIOUS
<1>4. ASSUME NEW e \in ErrorCodes, NEW o \in BOOLEAN, NEW c \in Ants \cup {None}
      PROVE  LET q == [Idle(e, o) EXCEPT !.pc = "take", !.prog = prog, !.ant = c] IN
             q \in Records /\ q.pc = "take" /\ q.prog = prog /\ q.ret = e
  <2>1. Idle(e, o) \in Records /\ Idle(e, o).ret = e
    BY IdleRecord
  <2>2. ASSUME NEW x \in Records, NEW p \in Programs
        PROVE  LET q == [x EXCEPT !.pc = "take", !.prog = p, !.ant = c] IN
               q \in Records /\ q.pc = "take" /\ q.prog = p /\ q.ret = x.ret
    BY DEF Records
  <2> QED
    BY <2>1, <2>2, Zenon
<1>5. r \in Records /\ r.pc = "take" /\ r.prog = prog /\ r.ret = ret
  <2> HIDE DEF ret, b
  <2> QED
    BY <1>2, <1>3, <1>4, Zenon
<1>6. task' = [task EXCEPT ![t] = r]
  BY <1>1
<1>7. hMutex = t => ret = task[t].ret
  OBVIOUS
<1> HIDE DEF r, ret
<1> QED
  BY <1>5, <1>6, <1>7

LEMMA ShapeStep == ASSUME ReaderAssumption, TypeOK, Shape, Next PROVE Shape'
<1>1. rx' \in Seq(Replies)
  BY RxStep DEF TypeOK
<1>2. CASE \E t \in Tasks : TaskStep(t)
  BY <1>1, <1>2, StepKinds, KindShape
<1>3. CASE MuxDevice \/ ReaderDevice \/ Unplug
  <2>1. UNCHANGED <<hMutex, task>>
    BY <1>3, Zenon DEF MuxDevice, ReaderDevice, Unplug
  <2> QED
    BY <1>1, <2>1 DEF Shape, InCall, Command
<1>4. CASE \E t \in Tasks : Call(t)
  <2> PICK t \in Tasks : Call(t)
    BY <1>4
  <2>1. PICK r \in Records : /\ task' = [task EXCEPT ![t] = r]
                             /\ r.pc = "take" /\ r.prog \in Programs
    BY CallKind
  <2>2. hMutex' = hMutex
    BY DEF Call
  <2>3. task' \in [Tasks -> Records]
        /\ \A u \in Tasks : task'[u] = IF u = t THEN r ELSE task[u]
    BY <2>1 DEF Shape
  <2> QED
    BY <1>1, <2>1, <2>2, <2>3 DEF Shape, InCall, Command
<1> QED
  BY <1>2, <1>3, <1>4 DEF Next

LEMMA ShapeAlways == ReaderAssumption => (Spec => [](TypeOK /\ Shape))
<1> SUFFICES ASSUME ReaderAssumption PROVE Spec => [](TypeOK /\ Shape)
  OBVIOUS
<1>1. Init => TypeOK /\ Shape
  <2> SUFFICES ASSUME Init PROVE TypeOK /\ Shape
    OBVIOUS
  <2>1. /\ hMutex = Free /\ module \in Modules
        /\ \A t \in Tasks : task[t] = Idle(SUCCESS, TRUE)
        /\ task = [t \in Tasks |-> Idle(SUCCESS, TRUE)]
        /\ rx = <<>> /\ muxq = <<>> /\ readerq = <<>>
        /\ ant \in Ants \cup {None} /\ power \in Ants \cup {None}
        /\ stored \in [n : Nat, from : Readings] /\ port \in {"open", "gone"}
    BY DEF Init, Modules, NoReading, Readings
  <2>2. SUCCESS \in ErrorCodes
    BY CodesAreErrors
  <2>3. Idle(SUCCESS, TRUE) \in Records /\ Idle(SUCCESS, TRUE).pc = "idle"
    BY <2>2, IdleRecord
  <2>4. task \in [Tasks -> Records] /\ \A t \in Tasks : task[t].pc = "idle"
    BY <2>1, <2>3
  <2>5. Shape
    <3>1. <<>> \in Seq(Replies)
      BY EmptySeq, Zenon
    <3> QED
      BY <2>1, <2>4, <3>1 DEF Shape, InCall
  <2>6. /\ muxq \in Seq(MuxCommands \X (Ants \cup {None}))
        /\ readerq \in Seq(ReaderCommands \X (Ants \cup {None}))
    BY <2>1, EmptySeq, Zenon
  <2> QED
    BY <2>1, <2>5, <2>6 DEF TypeOK, Shape, Records, Positions
<1>2. TypeOK /\ Shape /\ [Next]_vars => (TypeOK /\ Shape)'
  <2> SUFFICES ASSUME TypeOK, Shape, [Next]_vars PROVE TypeOK' /\ Shape'
    OBVIOUS
  <2>1. CASE Next
    <3>1. Shape'
      BY <2>1, ShapeStep
    <3>2. TypeOK'
      BY <2>1, <3>1, DevicesStep DEF Shape, TypeOK, Records, Positions
    <3> QED
      BY <3>1, <3>2
  <2>2. CASE UNCHANGED vars
    BY <2>2 DEF vars, deviceVars, TypeOK, Shape, InCall, Command
  <2> QED
    BY <2>1, <2>2
<1> QED
  BY <1>1, <1>2, PTL DEF Spec

(* The types of the reader API's model hold for ever; in particular a call *)
(* never runs past its program and returns one of its error codes or a     *)
(* slave's status.                                                         *)
THEOREM ReaderTypeCorrect == ReaderAssumption => (Spec => []TypeOK)
BY ShapeAlways, PTL

-----------------------------------------------------------------------------
(* The mutex. *)

Exclusion == OneCallAtATime /\ MutexGiven

LEMMA KindExclusion ==
    ASSUME ReaderAssumption, Shape, Exclusion, NEW t \in Tasks,
           TakesMutex(t) \/ GoesOn(t) \/ Ends(t)
    PROVE  Exclusion'
<1>1. t # Free /\ hMutex \in Tasks \cup {Free} /\ task[t] \in Records
  BY DEF ReaderAssumption, Shape
<1>2. ASSUME NEW r \in Records, task' = [task EXCEPT ![t] = r],
             \/ r.pc \in {"run", "await", "more"} /\ hMutex \in {Free, t} /\ hMutex' = t
             \/ /\ r.pc = "idle" /\ hMutex = t
                /\ hMutex' = Free \/ (hMutex' = t /\ r.ret \in {NOT_INTIALIZED, HANDLE_INVALID})
      PROVE  Exclusion'
  <2>1. \A u \in Tasks : task'[u] = IF u = t THEN r ELSE task[u]
    BY <1>2 DEF Shape
  <2>2. ASSUME NEW u \in Tasks
        PROVE  /\ InCall(u)' => hMutex' = u
               /\ hMutex' = u /\ ~ InCall(u)' => task'[u].ret \in {NOT_INTIALIZED, HANDLE_INVALID}
    <3>1. CASE u = t
      BY <1>1, <1>2, <2>1, <3>1 DEF InCall
    <3>2. CASE u # t
      <4>1. InCall(u)' => InCall(u)
        BY <2>1, <3>2 DEF InCall
      <4>2. ~ InCall(u)
        BY <1>2, <3>2, <1>1 DEF Exclusion, OneCallAtATime, ReaderAssumption
      <4>3. hMutex' # u
        BY <1>2, <3>2, <1>1 DEF ReaderAssumption
      <4> QED
        BY <4>1, <4>2, <4>3
    <3> QED
      BY <3>1, <3>2
  <2> QED
    BY <2>2 DEF Exclusion, OneCallAtATime, MutexGiven
<1>3. InCall(t) => hMutex = t
  BY DEF Exclusion, OneCallAtATime
<1>4. CASE TakesMutex(t)
  <2> DEFINE r == [task[t] EXCEPT !.pc = "run", !.step = 1]
  <2>1. r \in Records /\ r.pc = "run"
    <3>1. \A x \in Records, n \in 0 .. 6 :
             LET q == [x EXCEPT !.pc = "run", !.step = n] IN q \in Records /\ q.pc = "run"
      BY DEF Records
    <3>2. 1 \in 0 .. 6
      OBVIOUS
    <3> QED
      BY <1>1, <3>1, <3>2, Zenon
  <2>2. task' = [task EXCEPT ![t] = r] /\ hMutex \in {Free, t} /\ hMutex' = t
    BY <1>4 DEF TakesMutex
  <2> HIDE DEF r
  <2> QED
    BY <1>2, <2>1, <2>2
<1>5. CASE GoesOn(t)
  <2>1. PICK r \in Records : task' = [task EXCEPT ![t] = r] /\ r.pc \in {"run", "await", "more"}
    BY <1>5 DEF GoesOn
  <2>2. hMutex = t /\ hMutex' = t
    BY <1>3, <1>5 DEF GoesOn
  <2> QED
    BY <1>2, <2>1, <2>2
<1>6. CASE Ends(t)
  <2>1. PICK err \in ErrorCodes, own \in BOOLEAN :
          /\ task' = [task EXCEPT ![t] = Idle(err, own)]
          /\ \/ hMutex' = Free
             \/ hMutex' = hMutex /\ err \in {NOT_INTIALIZED, HANDLE_INVALID}
    BY <1>6 DEF Ends
  <2>2. hMutex = t
    BY <1>3, <1>6 DEF Ends
  <2>3. Idle(err, own) \in Records /\ Idle(err, own).pc = "idle" /\ Idle(err, own).ret = err
    BY IdleRecord
  <2> QED
    BY <1>2, <2>1, <2>2, <2>3
<1> QED
  BY <1>4, <1>5, <1>6

LEMMA ExclusionStep == ASSUME ReaderAssumption, Shape, Exclusion, Next PROVE Exclusion'
<1>1. CASE \E t \in Tasks : TaskStep(t)
  BY <1>1, StepKinds, KindExclusion
<1>2. CASE MuxDevice \/ ReaderDevice \/ Unplug
  <2>1. UNCHANGED <<hMutex, task>>
    BY <1>2, Zenon DEF MuxDevice, ReaderDevice, Unplug
  <2> QED
    BY <2>1 DEF Exclusion, OneCallAtATime, MutexGiven, InCall
<1>3. CASE \E t \in Tasks : Call(t)
  <2> PICK t \in Tasks : Call(t)
    BY <1>3
  <2>1. PICK r \in Records : /\ task' = [task EXCEPT ![t] = r]
                             /\ r.pc = "take" /\ r.prog \in Programs
                             /\ hMutex = t => r.ret = task[t].ret
    BY CallKind
  <2>2. hMutex' = hMutex /\ ~ InCall(t)
    BY DEF Call, InCall
  <2>3. \A u \in Tasks : task'[u] = IF u = t THEN r ELSE task[u]
    BY <2>1 DEF Shape
  <2>4. ASSUME NEW u \in Tasks
        PROVE  /\ InCall(u)' => hMutex' = u
               /\ hMutex' = u /\ ~ InCall(u)' => task'[u].ret \in {NOT_INTIALIZED, HANDLE_INVALID}
    <3>1. CASE u = t
      BY <2>1, <2>2, <2>3, <3>1 DEF InCall, Exclusion, MutexGiven
    <3>2. CASE u # t
      BY <2>2, <2>3, <3>2 DEF InCall, Exclusion, MutexGiven, OneCallAtATime
    <3> QED
      BY <3>1, <3>2
  <2> QED
    BY <2>4 DEF Exclusion, OneCallAtATime, MutexGiven
<1> QED
  BY <1>1, <1>2, <1>3 DEF Next

LEMMA ExclusionAlways == ReaderAssumption => (Spec => []Exclusion)
<1> SUFFICES ASSUME ReaderAssumption PROVE Spec => []Exclusion
  OBVIOUS
<1>1. Init => Exclusion
  BY DEF Init, Idle, Exclusion, OneCallAtATime, MutexGiven, InCall, ReaderAssumption
<1>2. Exclusion /\ (TypeOK /\ Shape) /\ [Next]_vars => Exclusion'
  <2> SUFFICES ASSUME Exclusion, TypeOK, Shape, [Next]_vars PROVE Exclusion'
    OBVIOUS
  <2>1. CASE UNCHANGED vars
    BY <2>1 DEF vars, deviceVars, Exclusion, OneCallAtATime, MutexGiven, InCall
  <2> QED
    BY <2>1, ExclusionStep
<1> QED
  BY <1>1, <1>2, ShapeAlways, PTL DEF Spec

(* One call at a time is between its IReaderTakeMutex and its              *)
(* IReaderGiveMutex, also after IF_ERROR_RETURN has left a call that keeps *)
(* the mutex.                                                              *)
THEOREM CallsExcludeEachOther == ReaderAssumption => (Spec => []OneCallAtATime)
BY ExclusionAlways, PTL DEF Exclusion

(* IF_ERROR_RETURN leaves the mutex taken after NOT_INTIALIZED and         *)
(* HANDLE_INVALID, and after no other result.                              *)
THEOREM MutexKeptOnlyAfterTwoCodes == ReaderAssumption => (Spec => []MutexGiven)
BY ExclusionAlways, PTL DEF Exclusion

-----------------------------------------------------------------------------
(* The line.  The module selected last before the command in hand is the   *)
(* one the pin points to.                                                  *)

LastSelected(p, s, m) ==
    \A k \in 1 .. s - 1 :
        p[k] \in Modules /\ (\A j \in k + 1 .. s - 1 : p[j] \notin Modules) => m = p[k]

Selection == \A t \in Tasks : InCall(t) => LastSelected(task[t].prog, task[t].step, module)

LEMMA SelectionRight == ASSUME Shape, Selection PROVE RightModule
<1> SUFFICES ASSUME NEW t \in Tasks, task[t].pc \in {"await", "more"}
             PROVE  module = DeviceOf(Command(t))
  BY DEF RightModule
<1>1. InCall(t) /\ Command(t) \notin Modules
  BY DEF InCall, Shape
<1>2. task[t].prog \in Programs /\ task[t].step \in Positions(task[t].prog)
  BY <1>1, CommandKnown
<1>3. PICK k \in 1 .. task[t].step - 1 :
          /\ task[t].prog[k] = DeviceOf(Command(t)) /\ task[t].prog[k] \in Modules
          /\ \A j \in k + 1 .. task[t].step - 1 : task[t].prog[j] \notin Modules
  BY <1>1, <1>2, ProgramShape DEF Command
<1> QED
  BY <1>1, <1>3 DEF Selection, LastSelected

(* One step further in the program. *)
LEMMA NextSelected ==
    ASSUME NEW p, NEW s \in Nat, NEW m, NEW n,
           p[s] \in Modules => n = p[s],
           p[s] \notin Modules => n = m /\ LastSelected(p, s, m)
    PROVE  LastSelected(p, s + 1, n)
<1> SUFFICES ASSUME NEW k \in 1 .. s, p[k] \in Modules,
                    \A j \in k + 1 .. s : p[j] \notin Modules
             PROVE  n = p[k]
  BY DEF LastSelected
<1>1. CASE k = s
  BY <1>1
<1>2. CASE k # s
  <2>1. s \in k + 1 .. s /\ k \in 1 .. s - 1
    BY <1>2
  <2>2. p[s] \notin Modules
    BY <2>1
  <2>3. \A j \in k + 1 .. s - 1 : p[j] \notin Modules
    OBVIOUS
  <2> QED
    BY <2>1, <2>2, <2>3 DEF LastSelected
<1> QED
  BY <1>1, <1>2

(* What a step does to the line: a selection, a step that leaves the line  *)
(* alone, or the start of the program.                                     *)
LEMMA LineKinds ==
    ASSUME ReaderAssumption, Shape, NEW t \in Tasks, TaskStep(t)
    PROVE  \/ SelectModule(t)
           \/ TakesMutex(t) /\ UNCHANGED module
           \/ InCall(t) /\ Command(t) \notin Modules /\ UNCHANGED module /\ (GoesOn(t) \/ Ends(t))
<1> SUFFICES ASSUME ~ SelectModule(t)
             PROVE  \/ TakesMutex(t) /\ UNCHANGED module
                    \/ /\ InCall(t) /\ Command(t) \notin Modules /\ UNCHANGED module
                       /\ GoesOn(t) \/ Ends(t)
  OBVIOUS
<1>1. UNCHANGED module
  BY Zenon DEF TaskStep, TakeMutex, Send, Timeout, Receive, ReceiveInventory, ReceiveTag,
     TagsMissing, JumboMessage, ReadError
<1>2. TakesMutex(t) \/ GoesOn(t) \/ Ends(t)
  BY StepKinds
<1>3. CASE GoesOn(t) \/ Ends(t)
  <2>1. InCall(t)
    BY <1>3 DEF GoesOn, Ends
  <2>2. Send(t) \/ task[t].pc \in {"await", "more", "take"}
    BY DEF TaskStep, TakeMutex, Timeout, Receive, ReceiveInventory, ReceiveTag, TagsMissing,
       JumboMessage, ReadError
  <2>3. Command(t) \notin Modules
    BY <2>1, <2>2 DEF Send, Shape, InCall
  <2> QED
    BY <1>1, <1>3, <2>1, <2>3
<1> QED
  BY <1>1, <1>2, <1>3

LEMMA SelectionTaskStep ==
    ASSUME ReaderAssumption, Shape, Exclusion, Selection, NEW t \in Tasks, TaskStep(t)
    PROVE  Selection'
<1> DEFINE p == task[t].prog
           s == task[t].step
<1> task[t] \in Records
  BY DEF Shape
<1>0. s \in Nat
  BY DEF Records
<1>1. ASSUME NEW r \in Records, task' = [task EXCEPT ![t] = r],
             r.pc = "idle" \/ LastSelected(r.prog, r.step, module'),
             \/ UNCHANGED module
             \/ InCall(t)
      PROVE  Selection'
  <2>1. \A u \in Tasks : task'[u] = IF u = t THEN r ELSE task[u]
    BY <1>1 DEF Shape
  <2>2. ASSUME NEW u \in Tasks, InCall(u)'
        PROVE  LastSelected(task'[u].prog, task'[u].step, module')
    <3>1. CASE u = t
      BY <1>1, <2>1, <2>2, <3>1 DEF InCall
    <3>2. CASE u # t
      <4>1. InCall(u) /\ task'[u] = task[u]
        BY <2>1, <2>2, <3>2 DEF InCall
      <4>2. UNCHANGED module
        BY <1>1, <3>2, <4>1 DEF Exclusion, OneCallAtATime
      <4> QED
        BY <4>1, <4>2 DEF Selection
    <3> QED
      BY <3>1, <3>2
  <2> QED
    BY <2>2 DEF Selection
<1>2. CASE SelectModule(t)
  <2>1. InCall(t) /\ module' = p[s] /\ p[s] \in Modules /\ StepDone(t)
    BY <1>2 DEF SelectModule, InCall, Command
  <2>2. CASE s < Len(p)
    <3> DEFINE r == [task[t] EXCEPT !.pc = "run", !.step = @ + 1, !.tries = 0]
    <3>1. task' = [task EXCEPT ![t] = r]
      BY <2>1, <2>2 DEF StepDone, Shape
    <3>2. s + 1 \in 0 .. 6
      <4>1. Len(p) \in 2 .. 6 /\ s \in Positions(p)
        BY <2>1, CommandKnown, ProgramShape
      <4>2. \A a \in Nat, b \in 2 .. 6 : a < b => a + 1 \in 0 .. 6
        OBVIOUS
      <4> QED
        BY <1>0, <2>2, <4>1, <4>2, Zenon
    <3>3. r \in Records /\ r.prog = p /\ r.step = s + 1
      BY <3>2, ZenonT(60) DEF Records
    <3>4. LastSelected(p, s + 1, module')
      <4> HIDE DEF p, s
      <4> QED
        BY <1>0, <2>1, NextSelected
    <3> HIDE DEF r
    <3> QED
      BY <1>1, <2>1, <3>1, <3>3, <3>4
  <2>3. CASE ~ (s < Len(p))
    <3>1. Return(t, SUCCESS)
      BY <2>1, <2>3 DEF StepDone
    <3>2. task' = [task EXCEPT ![t] = Idle(SUCCESS, task[t].own)]
      BY <3>1 DEF Return
    <3>3. task[t].own \in BOOLEAN
      BY Zenon DEF Records
    <3> QED
      BY <1>1, <2>1, <3>2, <3>3, IdleRecord, CodesAreErrors
  <2> QED
    BY <2>2, <2>3
<1>3. CASE TakesMutex(t) /\ UNCHANGED module
  <2> DEFINE r == [task[t] EXCEPT !.pc = "run", !.step = 1]
  <2>1. r \in Records /\ r.step = 1
    <3>1. \A x \in Records, n \in 0 .. 6 :
             LET q == [x EXCEPT !.pc = "run", !.step = n] IN q \in Records /\ q.step = n
      BY DEF Records
    <3>2. 1 \in 0 .. 6
      OBVIOUS
    <3> QED
      BY <3>1, <3>2, Zenon
  <2>2. task' = [task EXCEPT ![t] = r]
    BY <1>3 DEF TakesMutex
  <2> HIDE DEF r
  <2>3. LastSelected(r.prog, r.step, module')
    BY <2>1 DEF LastSelected
  <2> QED
    BY <1>1, <1>3, <2>1, <2>2, <2>3
<1>4. CASE /\ InCall(t) /\ Command(t) \notin Modules /\ UNCHANGED module
           /\ GoesOn(t) \/ Ends(t)
  <2>1. CASE GoesOn(t)
    <3> PICK r \in Records :
          /\ task' = [task EXCEPT ![t] = r]
          /\ r.prog = p
          /\ r.step = s \/ r.step = s + 1
      BY <2>1 DEF GoesOn
    <3>1. LastSelected(p, s, module)
      BY <1>4 DEF Selection
    <3>2. LastSelected(p, s + 1, module')
      <4>1. p[s] \notin Modules /\ module' = module
        BY <1>4 DEF Command
      <4> HIDE DEF p, s
      <4> QED
        BY <1>0, <3>1, <4>1, NextSelected
    <3>3. LastSelected(r.prog, r.step, module')
      BY <1>4, <3>1, <3>2
    <3> QED
      BY <1>1, <1>4, <3>3
  <2>2. CASE Ends(t)
    BY <1>1, <1>4, <2>2, IdleRecord DEF Ends
  <2> QED
    BY <1>4, <2>1, <2>2
<1> QED
  BY <1>2, <1>3, <1>4, LineKinds

LEMMA SelectionStep ==
    ASSUME ReaderAssumption, Shape, Exclusion, Selection, Next PROVE Selection'
<1>1. CASE \E t \in Tasks : TaskStep(t)
  BY <1>1, SelectionTaskStep
<1>2. CASE MuxDevice \/ ReaderDevice \/ Unplug
  <2>1. UNCHANGED <<module, task>>
    BY <1>2, Zenon DEF MuxDevice, ReaderDevice, Unplug
  <2> QED
    BY <2>1 DEF Selection, InCall
<1>3. CASE \E t \in Tasks : Call(t)
  <2> PICK t \in Tasks : Call(t)
    BY <1>3
  <2>1. PICK r \in Records : task' = [task EXCEPT ![t] = r] /\ r.pc = "take"
    BY CallKind
  <2>2. module' = module
    BY DEF Call
  <2>3. \A u \in Tasks : task'[u] = IF u = t THEN r ELSE task[u]
    BY <2>1 DEF Shape
  <2> QED
    BY <2>1, <2>2, <2>3 DEF Selection, InCall
<1> QED
  BY <1>1, <1>2, <1>3 DEF Next

LEMMA SelectionAlways == ReaderAssumption => (Spec => [](Shape /\ Selection))
<1> SUFFICES ASSUME ReaderAssumption PROVE Spec => [](Shape /\ Selection)
  OBVIOUS
<1>1. Init => Selection
  BY DEF Init, Idle, Selection, InCall
<1>2. Selection /\ (TypeOK /\ Shape) /\ Exclusion /\ [Next]_vars => Selection'
  <2> SUFFICES ASSUME Selection, TypeOK, Shape, Exclusion, [Next]_vars PROVE Selection'
    OBVIOUS
  <2>1. CASE UNCHANGED vars
    BY <2>1 DEF vars, Selection, InCall
  <2> QED
    BY <2>1, SelectionStep
<1> QED
  BY <1>1, <1>2, ShapeAlways, ExclusionAlways, PTL DEF Spec

(* While a command waits for its answer the GPIO pin points to its device, *)
(* whichever way the calls before it have ended.                           *)
THEOREM LineOnItsDevice == ReaderAssumption => (Spec => []RightModule)
<1> SUFFICES ASSUME ReaderAssumption PROVE Spec => []RightModule
  OBVIOUS
<1>1. Shape /\ Selection => RightModule
  BY SelectionRight
<1> QED
  BY <1>1, SelectionAlways, PTL

-----------------------------------------------------------------------------
(* Devices that are never late.  A command is under way only while its     *)
(* call waits for the answer, so what the buffer holds is the answer to    *)
(* the last try; and what a read has been answered has been done.          *)

Quiet == muxq = <<>> /\ readerq = <<>>

UnderWay(t) ==
    LET m == <<Command(t), task[t].ant>> IN
    \/ Command(t) \in MuxCommands /\ muxq = <<m>> /\ readerq = <<>>
    \/ Command(t) \in ReaderCommands /\ readerq = <<m>> /\ muxq = <<>>

(* What the devices have done for a read of the antenna a that has come to *)
(* its step s.                                                             *)
Done(s, a) ==
    /\ s > 2 => ant = a
    /\ s > 4 => power = a
    /\ s > 5 => stored.from = <<a, a>>

(* A good answer has come. *)
Answered(t) ==
    /\ task[t].pc = "await" /\ rx # <<>>
    /\ Command(t) \in {"inventory", "fetch"} \/ Head(rx).num = 0

CallInv(t) ==
    /\ task[t].pc = "await" => Quiet \/ (rx = <<>> /\ UnderWay(t))
    /\ task[t].pc \in {"await", "more"} => \A i \in 1 .. Len(rx) : rx[i].cmd = Command(t)
    /\ task[t].prog = ReadTagsMetaDataRSSI =>
          /\ Done(task[t].step, task[t].ant)
          /\ Answered(t) => Done(task[t].step + 1, task[t].ant)
          /\ task[t].pc \in {"await", "more"} /\ Command(t) = "fetch" =>
                \A i \in 1 .. Len(rx) : rx[i].from = <<task[t].ant, task[t].ant>>

LineInv ==
    /\ (\A t \in Tasks : task[t].pc # "await") => Quiet
    /\ \A t \in Tasks : InCall(t) => CallInv(t)
    /\ ReadsNamedAntenna

(* The commands of a read are in no other program. *)
LEMMA ReadCommands ==
    ASSUME NEW p \in Programs, NEW s \in Positions(p)
    PROVE  /\ p = ReadTagsMetaDataRSSI =>
                 s \in 1 .. 6 /\ p[s] = <<"MUX", "antport", "READER", "power", "inventory", "fetch">>[s]
           /\ p[s] \in {"antport", "power", "inventory", "fetch"} => p = ReadTagsMetaDataRSSI
<1>1. CASE p = ReadTagsMetaDataRSSI
  BY <1>1 DEF ReadTagsMetaDataRSSI, Positions
<1>2. CASE p = GetAntList
  BY <1>2 DEF ReadTagsMetaDataRSSI, GetAntList, Positions
<1>3. CASE p = SyncChannel
  BY <1>3 DEF ReadTagsMetaDataRSSI, SyncChannel, Positions
<1>4. CASE p = EquipTempGet
  BY <1>4 DEF ReadTagsMetaDataRSSI, EquipTempGet, Positions
<1> QED
  BY <1>1, <1>2, <1>3, <1>4 DEF Programs

LEMMA ReadSteps ==
    ASSUME Shape, NEW t \in Tasks, InCall(t)
    PROVE  /\ task[t].prog = ReadTagsMetaDataRSSI =>
                 /\ task[t].step \in 1 .. 6
                 /\ Command(t) = "antport" <=> task[t].step = 2
                 /\ Command(t) = "power" <=> task[t].step = 4
                 /\ Command(t) = "inventory" <=> task[t].step = 5
                 /\ Command(t) = "fetch" <=> task[t].step = 6
                 /\ Command(t) \in Modules <=> task[t].step \in {1, 3}
           /\ Command(t) \in {"antport", "power", "inventory", "fetch"} =>
                 task[t].prog = ReadTagsMetaDataRSSI
<1>1. task[t].prog \in Programs /\ task[t].step \in Positions(task[t].prog)
  BY CommandKnown
<1>2. \A s \in 1 .. 6 : LET c == <<"MUX", "antport", "READER", "power", "inventory", "fetch">>[s] IN
         /\ c = "antport" <=> s = 2
         /\ c = "power" <=> s = 4
         /\ c = "inventory" <=> s = 5
         /\ c = "fetch" <=> s = 6
         /\ c \in Modules <=> s \in {1, 3}
  BY DEF Modules
<1> QED
  BY <1>1, <1>2, ReadCommands DEF Command

(* Nobody else is in a call. *)
LEMMA Alone ==
    ASSUME Exclusion, NEW t \in Tasks, InCall(t)
    PROVE  \A u \in Tasks : u # t => ~ InCall(u) /\ task[u].pc # "await"
BY DEF Exclusion, OneCallAtATime, InCall

(* A call goes on with its next command, or with another try, or ends. *)
LEMMA CallGoesOn ==
    ASSUME Shape, Exclusion, LineInv, NEW t \in Tasks, InCall(t), Quiet, UNCHANGED deviceVars,
           NEW r, task' = [task EXCEPT ![t] = r], r.own,
           \/ r.pc = "idle"
           \/ /\ r.pc = "run"
              /\ r.prog = ReadTagsMetaDataRSSI => Done(r.step, r.ant)
    PROVE  LineInv'
<1>1. task'[t] = r /\ \A u \in Tasks : u # t => task'[u] = task[u]
  BY DEF Shape
<1>2. Quiet'
  BY DEF Quiet, deviceVars
<1>3. ASSUME NEW u \in Tasks, InCall(u)' PROVE CallInv(u)'
  <2>1. u = t /\ r.pc = "run"
    BY <1>1, <1>3, Alone DEF InCall
  <2>2. ~ Answered(u)' /\ task'[u].pc \notin {"await", "more"}
    BY <1>1, <2>1 DEF Answered
  <2>3. task'[u].prog = ReadTagsMetaDataRSSI => Done(task[u].step, task[u].ant)'
    BY <1>1, <2>1 DEF Done, deviceVars
  <2> QED
    BY <2>2, <2>3 DEF CallInv
<1>4. ReadsNamedAntenna'
  BY <1>1 DEF LineInv, ReadsNamedAntenna
<1> QED
  BY <1>2, <1>3, <1>4 DEF LineInv

LEMMA CallReturns ==
    ASSUME Shape, Exclusion, LineInv, NEW t \in Tasks, InCall(t), Quiet, UNCHANGED deviceVars,
           NEW err, Return(t, err)
    PROVE  LineInv'
<1>1. task[t].own
  BY DEF LineInv, ReadsNamedAntenna
<1>2. \A o : Idle(err, o).pc = "idle" /\ Idle(err, o).own = o
  BY DEF Idle
<1> QED
  BY <1>1, <1>2, CallGoesOn DEF Return

(* A record of a call with other fields. *)
LEMMA Advanced ==
    ASSUME NEW x \in Records, NEW n
    PROVE  LET r == [x EXCEPT !.pc = "run", !.step = @ + 1, !.tries = 0, !.left = n] IN
           r.pc = "run" /\ r.prog = x.prog /\ r.ant = x.ant /\ r.step = x.step + 1 /\ r.own = x.own
BY DEF Records

LEMMA CallStepDone ==
    ASSUME Shape, Exclusion, LineInv, NEW t \in Tasks, InCall(t), Quiet, UNCHANGED deviceVars,
           StepDone(t),
           task[t].prog = ReadTagsMetaDataRSSI => Done(task[t].step + 1, task[t].ant)
    PROVE  LineInv'
<1>1. task[t].own /\ task[t] \in Records
  BY DEF LineInv, ReadsNamedAntenna, Shape
<1>2. CASE task[t].step < Len(task[t].prog)
  <2> DEFINE r == [task[t] EXCEPT !.pc = "run", !.step = @ + 1, !.tries = 0]
  <2>1. task' = [task EXCEPT ![t] = r]
    BY <1>2 DEF StepDone, Shape
  <2>2. r.pc = "run" /\ r.prog = task[t].prog /\ r.ant = task[t].ant /\ r.step = task[t].step + 1
        /\ r.own = task[t].own
    BY <1>1 DEF Records
  <2> HIDE DEF r
  <2> QED
    BY <1>1, <2>1, <2>2, CallGoesOn
<1>3. CASE ~ (task[t].step < Len(task[t].prog))
  BY <1>3, CallReturns DEF StepDone
<1> QED
  BY <1>2, <1>3

(* A call sends: nothing else was under way. *)
LEMMA SendLine ==
    ASSUME Shape, Exclusion, LineInv, NEW t \in Tasks, Send(t) PROVE LineInv'
<1>0. task[t].own /\ task[t] \in Records /\ InCall(t) /\ task[t].pc = "run" /\ Command(t) \notin Modules
  BY DEF LineInv, ReadsNamedAntenna, Shape, Send, InCall
<1>1. Quiet
  BY <1>0, Alone DEF LineInv
<1> DEFINE r == [task[t] EXCEPT !.pc = "await", !.tries = @ + 1]
<1>2. task' = [task EXCEPT ![t] = r] /\ rx' = <<>> /\ UNCHANGED <<ant, power, stored>>
  BY DEF Send, Shape
<1>3. r.pc = "await" /\ r.prog = task[t].prog /\ r.ant = task[t].ant /\ r.step = task[t].step
      /\ r.own = task[t].own
  BY <1>0 DEF Records
<1> HIDE DEF r
<1>4. task'[t] = r /\ \A u \in Tasks : u # t => task'[u] = task[u]
  BY <1>2 DEF Shape
<1>5. Command(t)' = Command(t)
  BY <1>3, <1>4 DEF Command
<1>6. Quiet' \/ UnderWay(t)'
  <2>1. UnderWay(t)' = LET m == <<Command(t), task[t].ant>> IN
            \/ Command(t) \in MuxCommands /\ muxq' = <<m>> /\ readerq' = <<>>
            \/ Command(t) \in ReaderCommands /\ readerq' = <<m>> /\ muxq' = <<>>
    BY <1>3, <1>4, <1>5 DEF UnderWay
  <2>2. \A m : Append(<<>>, m) = <<m>>
    OBVIOUS
  <2> QED
    BY <1>1, <2>1, <2>2 DEF Send, Quiet
<1>7. CallInv(t)'
  <2>1. \A i \in 1 .. Len(rx') : FALSE
    BY <1>2
  <2>2. ~ Answered(t)'
    BY <1>2 DEF Answered
  <2>3. task'[t].prog = ReadTagsMetaDataRSSI => Done(task[t].step, task[t].ant)'
    <3>1. task[t].prog = ReadTagsMetaDataRSSI => Done(task[t].step, task[t].ant)
      BY <1>0 DEF LineInv, CallInv
    <3>2. task'[t].prog = task[t].prog /\ task'[t].step = task[t].step /\ task'[t].ant = task[t].ant
      BY <1>3, <1>4
    <3> QED
      BY <1>2, <3>1, <3>2 DEF Done
  <2>4. Quiet' \/ (rx' = <<>> /\ UnderWay(t)')
    BY <1>2, <1>6
  <2>5. /\ \A i \in 1 .. Len(rx') : rx'[i].cmd = Command(t)'
        /\ \A i \in 1 .. Len(rx') : rx'[i].from = <<task'[t].ant, task'[t].ant>>
    BY <2>1
  <2> QED
    BY <2>2, <2>3, <2>4, <2>5, Zenon DEF CallInv
<1>8. \A u \in Tasks : InCall(u)' => u = t
  BY <1>0, <1>4, Alone DEF InCall
<1>9. ReadsNamedAntenna'
  BY <1>0, <1>3, <1>4 DEF LineInv, ReadsNamedAntenna
<1> QED
  BY <1>3, <1>4, <1>7, <1>8, <1>9 DEF LineInv

(* While an answer is in the buffer of a waiting call nothing is under way. *)
LEMMA WaitingQuiet ==
    ASSUME Exclusion, LineInv, NEW t \in Tasks, InCall(t),
           rx # <<>> \/ task[t].pc # "await" \/ (muxq = <<>> /\ readerq = <<>>)
    PROVE  Quiet
<1>1. CASE task[t].pc # "await"
  BY <1>1, Alone DEF LineInv
<1>2. CASE task[t].pc = "await"
  BY <1>2 DEF LineInv, CallInv, Quiet
<1> QED
  BY <1>1, <1>2

LEMMA TimeoutLine ==
    ASSUME ~ Late, Shape, Exclusion, LineInv, NEW t \in Tasks, Timeout(t) \/ TagsMissing(t)
    PROVE  LineInv'
<1>0. task[t].own /\ task[t] \in Records /\ InCall(t) /\ UNCHANGED deviceVars
  BY DEF LineInv, ReadsNamedAntenna, Shape, Timeout, TagsMissing, InCall
<1>1. Quiet
  BY <1>0, WaitingQuiet DEF Timeout, TagsMissing
<1>2. CASE Timeout(t) /\ task[t].tries < 3
  <2> DEFINE r == [task[t] EXCEPT !.pc = "run"]
  <2>1. task' = [task EXCEPT ![t] = r]
    BY <1>2 DEF Timeout, Shape
  <2>2. r.pc = "run" /\ r.prog = task[t].prog /\ r.ant = task[t].ant /\ r.step = task[t].step
        /\ r.own = task[t].own
    BY <1>0 DEF Records
  <2> HIDE DEF r
  <2>3. r.prog = ReadTagsMetaDataRSSI => Done(r.step, r.ant)
    BY <1>0, <2>2 DEF LineInv, CallInv
  <2> QED
    BY <1>0, <1>1, <2>1, <2>2, <2>3, CallGoesOn
<1>3. CASE ~ (Timeout(t) /\ task[t].tries < 3)
  BY <1>0, <1>1, <1>3, CallReturns DEF Timeout, TagsMissing
<1> QED
  BY <1>2, <1>3

LEMMA ReceiveLine ==
    ASSUME Shape, Exclusion, LineInv, NEW t \in Tasks, Receive(t) PROVE LineInv'
<1>0. /\ InCall(t) /\ task[t].pc = "await" /\ rx # <<>> /\ UNCHANGED deviceVars
      /\ Judge(t, Head(rx)) /\ Command(t) \notin {"inventory", "fetch"}
      /\ Command(t) \notin Modules /\ CallInv(t)
  BY DEF Receive, InCall, Shape, LineInv
<1>1. Quiet
  BY <1>0, WaitingQuiet
<1>2. ASSUME StepDone(t), Command(t) \in {"antport", "power"} => Head(rx).num = 0 PROVE LineInv'
  <2>1. task[t].prog = ReadTagsMetaDataRSSI => Command(t) \in {"antport", "power"}
    BY <1>0, ReadSteps
  <2>2. task[t].prog = ReadTagsMetaDataRSSI => Answered(t)
    BY <1>0, <1>2, <2>1 DEF Answered
  <2>3. task[t].prog = ReadTagsMetaDataRSSI => Done(task[t].step + 1, task[t].ant)
    BY <1>0, <2>2 DEF CallInv
  <2> QED
    BY <1>0, <1>1, <1>2, <2>3, CallStepDone
<1>3. ASSUME NEW err, Return(t, err) PROVE LineInv'
  BY <1>0, <1>1, <1>3, CallReturns
<1>4. Command(t) \in {"antmap", "rescan", "antport", "power", "temp"}
  BY <1>0, CommandKnown DEF MuxCommands, ReaderCommands
<1>5. CASE Command(t) \in {"antmap", "rescan", "temp"}
  BY <1>0, <1>2, <1>3, <1>5 DEF Judge
<1>6. CASE Command(t) = "antport"
  BY <1>0, <1>2, <1>3, <1>6 DEF Judge
<1>7. CASE Command(t) = "power"
  BY <1>0, <1>2, <1>3, <1>7 DEF Judge
<1> QED
  BY <1>4, <1>5, <1>6, <1>7

LEMMA ReceiveInventoryLine ==
    ASSUME Shape, Exclusion, LineInv, NEW t \in Tasks, ReceiveInventory(t) PROVE LineInv'
<1>0. /\ InCall(t) /\ task[t].pc = "await" /\ rx # <<>> /\ UNCHANGED deviceVars
      /\ Command(t) = "inventory" /\ CallInv(t) /\ task[t].own /\ task[t] \in Records
  BY DEF ReceiveInventory, InCall, Shape, LineInv, ReadsNamedAntenna
<1>1. Quiet
  BY <1>0, WaitingQuiet
<1>2. task[t].prog = ReadTagsMetaDataRSSI => Done(task[t].step + 1, task[t].ant)
  BY <1>0 DEF CallInv, Answered
<1>3. CASE Return(t, INVALID) \/ Return(t, SUCCESS)
  BY <1>0, <1>1, <1>3, CallReturns
<1>4. ASSUME NEW n,
             task' = [task EXCEPT ![t].pc = "run", ![t].step = @ + 1, ![t].tries = 0, ![t].left = n]
      PROVE  LineInv'
  <2> DEFINE r == [task[t] EXCEPT !.pc = "run", !.step = @ + 1, !.tries = 0, !.left = n]
  <2>1. task' = [task EXCEPT ![t] = r]
    BY <1>4 DEF Shape
  <2>2. r.pc = "run" /\ r.prog = task[t].prog /\ r.ant = task[t].ant /\ r.step = task[t].step + 1
        /\ r.own = task[t].own
    BY <1>0, Advanced
  <2> HIDE DEF r
  <2> QED
    BY <1>0, <1>1, <1>2, <2>1, <2>2, CallGoesOn
<1> QED
  BY <1>3, <1>4 DEF ReceiveInventory

LEMMA ReceiveTagLine ==
    ASSUME Shape, Exclusion, LineInv, NEW t \in Tasks, ReceiveTag(t) PROVE LineInv'
<1>0. /\ InCall(t) /\ task[t].pc \in {"await", "more"} /\ rx # <<>> /\ UNCHANGED deviceVars
      /\ Command(t) = "fetch" /\ CallInv(t) /\ task[t].own /\ task[t] \in Records
      /\ rx \in Seq(Replies) /\ rx' = Tail(rx) /\ task[t].prog = ReadTagsMetaDataRSSI
  BY ReadSteps DEF ReceiveTag, InCall, Shape, LineInv, ReadsNamedAntenna
<1>1. Quiet
  BY <1>0, WaitingQuiet
<1>2. \A i \in 1 .. Len(rx) : rx[i].cmd = Command(t) /\ rx[i].from = <<task[t].ant, task[t].ant>>
  BY <1>0 DEF CallInv
<1>3. Head(rx).from = <<task[t].ant, task[t].ant>>
  BY <1>0, <1>2
<1>4. \A i \in 1 .. Len(rx') : rx'[i].cmd = Command(t) /\ rx'[i].from = <<task[t].ant, task[t].ant>>
  <2>1. Len(Tail(rx)) = Len(rx) - 1 /\ \A i \in 1 .. Len(Tail(rx)) : Tail(rx)[i] = rx[i + 1]
    BY <1>0, HeadTailProperties
  <2>2. Len(rx) \in Nat
    BY <1>0
  <2> QED
    BY <1>0, <1>2, <2>1, <2>2
<1> DEFINE own == task[t].own /\ Head(rx).from = <<task[t].ant, task[t].ant>>
<1>5. own
  BY <1>0, <1>3
<1> HIDE DEF own
<1>6. CASE task[t].left > 1
  <2> DEFINE r == [task[t] EXCEPT !.pc = "more", !.left = @ - 1, !.own = own]
  <2>1. task' = [task EXCEPT ![t] = r]
    BY <1>6 DEF ReceiveTag, Shape, own
  <2>2. r.pc = "more" /\ r.prog = task[t].prog /\ r.ant = task[t].ant /\ r.step = task[t].step
    BY <1>0 DEF Records
  <2>3. r.own
    <3>1. \A x \in Records : \A l, k, o : [x EXCEPT !.pc = l, !.left = k, !.own = o].own = o
      BY DEF Records
    <3> QED
      BY <1>0, <1>5, <3>1
  <2> HIDE DEF r
  <2>4. task'[t] = r /\ \A u \in Tasks : u # t => task'[u] = task[u]
    BY <2>1 DEF Shape
  <2>5. Quiet'
    BY <1>0, <1>1 DEF Quiet, deviceVars
  <2>6. CallInv(t)'
    <3>1. Command(t)' = Command(t)
      BY <2>2, <2>4 DEF Command
    <3>2. ~ Answered(t)' /\ task'[t].pc # "await"
      BY <2>2, <2>4 DEF Answered
    <3>3. Done(task[t].step, task[t].ant)'
      <4>1. Done(task[t].step, task[t].ant)
        BY <1>0 DEF CallInv
      <4> QED
        BY <1>0, <2>2, <2>4, <4>1 DEF Done, deviceVars
    <3>4. /\ \A i \in 1 .. Len(rx') : rx'[i].cmd = Command(t)'
          /\ \A i \in 1 .. Len(rx') : rx'[i].from = <<task'[t].ant, task'[t].ant>>
      BY <1>4, <2>2, <2>4, <3>1
    <3> QED
      BY <3>2, <3>3, <3>4, Zenon DEF CallInv
  <2>7. \A u \in Tasks : InCall(u)' => u = t
    BY <1>0, <2>4, Alone DEF InCall
  <2>8. ReadsNamedAntenna'
    BY <2>3, <2>4 DEF LineInv, ReadsNamedAntenna
  <2> QED
    BY <2>5, <2>6, <2>7, <2>8 DEF LineInv
<1>7. CASE ~ (task[t].left > 1)
  <2>1. task' = [task EXCEPT ![t] = Idle(SUCCESS, own)]
    BY <1>7 DEF ReceiveTag, own
  <2>2. Idle(SUCCESS, own).pc = "idle" /\ Idle(SUCCESS, own).own = own
    BY DEF Idle
  <2> QED
    BY <1>0, <1>1, <1>5, <2>1, <2>2, CallGoesOn
<1> QED
  BY <1>6, <1>7

LEMMA TaskLine ==
    ASSUME ~ Late, Shape, Exclusion, LineInv, port = "open",
           NEW t \in Tasks, TaskStep(t) \/ Call(t)
    PROVE  LineInv'
<1>0. task[t].own /\ task[t] \in Records
  BY DEF LineInv, ReadsNamedAntenna, Shape
<1>1. CASE Send(t)
  BY <1>1, SendLine
<1>2. CASE Timeout(t) \/ TagsMissing(t)
  BY <1>2, TimeoutLine
<1>3. CASE Receive(t) \/ ReceiveInventory(t) \/ ReceiveTag(t)
  BY <1>3, ReceiveLine, ReceiveInventoryLine, ReceiveTagLine
<1>4. CASE JumboMessage(t)
  <2>1. InCall(t) /\ Quiet /\ UNCHANGED deviceVars
    BY <1>4, WaitingQuiet DEF JumboMessage, InCall
  <2> QED
    BY <1>4, <2>1, CallReturns DEF JumboMessage
<1>5. CASE SelectModule(t)
  <2>1. /\ InCall(t) /\ task[t].pc = "run" /\ Command(t) \in Modules /\ StepDone(t)
        /\ UNCHANGED deviceVars
    BY <1>5 DEF SelectModule, InCall
  <2>2. Quiet
    BY <2>1, WaitingQuiet
  <2>3. task[t].prog = ReadTagsMetaDataRSSI => Done(task[t].step + 1, task[t].ant)
    <3>1. task[t].prog = ReadTagsMetaDataRSSI =>
             task[t].step \in {1, 3} /\ Done(task[t].step, task[t].ant)
      BY <2>1, ReadSteps DEF LineInv, CallInv
    <3> QED
      BY <3>1 DEF Done
  <2> QED
    BY <2>1, <2>2, <2>3, CallStepDone
<1>6. CASE TakeMutex(t) \/ Call(t)
  <2>1. UNCHANGED <<rx, deviceVars>> /\ task[t].pc \in {"idle", "take"}
    BY <1>6 DEF TakeMutex, Call
  <2>2. PICK r : /\ task' = [task EXCEPT ![t] = r] /\ r.own
                 /\ r.pc = "take" \/ (r.pc = "run" /\ r.step = 1)
    <3>1. CASE TakeMutex(t)
      <4>1. task' = [task EXCEPT ![t] = [task[t] EXCEPT !.pc = "run", !.step = 1]]
        BY <3>1 DEF TakeMutex, Shape
      <4>2. LET q == [task[t] EXCEPT !.pc = "run", !.step = 1] IN
            q.own = task[t].own /\ q.pc = "run" /\ q.step = 1
        BY <1>0 DEF Records
      <4> QED
        BY <1>0, <4>1, <4>2
    <3>2. CASE Call(t)
      <4>1. PICK e, p, a : task' = [task EXCEPT ![t] =
                              [Idle(e, TRUE) EXCEPT !.pc = "take", !.prog = p, !.ant = a]]
        BY <3>2 DEF Call
      <4>2. LET q == [Idle(e, TRUE) EXCEPT !.pc = "take", !.prog = p, !.ant = a] IN
            q.own /\ q.pc = "take"
        BY DEF Idle
      <4> QED
        BY <4>1, <4>2
    <3> QED
      BY <1>6, <3>1, <3>2
  <2>3. task'[t] = r /\ \A u \in Tasks : u # t => task'[u] = task[u]
    BY <2>2 DEF Shape
  <2>4. (\A u \in Tasks : task'[u].pc # "await") => Quiet'
    BY <2>1, <2>2, <2>3 DEF LineInv, Quiet, deviceVars
  <2>5. ASSUME NEW u \in Tasks, InCall(u)' PROVE CallInv(u)'
    <3>1. CASE u = t
      <4>1. task'[u].pc = "run" /\ task'[u].step = 1
        BY <2>2, <2>3, <2>5, <3>1 DEF InCall
      <4>2. Done(task[u].step, task[u].ant)' /\ ~ Answered(u)'
        BY <4>1 DEF Done, Answered
      <4> QED
        BY <4>1, <4>2 DEF CallInv
    <3>2. CASE u # t
      <4>1. InCall(u) /\ task'[u] = task[u] /\ CallInv(u)
        BY <2>3, <2>5, <3>2 DEF InCall, LineInv
      <4> QED
        BY <2>1, <4>1 DEF CallInv, Done, Answered, Quiet, UnderWay, Command, deviceVars
    <3> QED
      BY <3>1, <3>2
  <2>6. ReadsNamedAntenna'
    BY <2>2, <2>3 DEF LineInv, ReadsNamedAntenna
  <2> QED
    BY <2>4, <2>5, <2>6 DEF LineInv
<1> QED
  BY <1>1, <1>2, <1>3, <1>4, <1>5, <1>6 DEF TaskStep, ReadError

(* A device has handled the command of the call that waits. *)
LEMMA HandledLine ==
    ASSUME Shape, Exclusion, LineInv, UNCHANGED task, Quiet',
           NEW t \in Tasks, task[t].pc = "await",
           \A i \in 1 .. Len(rx') : rx'[i].cmd = Command(t),
           task[t].prog = ReadTagsMetaDataRSSI =>
              /\ Done(task[t].step, task[t].ant)'
              /\ Answered(t)' => Done(task[t].step + 1, task[t].ant)'
              /\ Command(t) = "fetch" =>
                    \A i \in 1 .. Len(rx') : rx'[i].from = <<task[t].ant, task[t].ant>>
    PROVE  LineInv'
<1>1. InCall(t)
  BY DEF InCall
<1>2. Command(t)' = Command(t)
  BY DEF Command
<1>3. CallInv(t)'
  BY <1>2, Zenon DEF CallInv
<1>4. \A u \in Tasks : InCall(u)' => u = t
  BY <1>1, Alone DEF InCall
<1> QED
  BY <1>3, <1>4 DEF LineInv, ReadsNamedAntenna

(* Whatever a device handles is what the waiting call has asked for. *)
LEMMA Asked ==
    ASSUME Shape, LineInv, ~ Quiet
    PROVE  \E t \in Tasks :
              /\ task[t].pc = "await" /\ InCall(t) /\ CallInv(t) /\ rx = <<>>
              /\ task[t].prog = ReadTagsMetaDataRSSI => Done(task[t].step, task[t].ant)
              /\ \/ /\ Command(t) \in MuxCommands
                    /\ muxq = <<<<Command(t), task[t].ant>>>> /\ readerq = <<>>
                 \/ /\ Command(t) \in ReaderCommands
                    /\ readerq = <<<<Command(t), task[t].ant>>>> /\ muxq = <<>>
<1> PICK t \in Tasks : task[t].pc = "await"
  BY DEF LineInv
<1>1. InCall(t) /\ CallInv(t)
  BY DEF LineInv, InCall
<1> QED
  BY <1>1 DEF CallInv, UnderWay

LEMMA MuxLine ==
    ASSUME Shape, Exclusion, LineInv, MuxDevice PROVE LineInv'
<1>0. ~ Quiet /\ muxq # <<>> /\ UNCHANGED <<task, readerq, power, stored>>
  BY DEF MuxDevice, Quiet
<1> PICK t \in Tasks :
          /\ task[t].pc = "await" /\ InCall(t) /\ CallInv(t) /\ rx = <<>>
          /\ task[t].prog = ReadTagsMetaDataRSSI => Done(task[t].step, task[t].ant)
          /\ Command(t) \in MuxCommands
          /\ muxq = <<<<Command(t), task[t].ant>>>> /\ readerq = <<>>
  BY <1>0, Asked
<1>1. Quiet'
  BY <1>0 DEF MuxDevice, Quiet
<1>2. PICK status \in SlaveStatuses :
          /\ ant' = IF Command(t) = "antport" /\ status = 0 THEN task[t].ant ELSE ant
          /\ Answers("MUX", <<Answer(Command(t), status, NoReading)>>)
  BY DEF MuxDevice
<1>3. rx' = <<>> \/ rx' = <<Answer(Command(t), status, NoReading)>>
  <2>1. \A x : <<>> \o <<x>> = <<x>>
    OBVIOUS
  <2> QED
    BY <1>2, <2>1 DEF Answers
<1>4. \A i \in 1 .. Len(rx') : rx'[i].cmd = Command(t)
  BY <1>3 DEF Answer
<1>5. ASSUME task[t].prog = ReadTagsMetaDataRSSI
      PROVE  /\ Command(t) = "antport" /\ task[t].step = 2
             /\ Done(task[t].step, task[t].ant)'
             /\ Answered(t)' => Done(task[t].step + 1, task[t].ant)'
  <2>1. Command(t) = "antport" /\ task[t].step = 2
    BY <1>5, ReadSteps DEF MuxCommands, ReaderCommands, Modules
  <2>2. Done(task[t].step, task[t].ant)'
    BY <1>0, <2>1 DEF Done
  <2>3. ASSUME Answered(t)' PROVE Done(task[t].step + 1, task[t].ant)'
    <3>1. Command(t)' = Command(t)
      BY <1>0 DEF Command
    <3>2. status = 0
      BY <1>3, <2>1, <2>3, <3>1 DEF Answered, Answer
    <3>3. ant' = task[t].ant
      BY <1>2, <2>1, <3>2
    <3> QED
      BY <1>0, <2>1, <3>3 DEF Done
  <2> QED
    BY <2>1, <2>2, <2>3
<1> QED
  BY <1>0, <1>1, <1>4, <1>5, HandledLine

LEMMA ReaderLineStep ==
    ASSUME Shape, Exclusion, LineInv, ReaderDevice PROVE LineInv'
<1>0. ~ Quiet /\ readerq # <<>> /\ UNCHANGED <<task, muxq, ant>>
  BY DEF ReaderDevice, Quiet
<1> PICK t \in Tasks :
          /\ task[t].pc = "await" /\ InCall(t) /\ CallInv(t) /\ rx = <<>>
          /\ task[t].prog = ReadTagsMetaDataRSSI => Done(task[t].step, task[t].ant)
          /\ Command(t) \in ReaderCommands
          /\ readerq = <<<<Command(t), task[t].ant>>>> /\ muxq = <<>>
  BY <1>0, Asked
<1> DEFINE a == task[t].ant
<1>1. Quiet'
  BY <1>0 DEF ReaderDevice, Quiet
<1>2. Head(readerq)[1] = Command(t) /\ Head(readerq)[2] = a /\ Command(t)' = Command(t)
  BY <1>0 DEF Command
<1>4. CASE Command(t) = "inventory"
  <2>1. PICK n : /\ stored' = [n |-> n, from |-> <<ant, power>>]
                 /\ Answers("READER", <<Answer(Command(t), n, NoReading)>>) /\ UNCHANGED power
    BY <1>2, <1>4 DEF ReaderDevice
  <2>2. rx' = <<>> \/ rx' = <<Answer(Command(t), n, NoReading)>>
    <3>1. \A x : <<>> \o <<x>> = <<x>>
      OBVIOUS
    <3> QED
      BY <2>1, <3>1 DEF Answers
  <2>3. \A i \in 1 .. Len(rx') : rx'[i].cmd = Command(t)
    BY <2>2 DEF Answer
  <2>4. task[t].step = 5 /\ Done(5, a)
    BY <1>4, ReadSteps
  <2>5. Done(5, a)' /\ Done(6, a)'
    <3>1. ant' = a /\ power' = a /\ stored'.from = <<a, a>>
      BY <1>0, <2>1, <2>4 DEF Done
    <3> QED
      BY <1>0, <3>1 DEF Done
  <2>6. Done(task[t].step, task[t].ant)' /\ Done(task[t].step + 1, task[t].ant)'
    BY <1>0, <2>4, <2>5 DEF Done
  <2> QED
    BY <1>0, <1>1, <1>4, <2>3, <2>6, HandledLine
<1>5. CASE Command(t) = "fetch"
  <2>1. UNCHANGED <<stored, power>> /\
        \E sent \in 0 .. stored.n :
            Answers("READER", [i \in 1 .. sent |-> Answer(Command(t), 0, stored.from)])
    BY <1>2, <1>5 DEF ReaderDevice
  <2>2. PICK sent \in Nat :
            Answers("READER", [i \in 1 .. sent |-> Answer(Command(t), 0, stored.from)])
    <3>1. 0 .. stored.n \subseteq Nat
      OBVIOUS
    <3> QED
      BY <2>1, <3>1, Zenon
  <2>3. \A i \in 1 .. Len(rx') : rx'[i].cmd = Command(t) /\ rx'[i].from = stored.from
    <3> DEFINE x == Answer(Command(t), 0, stored.from)
               fetched == [i \in 1 .. sent |-> x]
    <3>1. rx' = <<>> \/ rx' = <<>> \o fetched
      BY <2>2 DEF Answers
    <3>2. x.cmd = Command(t) /\ x.from = stored.from
      BY DEF Answer
    <3> HIDE DEF x
    <3>3. fetched \in Seq({x}) /\ Len(fetched) = sent /\ \A i \in 1 .. sent : fetched[i] = x
      OBVIOUS
    <3>4. <<>> \o fetched = fetched
      BY <3>3
    <3> HIDE DEF fetched
    <3> QED
      BY <3>1, <3>2, <3>3, <3>4
  <2>4. task[t].step = 6 /\ Done(6, a)
    BY <1>5, ReadSteps
  <2>5. stored.from = <<a, a>>
    BY <2>4 DEF Done
  <2>6. Done(task[t].step, task[t].ant)' /\ Done(task[t].step + 1, task[t].ant)'
    BY <1>0, <2>1, <2>4 DEF Done
  <2> QED
    BY <1>0, <1>1, <2>3, <2>5, <2>6, HandledLine
<1>6. CASE Command(t) \in {"power", "temp"}
  <2>1. PICK failed \in {0, 1} :
            /\ power' = IF Command(t) = "power" /\ failed = 0 THEN a ELSE power
            /\ Answers("READER", <<Answer(Command(t), failed, NoReading)>>)
            /\ UNCHANGED stored
    BY <1>2, <1>6 DEF ReaderDevice
  <2>2. rx' = <<>> \/ rx' = <<Answer(Command(t), failed, NoReading)>>
    <3>1. \A x : <<>> \o <<x>> = <<x>>
      OBVIOUS
    <3> QED
      BY <2>1, <3>1 DEF Answers
  <2>3. \A i \in 1 .. Len(rx') : rx'[i].cmd = Command(t)
    BY <2>2 DEF Answer
  <2>4. ASSUME task[t].prog = ReadTagsMetaDataRSSI
        PROVE  /\ Done(task[t].step, task[t].ant)'
               /\ Answered(t)' => Done(task[t].step + 1, task[t].ant)'
    <3>1. Command(t) = "power" /\ task[t].step = 4 /\ Done(4, a)
      BY <1>6, <2>4, ReadSteps DEF Modules
    <3>2. Done(task[t].step, task[t].ant)'
      BY <1>0, <3>1 DEF Done
    <3>3. ASSUME Answered(t)' PROVE Done(task[t].step + 1, task[t].ant)'
      <4>1. failed = 0
        BY <1>2, <2>2, <3>1, <3>3 DEF Answered, Answer
      <4>2. power' = a /\ ant' = a
        BY <1>0, <2>1, <3>1, <4>1 DEF Done
      <4> QED
        BY <1>0, <3>1, <4>2 DEF Done
    <3> QED
      BY <3>2, <3>3
  <2> QED
    BY <1>0, <1>1, <1>6, <2>3, <2>4, HandledLine
<1> QED
  BY <1>4, <1>5, <1>6 DEF ReaderCommands

(* Without the port nothing is received any more. *)
PortInv ==
    /\ port \in {"open", "gone"}
    /\ port = "open" => LineInv
    /\ port = "gone" => rx = <<>> /\ ReadsNamedAntenna

(* A step of a call that has received nothing leaves its mark alone.       *)
LEMMA GoneTask ==
    ASSUME Shape, ReadsNamedAntenna, rx = <<>>, NEW t \in Tasks, TaskStep(t) \/ Call(t)
    PROVE  rx' = <<>> /\ ReadsNamedAntenna'
<1>0. task[t].own /\ task[t] \in Records
  BY DEF ReadsNamedAntenna, Shape
<1>1. rx' = <<>>
  BY Zenon DEF Call, TaskStep, TakeMutex, SelectModule, Send, Timeout, Receive,
     ReceiveInventory, ReceiveTag, TagsMissing, JumboMessage, ReadError
<1>2. ASSUME NEW r, task' = [task EXCEPT ![t] = r], r.own PROVE ReadsNamedAntenna'
  <2>1. task'[t] = r /\ \A u \in Tasks : u # t => task'[u] = task[u]
    BY <1>2 DEF Shape
  <2> QED
    BY <1>2, <2>1 DEF ReadsNamedAntenna
<1>3. \A err, o : Idle(err, o).own = o
  BY DEF Idle
<1>4. ASSUME NEW err, Return(t, err) PROVE ReadsNamedAntenna'
  BY <1>0, <1>2, <1>3, <1>4 DEF Return
<1>5. ASSUME StepDone(t) PROVE ReadsNamedAntenna'
  <2> DEFINE r == [task[t] EXCEPT !.pc = "run", !.step = @ + 1, !.tries = 0]
  <2>1. r.own
    BY <1>0 DEF Records
  <2>2. CASE task[t].step < Len(task[t].prog)
    <3>1. task' = [task EXCEPT ![t] = r]
      BY <1>5, <2>2 DEF StepDone, Shape
    <3> HIDE DEF r
    <3> QED
      BY <1>2, <2>1, <3>1
  <2>3. CASE ~ (task[t].step < Len(task[t].prog))
    BY <1>4, <1>5, <2>3 DEF StepDone
  <2> QED
    BY <2>2, <2>3
<1>6. CASE TakeMutex(t)
  <2> DEFINE r == [task[t] EXCEPT !.pc = "run", !.step = 1]
  <2>1. task' = [task EXCEPT ![t] = r]
    BY <1>6 DEF TakeMutex, Shape
  <2>2. r.own
    BY <1>0 DEF Records
  <2> HIDE DEF r
  <2> QED
    BY <1>1, <1>2, <2>1, <2>2
<1>7. CASE SelectModule(t)
  BY <1>5, <1>7 DEF SelectModule
<1>8. CASE Send(t)
  <2> DEFINE r == [task[t] EXCEPT !.pc = "await", !.tries = @ + 1]
  <2>1. task' = [task EXCEPT ![t] = r]
    BY <1>8 DEF Send, Shape
  <2>2. r.own
    BY <1>0 DEF Records
  <2> HIDE DEF r
  <2> QED
    BY <1>1, <1>2, <2>1, <2>2
<1>9. CASE Timeout(t)
  <2>1. CASE task[t].tries < 3
    <3> DEFINE r == [task[t] EXCEPT !.pc = "run"]
    <3>1. task' = [task EXCEPT ![t] = r]
      BY <1>9, <2>1 DEF Timeout, Shape
    <3>2. r.own
      BY <1>0 DEF Records
    <3> HIDE DEF r
    <3> QED
      BY <1>1, <1>2, <3>1, <3>2
  <2>2. CASE ~ (task[t].tries < 3)
    BY <1>1, <1>4, <1>9, <2>2 DEF Timeout
  <2> QED
    BY <2>1, <2>2
<1>10. CASE Receive(t) \/ ReceiveInventory(t) \/ ReceiveTag(t) \/ JumboMessage(t)
  BY <1>10 DEF Receive, ReceiveInventory, ReceiveTag, JumboMessage
<1>11. CASE TagsMissing(t) \/ ReadError(t)
  BY <1>4, <1>11 DEF TagsMissing, ReadError
<1>12. CASE Call(t)
  <2>1. PICK e, p, a : task' = [task EXCEPT ![t] =
                          [Idle(e, TRUE) EXCEPT !.pc = "take", !.prog = p, !.ant = a]]
    BY <1>12 DEF Call
  <2> DEFINE r == [Idle(e, TRUE) EXCEPT !.pc = "take", !.prog = p, !.ant = a]
  <2>2. r.own
    BY DEF Idle
  <2>3. task' = [task EXCEPT ![t] = r]
    BY <2>1
  <2> HIDE DEF r
  <2> QED
    BY <1>1, <1>2, <2>2, <2>3
<1> QED
  BY <1>1, <1>6, <1>7, <1>8, <1>9, <1>10, <1>11, <1>12 DEF TaskStep

LEMMA PortStep ==
    ASSUME ~ Late, Shape, Exclusion, PortInv, Next PROVE PortInv'
<1>1. CASE port = "open" /\ ~ Unplug
  <2>1. LineInv'
    BY <1>1, TaskLine, MuxLine, ReaderLineStep DEF Next, PortInv
  <2>2. UNCHANGED port
    BY <1>1, Zenon DEF Next, Call, TaskStep, TakeMutex, SelectModule, Send, Timeout, Receive,
       ReceiveInventory, ReceiveTag, TagsMissing, JumboMessage, ReadError, MuxDevice,
       ReaderDevice, deviceVars
  <2> QED
    BY <1>1, <2>1, <2>2 DEF PortInv
<1>2. CASE Unplug
  BY <1>2 DEF Unplug, PortInv, LineInv, ReadsNamedAntenna
<1>3. CASE port = "gone"
  <2>1. rx = <<>> /\ ReadsNamedAntenna
    BY <1>3 DEF PortInv
  <2>2. port' = "gone"
    BY <1>3, Zenon DEF Next, Call, TaskStep, TakeMutex, SelectModule, Send, Timeout, Receive,
       ReceiveInventory, ReceiveTag, TagsMissing, JumboMessage, ReadError, MuxDevice,
       ReaderDevice, Unplug, deviceVars
  <2>3. rx' = <<>> /\ ReadsNamedAntenna'
    <3>1. CASE \E t \in Tasks : Call(t) \/ TaskStep(t)
      BY <2>1, <3>1, GoneTask
    <3>2. CASE MuxDevice
      BY <1>3, <2>1, <3>2 DEF MuxDevice, Answers, ReadsNamedAntenna
    <3>3. CASE ReaderDevice
      <4>1. UNCHANGED <<rx, task>>
        BY <1>3, <3>3, Zenon DEF ReaderDevice, Answers
      <4> QED
        BY <2>1, <4>1 DEF ReadsNamedAntenna
    <3> QED
      BY <1>3, <3>1, <3>2, <3>3 DEF Next, Unplug
  <2> QED
    BY <2>2, <2>3 DEF PortInv
<1> QED
  BY <1>1, <1>2, <1>3 DEF PortInv

LEMMA LineAlways == ReaderAssumption /\ ~ Late => (Spec => []PortInv)
<1>1. ASSUME Init PROVE PortInv
  <2>1. \A t \in Tasks : task[t] = Idle(SUCCESS, TRUE)
    BY <1>1 DEF Init
  <2>2. Idle(SUCCESS, TRUE).pc = "idle" /\ Idle(SUCCESS, TRUE).own
    BY DEF Idle
  <2> QED
    BY <1>1, <2>1, <2>2 DEF Init, PortInv, LineInv, Quiet, InCall, ReadsNamedAntenna
<1>2. ASSUME ~ Late, Shape, Exclusion, PortInv, [Next]_vars PROVE PortInv'
  <2>1. CASE Next
    BY <1>2, <2>1, PortStep
  <2>2. CASE UNCHANGED vars
    <3>1. UNCHANGED <<task, rx, muxq, readerq, ant, power, stored, port>>
      BY <2>2 DEF vars, deviceVars
    <3> QED
      BY <1>2, <3>1 DEF PortInv, LineInv, Quiet, InCall, CallInv, UnderWay, Done, Answered,
         Command, ReadsNamedAntenna
  <2> QED
    BY <1>2, <2>1, <2>2
<1>3. CASE ReaderAssumption /\ ~ Late
  <2>1. Spec => [](TypeOK /\ Shape)
    BY <1>3, ShapeAlways
  <2>2. Spec => []Exclusion
    BY <1>3, ExclusionAlways
  <2>3. Shape /\ Exclusion /\ PortInv /\ [Next]_vars => PortInv'
    BY <1>2, <1>3
  <2> QED
    BY <1>1, <2>1, <2>2, <2>3, PTL DEF Spec
<1> QED
  BY <1>3

(* "Select the antenna to be read": with devices that answer within the    *)
(* line's timeout or not at all, the tags a ReadTagsMetaDataRSSI returns   *)
(* were read on its antenna and at that antenna's power, whatever the      *)
(* other calls do and whatever is lost or fails.                           *)
THEOREM TagsOfNamedAntenna ==
    ReaderAssumption /\ ~ Late => (Spec => []ReadsNamedAntenna)
<1>1. PortInv => ReadsNamedAntenna
  BY DEF PortInv, LineInv
<1> QED
  BY <1>1, LineAlways, PTL
=============================================================================
