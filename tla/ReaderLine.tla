------------------------------ MODULE ReaderLine ------------------------------
(***************************************************************************)
(* The serial line of the daemon, byte by byte (muxdev.cpp, iReader.cpp,   *)
(* muxserial.cpp).  Two protocols share one port: the escaped packets of   *)
(* the antenna multiplexer (class Muxdev) and the A5 5A frames of the      *)
(* reader module (class IReader).  A call empties the input, sends its     *)
(* command, reads the answer one getChar at a time and sends again, up to  *)
(* three times, when the answer is damaged or does not come within the     *)
(* three seconds of VTIME.                                                 *)
(*                                                                         *)
(* The devices are external: what they answer is chosen here, and no two   *)
(* answers need be alike; their packets are built with the program's own   *)
(* encoder, and one fault happens                                          *)
(* in a behaviour (FaultKinds): a byte of an answer lost or changed, an    *)
(* answer later than VTIME, or the port gone (read() returns -1).          *)
(***************************************************************************)
EXTENDS Integers, Sequences, SequencesExt, Bitwise

CONSTANTS Calls,       \* the calls the program makes: records built below
          AntMap,      \* the 32 bytes the multiplexer answers to ANTENNA_MAP_REQ
          Tags,        \* the records in the reader module's tag buffer
          Statuses,    \* what an answer says of the command, also of the same one
          FaultKinds,  \* a subset of {"lost", "changed", "late", "gone"}
          MaxFlight    \* bound: answers still under way when a call starts

VARIABLES call,    \* the call being made, or the last one made
          host,    \* "idle", "mux", "module": which receive loop runs
          stage,   \* of a tag reading: "count", "first", "rest"; else "only"
          tries,   \* commands sent by SyncSendToSlave or sendmsg
          want,    \* totaltags of a tag reading
          got,     \* the tag records received so far
          rx,      \* the receive state
          line,    \* bytes in the port's input buffer
          flight,  \* answers sent by a device, not yet in the buffer: what a
                   \* device has answered, and the bytes it becomes
          result,  \* what the last call returned
          mine,    \* history: what the device has answered to this call
          late,    \* history: answers of its device to earlier calls, under way as
                   \* this one was sent
          passed,  \* history: an answer was still under way at a send of this call
          fault    \* "none", or the kind that has happened
heard == <<mine, late, passed>>
lineVars == <<call, host, stage, tries, want, got, rx, line, flight, result, heard, fault>>

SOP == 235
ESC == 125
ESC_SOP == 94
ESC_ESC == 95
CS_ESC == 167
HDR1 == 165
HDR2 == 90
MaxDataLength == 122
MaxTries == 3
MAX_TAGS_PER_ANTENNA == 50

ByteXor(a, b) == a ^^ b
XorAll(bytes) == FoldLeft(ByteXor, 0, bytes)
Negated(b) == (256 - b) % 256

(***************************************************************************)
(* Packets of the multiplexer.                                             *)
(***************************************************************************)
Escaped(b) == CASE b = SOP -> <<ESC, ESC_SOP>>
                [] b = ESC -> <<ESC, ESC_ESC>>
                [] OTHER   -> <<b>>

CalcCksum(bytes) == Negated(XorAll(bytes))

SendCmdToUart(cmd) ==
  LET body == FlattenSeq([i \in DOMAIN cmd |-> Escaped(cmd[i])])
      len  == (Len(body) + 1) % 256
      lenx == 127 - (len % 128)
      sum  == CalcCksum(<<len, lenx>> \o body)
  IN  <<SOP, len, lenx, IF sum \in {SOP, ESC} THEN CS_ESC ELSE sum>> \o body

ResetRxFlag(r) == [r EXCEPT !.state = "sop", !.done = FALSE, !.ok = TRUE, !.buf = <<>>]

\* One byte through RxStateMachine.  done is cmd_received, ok is RX_NO_ERROR.
Unescaped(r, b) ==
  CASE r.esc /\ b = ESC_SOP  -> [r EXCEPT !.buf = Append(@, SOP)]
    [] r.esc /\ b = ESC_ESC  -> [r EXCEPT !.buf = Append(@, ESC)]
    [] r.esc                 -> [r EXCEPT !.state = "error", !.ok = FALSE]
    [] ~r.esc /\ b # ESC     -> [r EXCEPT !.buf = Append(@, b)]
    [] OTHER                 -> r

SumMatches(sum, cksum) ==
  \/ (sum + cksum) % 256 = 0
  \/ cksum = CS_ESC /\ \E s \in {SOP, ESC} : (sum + s) % 256 = 0

TakePayload(r, b) ==
  LET u == [Unescaped(r, b) EXCEPT !.sum = @ ^^ b, !.length = (@ - 1) % 256]
  IN  IF u.length # 0 THEN u
      ELSE [u EXCEPT !.done = TRUE, !.ok = @ /\ SumMatches(u.sum, u.cksum)]

RxStateMachine(r, b) ==
  LET bad == [r EXCEPT !.state = "error", !.ok = FALSE]
      n == CASE r.state = "sop"     -> IF b = SOP THEN [r EXCEPT !.state = "length"] ELSE r
             [] r.state = "length"  -> IF b = SOP THEN bad
                                       ELSE [r EXCEPT !.state = "lengthx", !.length = b, !.sum = b]
             [] r.state = "lengthx" -> IF b = SOP \/ 127 - (b % 128) # r.length THEN bad
                                       ELSE [r EXCEPT !.state = "cksum", !.sum = @ ^^ b]
             [] r.state = "cksum"   -> [r EXCEPT !.state = "payload", !.cksum = b, !.buf = <<>>,
                                                 !.length = (@ - 1) % 256]
             [] r.state = "payload" -> TakePayload(r, b)
             [] OTHER               -> r
  IN  [n EXCEPT !.esc = (b = ESC)]

MuxVerdict(r) ==
  CASE r.state = "error" \/ (r.done /\ ~r.ok) -> "bad"
    [] r.state # "error" /\ r.done /\ r.ok    -> "good"
    [] OTHER                                  -> "more"

(***************************************************************************)
(* Frames of the reader module.                                            *)
(***************************************************************************)
Frame(op, data) ==
  LET len  == Len(data) + 8
      body == <<len \div 256, len % 256, op>> \o data
  IN  <<HDR1, HDR2>> \o body \o <<XorAll(body), 13, 10>>

\* Mutant of TakeCrc: the two bytes that end a frame are not read.
SkipsTrailer(r, b) == [r EXCEPT !.state = "end", !.cksum = b, !.ok = r.sum = b]
TakeCrc(r, b) == [r EXCEPT !.state = "cr", !.cksum = b]

\* One byte through MSG_receiveMsgObj; buf is m_rxMsg: opCode, then data.
FrameByte(r, b) ==
  LET To(s) == [r EXCEPT !.state = s]
      Sum(s) == [To(s) EXCEPT !.sum = @ ^^ b]
      AfterData(m) == IF Len(m.buf) = m.length + 1 THEN [m EXCEPT !.state = "crc"] ELSE m
      dataLen == r.length * 256 + b - 8
  IN CASE r.state = "hdr1" -> IF b = HDR1 THEN To("hdr2") ELSE r
       [] r.state = "hdr2" -> IF b = HDR2 THEN To("len1") ELSE To("hdr1")
       [] r.state = "len1" -> [To("len2") EXCEPT !.length = b, !.sum = b]
       [] r.state = "len2" -> IF dataLen % 65536 > MaxDataLength THEN To("jumbo")
                              ELSE [Sum("data") EXCEPT !.length = dataLen, !.buf = <<>>]
       [] r.state = "data" -> AfterData([Sum("data") EXCEPT !.buf = Append(@, b)])
       [] r.state = "crc"  -> TakeCrc(r, b)
       [] r.state = "cr"   -> To("lf")
       [] r.state = "lf"   -> [To("end") EXCEPT !.ok = r.sum = r.cksum]

FrameVerdict(r) ==
  CASE r.state = "jumbo"         -> "jumbo"
    [] r.state = "end" /\ r.ok   -> "good"
    [] r.state = "end" /\ ~r.ok  -> "bad"
    [] OTHER                     -> "more"

RxStart(r, protocol) ==
  IF protocol = "mux" THEN ResetRxFlag(r) ELSE [r EXCEPT !.state = "hdr1", !.ok = TRUE]

(***************************************************************************)
(* The calls.  checked: the answer's code is compared before it is used.   *)
(***************************************************************************)
MuxCall(bytes, checked) == [line |-> "mux", bytes |-> bytes, checked |-> checked]
ModuleCall(bytes, checked) == [line |-> "module", bytes |-> bytes, checked |-> checked]

SetAntPort(port)           == MuxCall(<<10, port % 256>>, TRUE)
SetLedPort(led)            == MuxCall(<<220, 255 - (led % 256), 255 - ((led \div 256) % 256)>>, TRUE)
GetAntMap                  == MuxCall(<<139>>, FALSE)
RescanSlave(chn)           == MuxCall(<<29, chn>>, FALSE)
GetMasterSoftVer           == MuxCall(<<27>>, FALSE)
GetSlaveSoftVer(rfout, no) == MuxCall(<<28, rfout, no>>, FALSE)
GetSlaveStat               == MuxCall(<<152>>, FALSE)
SetInitdFlag(val)          == MuxCall(<<157, val % 256>>, TRUE)
\* Two bytes are sent, the second was never written (cmd_buff[1]).
GetInitdFlag(garbage)      == MuxCall(<<158, garbage>>, TRUE)

setregion(region)          == ModuleCall(<<44, 0, region>>, FALSE)
setregion0                 == ModuleCall(<<44, 1, 8>>, FALSE)
get_boot_firmware_ver      == ModuleCall(<<2>>, FALSE)
setpower(power)            == ModuleCall(<<16, 0, 0, power \div 256, power % 256,
                                           power \div 256, power % 256>>, TRUE)
EquipTempGet               == ModuleCall(<<52>>, TRUE)
TempProtectSet(protect)    == ModuleCall(<<56, protect>>, TRUE)
ReadTagsMetaDataRSSI(ms)   == ModuleCall(<<144, ms \div 256, ms % 256>>, FALSE)
GetTagsFromBuffer          == <<146>>

ReadsTags(c) == c.line = "module" /\ c.bytes[1] = 144

(***************************************************************************)
(* What a call makes of its answer.                                        *)
(***************************************************************************)
Failed == [ok |-> FALSE, value |-> <<>>]
Returned(v) == [ok |-> TRUE, value |-> v]

\* Antenna m is bit (m-1)%8 of byte 31-(m-1)/8 (counted from 0).
IReaderGetAntMap(map) ==
  SelectSeq([m \in 1..256 |-> m],
            LAMBDA m : (map[32 - (m - 1) \div 8] \div 2^((m - 1) % 8)) % 2 = 1)

MuxOutcome(c, p) ==
  CASE c.checked /\ p[1] # c.bytes[1] -> Failed
    [] c = GetAntMap                  -> Returned(IReaderGetAntMap(SubSeq(p, 2, 33)))
    [] c = GetSlaveStat               -> Returned(SubSeq(p, 2, 33))
    [] c.bytes[1] = 29                -> Returned(<<>>)
    [] OTHER                          -> Returned(<<p[2]>>)

ModuleOutcome(c, p) ==
  CASE c.checked /\ (p[1] # c.bytes[1] + 1 \/ p[2] # 1) -> Failed
    [] c = EquipTempGet                                 -> Returned(<<p[3] * 256 + p[4]>>)
    [] OTHER                                            -> Returned(<<>>)

(***************************************************************************)
(* The devices: the answers to the bytes they received, with a status s.   *)
(***************************************************************************)
MuxAnswer(b, s) ==
  <<b[1]>> \o CASE b[1] = 139 -> AntMap
                [] b[1] = 152 -> [i \in 1..32 |-> (i + s) % 3]
                [] b[1] = 27  -> <<SOP>> \o [i \in 1..32 |-> 0]
                [] b[1] = 28  -> <<b[2] ^^ b[3]>> \o [i \in 1..32 |-> 0]
                [] b[1] = 158 -> <<ESC + s>> \o [i \in 1..32 |-> 0]
                [] OTHER      -> <<s>> \o [i \in 1..32 |-> 0]

ModuleAnswers(b, s) ==
  CASE b[1] = 144 -> << <<145, 0, 0, 0, Len(Tags)>> >>
    [] b[1] = 146 -> [i \in DOMAIN Tags |-> <<147>> \o Tags[i]]
    [] OTHER      -> << <<b[1] + 1, 1, 13 + s, b[1], 0>> >>

\* The multiplexer runs the same receive machine over the bytes of a command.
RxIdle == [state |-> "sop", done |-> FALSE, ok |-> TRUE, esc |-> FALSE,
           length |-> 0, cksum |-> 0, sum |-> 0, buf |-> <<>>]
MuxHears(bytes) == FoldLeft(RxStateMachine, RxIdle, bytes)

Answers(protocol, cmd, s) ==
  IF protocol = "module" THEN ModuleAnswers(cmd, s)
  ELSE LET command == MuxHears(SendCmdToUart(cmd))
       IN  IF MuxVerdict(command) = "good" THEN <<MuxAnswer(command.buf, s)>> ELSE <<>>

Packet(protocol, a) == IF protocol = "mux" THEN SendCmdToUart(a) ELSE Frame(a[1], Tail(a))
Packets(protocol, answers) == [i \in DOMAIN answers |-> Packet(protocol, answers[i])]

\* What a call that reads no tags makes of an answer.
Outcome(c, a) == IF c.line = "mux" THEN MuxOutcome(c, a) ELSE ModuleOutcome(c, a)

(***************************************************************************)
(* The line at work.                                                       *)
(***************************************************************************)
LineInit ==
  /\ call = GetMasterSoftVer /\ host = "idle" /\ stage = "only" /\ tries = 0 /\ want = 0
  /\ got = <<>> /\ rx = RxIdle /\ line = <<>> /\ flight = <<>>
  /\ result = Failed /\ mine = {} /\ late = {} /\ passed = FALSE /\ fault = "none"

MayFail(kind) == fault = "none" /\ kind \in FaultKinds

\* The answers of a device, whole or with one byte lost or changed.
Damaged(frames, f, s) == [frames EXCEPT ![f] = s]
Sent(frames, kind) ==
  CASE kind = "none" -> {frames}
    [] kind = "lost" -> UNION {{Damaged(frames, f, RemoveAt(frames[f], i)) : i \in DOMAIN frames[f]} :
                               f \in DOMAIN frames}
    [] kind = "changed" -> UNION {{Damaged(frames, f, [frames[f] EXCEPT ![i] = @ ^^ 1]) :
                                   i \in DOMAIN frames[f]} : f \in DOMAIN frames}

\* The answers under way, each with the bytes it has become.
UnderWay(protocol, answers, frames) ==
  [i \in DOMAIN answers |->
      [from |-> protocol, answer |-> answers[i], bytes |-> frames[i]]]

\* clearRcv, then sendArray; the device answers at once, the bytes arrive later.
\* before: what it had answered to this call already.
Send(c, cmd, st, n, before) ==
  /\ host' = c.line /\ stage' = st /\ tries' = n
  /\ line' = <<>>
  /\ rx' = RxStart(rx, c.line)
  /\ \E kind \in {"none", "lost", "changed"} :
        /\ kind = "none" \/ MayFail(kind)
        /\ fault' = IF kind = "none" THEN fault ELSE kind
        /\ IF fault = "gone" THEN flight' = flight /\ mine' = before
           ELSE \E s \in Statuses :
                LET answers == Answers(c.line, cmd, s)
                IN  /\ mine' = before \cup Range(answers)
                    /\ \E frames \in Sent(Packets(c.line, answers), kind) :
                          flight' = flight \o UnderWay(c.line, answers, frames)

Return(r) == host' = "idle" /\ result' = r

StartCall ==
  /\ host = "idle" /\ Len(flight) <= MaxFlight
  /\ \E c \in Calls :
        /\ call' = c
        /\ Send(c, c.bytes, IF ReadsTags(c) THEN "count" ELSE "only", 1, {})
        /\ late' = {f.answer : f \in {g \in Range(flight) : g.from = c.line}}
  /\ passed' = (flight # <<>>)
  /\ got' = <<>> /\ want' = 0 /\ result' = Failed

Arrive ==
  /\ flight # <<>>
  /\ line' = line \o Head(flight).bytes /\ flight' = Tail(flight)
  /\ UNCHANGED <<call, host, stage, tries, want, got, rx, result, heard, fault>>

\* SyncSendToSlave and sendmsg try again; a further tag frame is read once only.
Again ==
  IF tries < MaxTries /\ stage # "rest"
  THEN /\ Send(call, IF stage = "first" THEN GetTagsFromBuffer ELSE call.bytes, stage, tries + 1, mine)
       /\ passed' = (passed \/ flight # <<>>)
       /\ UNCHANGED <<call, want, got, result, late>>
  ELSE /\ Return(Failed)
       /\ UNCHANGED <<call, stage, tries, want, got, rx, line, flight, heard, fault>>

\* A whole answer, r, of which the last byte has just been taken from the line.
TagsCounted(r) ==
  LET total == r.buf[5]
  IN  IF total > MAX_TAGS_PER_ANTENNA \/ total = 0
      THEN /\ Return(IF total = 0 THEN Returned(<<>>) ELSE Failed)
           /\ rx' = r /\ line' = Tail(line)
           /\ UNCHANGED <<call, stage, tries, want, got, flight, heard, fault>>
      ELSE /\ want' = total
           /\ Send(call, GetTagsFromBuffer, "first", 1, mine)
           /\ passed' = (passed \/ flight # <<>>)
           /\ UNCHANGED <<call, got, result, late>>

TagReceived(r) ==
  /\ got' = Append(got, Tail(r.buf))
  /\ line' = Tail(line)
  /\ IF Len(got) + 1 < want
     THEN stage' = "rest" /\ rx' = RxStart(r, "module") /\ UNCHANGED <<host, result>>
     ELSE stage' = "only" /\ rx' = r /\ Return(Returned(got'))
  /\ UNCHANGED <<call, tries, want, flight, heard, fault>>

Answered(r) ==
  /\ Return(Outcome(call, r.buf))
  /\ rx' = r /\ line' = Tail(line)
  /\ UNCHANGED <<call, stage, tries, want, got, flight, heard, fault>>

\* One getChar that returns a byte.
GetChar ==
  /\ host # "idle" /\ fault # "gone" /\ line # <<>>
  /\ LET r == IF host = "mux" THEN RxStateMachine(rx, Head(line)) ELSE FrameByte(rx, Head(line))
         v == IF host = "mux" THEN MuxVerdict(r) ELSE FrameVerdict(r)
     IN CASE v = "more"  -> /\ rx' = r /\ line' = Tail(line)
                            /\ UNCHANGED <<call, host, stage, tries, want, got, flight, result, heard, fault>>
          [] v = "bad"   -> Again
          [] v = "jumbo" -> /\ Return(Failed) /\ rx' = r /\ line' = Tail(line)
                            /\ UNCHANGED <<call, stage, tries, want, got, flight, heard, fault>>
          [] v = "good" /\ stage = "count"             -> TagsCounted(r)
          [] v = "good" /\ stage \in {"first", "rest"} -> TagReceived(r)
          [] v = "good" /\ stage = "only"              -> Answered(r)

\* getChar returns 0 after three seconds without a byte.
Timeout ==
  /\ host # "idle" /\ fault # "gone" /\ line = <<>> /\ flight = <<>>
  /\ Again

\* The same while the answer is still under way.
LateAnswer ==
  /\ host # "idle" /\ MayFail("late") /\ line = <<>> /\ flight # <<>>
  /\ IF tries < MaxTries /\ stage # "rest"
     THEN /\ host' = host /\ stage' = stage /\ tries' = tries + 1
          /\ rx' = RxStart(rx, call.line)
          /\ \E s \in Statuses :
                LET cmd == IF stage = "first" THEN GetTagsFromBuffer ELSE call.bytes
                    answers == Answers(call.line, cmd, s)
                IN  /\ mine' = mine \cup Range(answers)
                    /\ flight' = flight \o UnderWay(call.line, answers, Packets(call.line, answers))
          /\ result' = result
     ELSE /\ Return(Failed) /\ UNCHANGED <<stage, tries, rx, flight, mine>>
  /\ fault' = "late" /\ passed' = TRUE
  /\ UNCHANGED <<call, want, got, line, late>>

\* The port disappears; read() returns -1 from now on.
Unplug ==
  /\ MayFail("gone") /\ fault' = "gone" /\ line' = <<>> /\ flight' = <<>>
  /\ UNCHANGED <<call, host, stage, tries, want, got, rx, result, heard>>

\* IReader returns SOCKET_ERROR; Muxdev only stops at 0 and takes the byte for a 0.
GetCharGone ==
  /\ host # "idle" /\ fault = "gone"
  /\ IF host = "module"
     THEN Return(Failed) /\ UNCHANGED <<call, stage, tries, want, got, rx, line, flight, heard, fault>>
     ELSE LET r == RxStateMachine(rx, 0)
          IN  IF MuxVerdict(r) = "more"
              THEN rx' = r /\ UNCHANGED <<call, host, stage, tries, want, got, line, flight, result, heard, fault>>
              ELSE Again

LineNext ==
  \/ StartCall \/ Arrive \/ GetChar \/ Timeout \/ LateAnswer \/ Unplug \/ GetCharGone

LineSpec == LineInit /\ [][LineNext]_lineVars

-----------------------------------------------------------------------------
(* With at most one fault a call that returns success returns what a device *)
(* has answered, whole: no byte of a damaged or shifted answer reaches the  *)
(* caller.  The answer is one to this very call; or it is one to an earlier *)
(* call that was still under way as this one was sent, which a call takes   *)
(* for its own: any answer if it does not compare the code, and also if it  *)
(* does, as long as the code is the same: a SetAntPort succeeds on the      *)
(* answer to the selection of another antenna.  No call takes an answer of  *)
(* the other device for its own.  A tag reading returns the                 *)
(* tags of the buffer unless an answer was still under way at a send.       *)
(* (muxdev.cpp:79-187, 250-264, iReader.cpp:206-264, 499-580)               *)
AnswerTrue ==
  host = "idle" /\ result.ok =>
     IF ReadsTags(call) THEN result.value = Tags \/ passed
     ELSE \E a \in mine \cup late : Outcome(call, a) = result
=============================================================================
