------------------------ MODULE LtkConnectionProofs ------------------------
(***************************************************************************)
(* Proofs about LtkConnection, for any codec and reader that keep          *)
(* CodecAssumption, any requests, any pieces and any bounds: the decoder   *)
(* stays in step with the frames, and the connection implements the        *)
(* mailbox of LlrpMailbox.                                                 *)
(***************************************************************************)
EXTENDS LtkConnection, SequenceLemmas

-----------------------------------------------------------------------------
(* What the frames in flight stand for: their bytes and their messages.    *)

ByteOf    == [x \in Frames |-> x.bytes]
MessageOf == [x \in Frames |-> IF x.msg = NoMessage THEN << >> ELSE <<x.msg>>]

LEMMA FrameKinds ==
    ASSUME NEW x \in Frames
    PROVE  /\ x.bytes \in Seq(Byte) /\ Len(x.bytes) \in Nat /\ Len(x.bytes) >= 10
           /\ FrameLength(x.bytes) \in Nat
           /\ FrameLength(x.bytes) < 10 \/ FrameLength(x.bytes) = Len(x.bytes)
           /\ \/ /\ x.msg \in Sent /\ x.msg # NoMessage
                 /\ Decode(x.bytes).err = OK /\ Decode(x.bytes).val = x.msg
              \/ /\ x.msg = NoMessage
                 /\ FrameLength(x.bytes) < 10 \/ Decode(x.bytes).err # OK
<1>1. /\ x.bytes \in Seq(Byte) /\ Len(x.bytes) \in 10 .. BufSize
      /\ FrameLength(x.bytes) \in Nat
      /\ FrameLength(x.bytes) < 10 \/ FrameLength(x.bytes) = Len(x.bytes)
  BY CodecAssumption
<1>2. Len(x.bytes) \in Nat /\ Len(x.bytes) >= 10
  <2>1. \A n : n \in 10 .. BufSize => n \in Nat /\ n >= 10
    BY BufSizeAssumption
  <2> QED
    BY <1>1, <2>1
<1>3. CASE \E m \in Sent : x = Frame(m)
  BY <1>1, <1>2, <1>3, CodecAssumption DEF Frame
<1>4. CASE \E b \in BadFrames : x = Broken(b)
  BY <1>1, <1>2, <1>4, CodecAssumption DEF Broken
<1> QED
  BY <1>3, <1>4 DEF Frames

LEMMA Stands ==
    /\ ByteOf \in [Frames -> Seq(Byte)]
    /\ MessageOf \in [Frames -> Seq(Sent)]
<1>1. \A x \in Frames : x.bytes \in Seq(Byte)
  BY FrameKinds
<1>2. ASSUME NEW x \in Frames
      PROVE  (IF x.msg = NoMessage THEN << >> ELSE <<x.msg>>) \in Seq(Sent)
  <2>1. x.msg \in Sent \/ x.msg = NoMessage
    BY FrameKinds
  <2> QED
    BY <2>1
<1> QED
  BY <1>1, <1>2 DEF ByteOf, MessageOf

LEMMA InFlight ==
    ASSUME NEW fs \in Seq(Frames)
    PROVE  Bytes(fs) = Through(ByteOf, fs) /\ Messages(fs) = Through(MessageOf, fs)
<1>1. \A i \in DOMAIN fs : fs[i] \in Frames
  OBVIOUS
<1>2. [i \in DOMAIN fs |-> fs[i].bytes] = [i \in DOMAIN fs |-> ByteOf[fs[i]]]
  BY <1>1 DEF ByteOf
<1>3. [i \in DOMAIN fs |-> IF fs[i].msg = NoMessage THEN << >> ELSE <<fs[i].msg>>]
        = [i \in DOMAIN fs |-> MessageOf[fs[i]]]
  BY <1>1 DEF MessageOf
<1> QED
  BY <1>2, <1>3 DEF Bytes, Messages, Through

LEMMA WireType ==
    ASSUME NEW fs \in Seq(Frames)
    PROVE  Bytes(fs) \in Seq(Byte) /\ Messages(fs) \in Seq(Sent)
<1>1. Bytes(fs) = Through(ByteOf, fs) /\ Messages(fs) = Through(MessageOf, fs)
  BY InFlight
<1>2. Through(ByteOf, fs) \in Seq(Byte)
  BY Stands, ThroughType
<1>3. Through(MessageOf, fs) \in Seq(Sent)
  BY Stands, ThroughType
<1> QED
  BY <1>1, <1>2, <1>3

LEMMA NothingInFlight == Bytes(<< >>) = << >> /\ Messages(<< >>) = << >>
<1>1. << >> \in Seq(Frames)
  OBVIOUS
<1> QED
  BY <1>1, InFlight, ThroughEmpty

LEMMA OneMoreInFlight ==
    ASSUME NEW fs \in Seq(Frames), NEW x \in Frames
    PROVE  /\ Bytes(Append(fs, x)) = Bytes(fs) \o x.bytes
           /\ x.msg = NoMessage => Messages(Append(fs, x)) = Messages(fs)
           /\ x.msg # NoMessage => Messages(Append(fs, x)) = Append(Messages(fs), x.msg)
<1>1. Append(fs, x) \in Seq(Frames)
  OBVIOUS
<1>2. /\ Through(ByteOf, Append(fs, x)) = Through(ByteOf, fs) \o ByteOf[x]
      /\ Through(MessageOf, Append(fs, x)) = Through(MessageOf, fs) \o MessageOf[x]
  BY Stands, ThroughAppend
<1>3. /\ Bytes(Append(fs, x)) = Bytes(fs) \o ByteOf[x]
      /\ Messages(Append(fs, x)) = Messages(fs) \o MessageOf[x]
  BY <1>1, <1>2, InFlight
<1>4. ByteOf[x] = x.bytes /\ MessageOf[x] = IF x.msg = NoMessage THEN << >> ELSE <<x.msg>>
  BY DEF ByteOf, MessageOf
<1>5. Messages(fs) \in Seq(Sent)
  BY WireType
<1>6. Messages(fs) \o << >> = Messages(fs)
  BY <1>5, ConcatEmptySeq
<1>7. x.msg # NoMessage => Messages(fs) \o <<x.msg>> = Append(Messages(fs), x.msg)
  <2>1. x.msg # NoMessage => x.msg \in Sent
    BY FrameKinds
  <2> QED
    BY <1>5, <2>1, AppendIsConcat
<1> QED
  BY <1>3, <1>4, <1>6, <1>7

LEMMA FirstInFlight ==
    ASSUME NEW fs \in Seq(Frames), fs # << >>
    PROVE  /\ Bytes(fs) = fs[1].bytes \o Bytes(Tail(fs))
           /\ Bytes(SubSeq(fs, 1, 1)) = fs[1].bytes
           /\ Messages(fs) = MessageOf[fs[1]] \o Messages(Tail(fs))
           /\ Messages(SubSeq(fs, 1, 1)) = MessageOf[fs[1]]
<1>1. Tail(fs) \in Seq(Frames) /\ fs[1] \in Frames
  OBVIOUS
<1>2. SubSeq(fs, 1, 1) \in Seq(Frames)
  <2>1. \A i \in 1 .. 1 : fs[i] \in Frames
    BY <1>1
  <2> QED
    BY <2>1
<1>3. /\ Through(ByteOf, fs) = ByteOf[fs[1]] \o Through(ByteOf, Tail(fs))
      /\ Through(ByteOf, SubSeq(fs, 1, 1)) = ByteOf[fs[1]]
  BY Stands, ThroughHead, ThroughOne
<1>4. /\ Through(MessageOf, fs) = MessageOf[fs[1]] \o Through(MessageOf, Tail(fs))
      /\ Through(MessageOf, SubSeq(fs, 1, 1)) = MessageOf[fs[1]]
  BY Stands, ThroughHead, ThroughOne
<1>5. ByteOf[fs[1]] = fs[1].bytes
  BY <1>1 DEF ByteOf
<1>6. /\ Bytes(fs) = Through(ByteOf, fs) /\ Messages(fs) = Through(MessageOf, fs)
      /\ Bytes(Tail(fs)) = Through(ByteOf, Tail(fs))
      /\ Messages(Tail(fs)) = Through(MessageOf, Tail(fs))
      /\ Bytes(SubSeq(fs, 1, 1)) = Through(ByteOf, SubSeq(fs, 1, 1))
      /\ Messages(SubSeq(fs, 1, 1)) = Through(MessageOf, SubSeq(fs, 1, 1))
  BY <1>1, <1>2, InFlight
<1> QED
  BY <1>3, <1>4, <1>5, <1>6, Zenon

-----------------------------------------------------------------------------
(* The first bytes of a frame tell its length. *)
LEMMA LengthKnown ==
    ASSUME NEW a \in Seq(Byte), NEW c \in Seq(Byte), IsPrefix(a, c), Len(a) >= 10
    PROVE  FrameLength(a) = FrameLength(c)
<1>1. Len(a) <= Len(c) /\ \A i \in 1 .. Len(a) : a[i] = c[i]
  BY PrefixElements
<1>2. \A i \in 3 .. 6 : i \in 1 .. Len(a) /\ i \in 1 .. Len(c)
  BY <1>1
<1> DEFINE x == SubSeq(a, 3, 6)
           y == SubSeq(c, 3, 6)
<1>3. x \in Seq(Byte) /\ Len(x) = 4 /\ \A i \in 1 .. 4 : x[i] = a[i + 2]
  <2>1. \A i \in 3 .. 6 : a[i] \in Byte
    BY <1>2
  <2>2. /\ x \in Seq(Byte) /\ Len(x) = (IF 3 <= 6 THEN 6 - 3 + 1 ELSE 0)
        /\ \A i \in 1 .. 6 - 3 + 1 : x[i] = a[3 + i - 1]
    BY <2>1, SubSeqProperties
  <2> HIDE DEF x
  <2> QED
    BY <2>2
<1>4. y \in Seq(Byte) /\ Len(y) = 4 /\ \A i \in 1 .. 4 : y[i] = c[i + 2]
  <2>1. \A i \in 3 .. 6 : c[i] \in Byte
    BY <1>2
  <2>2. /\ y \in Seq(Byte) /\ Len(y) = (IF 3 <= 6 THEN 6 - 3 + 1 ELSE 0)
        /\ \A i \in 1 .. 6 - 3 + 1 : y[i] = c[3 + i - 1]
    BY <2>1, SubSeqProperties
  <2> HIDE DEF y
  <2> QED
    BY <2>2
<1> HIDE DEF x, y
<1>5. \A i \in 1 .. Len(x) : x[i] = y[i]
  BY <1>1, <1>2, <1>3, <1>4
<1>6. x = y
  BY <1>3, <1>4, <1>5, SeqEqual
<1> QED
  BY <1>6 DEF FrameLength, x, y

(* Bytes that move from the wire to the buffer stay in their order. *)
LEMMA Received ==
    ASSUME NEW a \in Seq(Byte), NEW b \in Seq(Byte), NEW n \in 0 .. Len(b)
    PROVE  /\ SubSeq(b, n + 1, Len(b)) \in Seq(Byte)
           /\ a \o SubSeq(b, 1, n) \in Seq(Byte)
           /\ Len(a \o SubSeq(b, 1, n)) = Len(a) + n
           /\ (a \o SubSeq(b, 1, n)) \o SubSeq(b, n + 1, Len(b)) = a \o b
<1> DEFINE x == SubSeq(b, 1, n)
           y == SubSeq(b, n + 1, Len(b))
<1>1. x \in Seq(Byte) /\ Len(x) = n
  OBVIOUS
<1>2. y \in Seq(Byte)
  OBVIOUS
<1>3. x \o y = b
  <2>1. SubSeq(b, 1, n) \o SubSeq(b, n + 1, Len(b)) = SubSeq(b, 1, Len(b))
    <3>1. 1 \in 1 .. Len(b) + 1 /\ n \in 1 - 1 .. Len(b) /\ Len(b) \in n .. Len(b)
      OBVIOUS
    <3> QED
      BY <3>1, ConcatAdjacentSubSeq
  <2> QED
    BY <2>1, SubSeqFull
<1> HIDE DEF x, y
<1>4. a \o x \in Seq(Byte) /\ Len(a \o x) = Len(a) + n
  BY <1>1
<1>5. (a \o x) \o y = a \o (x \o y)
  BY <1>1, <1>2
<1> QED
  BY <1>1, <1>2, <1>3, <1>4, <1>5 DEF x, y

-----------------------------------------------------------------------------
(* The inductive invariant. *)

Types == {None, "START_ROSPEC_RESPONSE", "SET_READER_CONFIG_RESPONSE"}

Ids == {0} \union {Requests[i].id : i \in DOMAIN Requests}

LEMMA CallFields ==
    /\ None \in Types /\ \A m : ResponseType(m) \in Types
    /\ 0 \in Ids /\ \A i \in DOMAIN Requests : Requests[i].id \in Ids
<1>1. None \in Types
  BY DEF Types
<1>2. \A m : ResponseType(m) \in Types
  BY DEF ResponseType, Types
<1>3. 0 \in Ids
  BY DEF Ids
<1>4. ASSUME NEW i \in DOMAIN Requests PROVE Requests[i].id \in Ids
  BY DEF Ids
<1> QED
  BY <1>1, <1>2, <1>3, <1>4

Calls == [pc : {"idle", "search", "advance"}, type : Types,
          id : Ids,
          wait : {"block", "peek", "wait"}]

Typed ==
    /\ sock \in {"none", "open"} /\ peer \in {"open", "closed"}
    /\ queue \in Seq(Sent) /\ flight \in Seq(Frames)
    /\ buf \in Seq(Byte) /\ net \in Seq(Byte)
    /\ asked \in Seq(Asked) /\ calls \in 0 .. MaxCalls /\ call \in Calls

(* Without a socket nothing is on its way, and an empty buffer belongs to  *)
(* no frame; bytes are asked for on an open socket only.                   *)
Connected ==
    /\ sock = "none" => net = << >> /\ peer = "closed" /\ (buf = << >> => flight = << >>)
    /\ call.pc = "advance" => sock = "open"

(* The buffer does not reach beyond the first frame. *)
Within == IF flight = << >> THEN buf = << >> ELSE Len(buf) <= Len(flight[1].bytes)

WireInv == Typed /\ Connected /\ InStep /\ Within

(* The buffer is the beginning of the first frame; once it has a header it *)
(* knows the frame's length.                                               *)
LEMMA Begun ==
    ASSUME WireInv, buf # << >> \/ (sock = "open" /\ net # << >>)
    PROVE  /\ flight # << >> /\ flight[1] \in Frames
           /\ IsPrefix(buf, flight[1].bytes)
           /\ Len(buf) >= 10 => FrameLength(buf) = FrameLength(flight[1].bytes)
<1>1. /\ flight \in Seq(Frames) /\ buf \in Seq(Byte) /\ net \in Seq(Byte)
      /\ sock \in {"none", "open"}
  BY DEF WireInv, Typed
<1>2. flight # << >>
  <2> SUFFICES ASSUME flight = << >> PROVE FALSE
    OBVIOUS
  <2>1. buf = << >>
    BY DEF WireInv, Within
  <2>2. sock = "open" /\ buf \o net = << >>
    BY <2>1, NothingInFlight DEF WireInv, InStep
  <2> QED
    BY <1>1, <2>1, <2>2, ConcatEmptySeq
<1>3. flight[1] \in Frames /\ Tail(flight) \in Seq(Frames)
  BY <1>1, <1>2
<1> DEFINE first == flight[1].bytes
           rest == Bytes(Tail(flight))
<1>4. first \in Seq(Byte) /\ rest \in Seq(Byte) /\ Bytes(flight) = first \o rest
  BY <1>1, <1>2, <1>3, FrameKinds, WireType, FirstInFlight
<1>5. Len(buf) <= Len(first)
  BY <1>2 DEF WireInv, Within
<1> HIDE DEF first, rest
<1>6. IsPrefix(buf, first)
  <2>1. CASE sock = "open"
    <3>1. buf \o net = first \o rest
      BY <1>4, <2>1 DEF WireInv, InStep
    <3> QED
      BY <1>1, <1>4, <1>5, <3>1, ShorterFirst
  <2>2. CASE sock = "none"
    <3>1. IsPrefix(buf, first \o rest)
      BY <1>4, <2>2 DEF WireInv, InStep
    <3>2. first \o rest \in Seq(Byte) /\ \A i \in 1 .. Len(first) : (first \o rest)[i] = first[i]
      BY <1>4
    <3> DEFINE whole == first \o rest
    <3>3. whole \in Seq(Byte) /\ \A i \in 1 .. Len(first) : whole[i] = first[i]
      BY <3>2
    <3>4. IsPrefix(buf, whole)
      BY <3>1
    <3> HIDE DEF whole
    <3>5. \A i \in 1 .. Len(buf) : buf[i] = whole[i]
      BY <1>1, <3>3, <3>4, PrefixElements
    <3>6. \A i \in 1 .. Len(buf) : buf[i] = first[i]
      BY <1>1, <1>4, <1>5, <3>3, <3>5
    <3> QED
      BY <1>1, <1>4, <1>5, <3>6, PrefixElements
  <2> QED
    BY <1>1, <2>1, <2>2
<1>7. Len(buf) >= 10 => FrameLength(buf) = FrameLength(first)
  BY <1>1, <1>4, <1>6, LengthKnown
<1> QED
  BY <1>2, <1>3, <1>6, <1>7 DEF first

(* A frame that is ready is the first one, whole. *)
LEMMA Whole ==
    ASSUME WireInv, sock = "open", FrameExtract(buf).status = "READY"
    PROVE  /\ flight # << >> /\ flight[1] \in Frames /\ Tail(flight) \in Seq(Frames)
           /\ buf = flight[1].bytes /\ net = Bytes(Tail(flight))
           /\ FrameLength(buf) >= 10
<1>1. Len(buf) >= 10 /\ FrameLength(buf) >= 10 /\ Len(buf) >= FrameLength(buf)
  BY DEF FrameExtract
<1>2. buf \in Seq(Byte) /\ net \in Seq(Byte) /\ flight \in Seq(Frames)
  BY DEF WireInv, Typed
<1>3. buf # << >>
  BY <1>1
<1>4. /\ flight # << >> /\ flight[1] \in Frames
      /\ FrameLength(buf) = FrameLength(flight[1].bytes)
  BY <1>1, <1>3, Begun
<1>5. Tail(flight) \in Seq(Frames)
  BY <1>2, <1>4
<1> DEFINE first == flight[1].bytes
           rest == Bytes(Tail(flight))
<1>6. /\ first \in Seq(Byte) /\ rest \in Seq(Byte) /\ Bytes(flight) = first \o rest
      /\ FrameLength(first) \in Nat
      /\ FrameLength(first) < 10 \/ FrameLength(first) = Len(first)
  BY <1>2, <1>4, <1>5, FrameKinds, WireType, FirstInFlight
<1>7. buf \o net = first \o rest
  BY <1>6 DEF WireInv, InStep
<1>8. Len(buf) <= Len(first)
  BY <1>4 DEF WireInv, Within
<1>9. Len(buf) = Len(first)
  BY <1>1, <1>2, <1>4, <1>6, <1>8
<1> HIDE DEF first, rest
<1>10. buf = first /\ net = rest
  BY <1>2, <1>6, <1>7, <1>8, <1>9, ShorterFirst
<1> QED
  BY <1>1, <1>4, <1>5, <1>10 DEF first, rest

(* Steps that leave the wire, the buffer and the socket alone. *)
LEMMA WireUntouched ==
    ASSUME WireInv, UNCHANGED <<sock, buf, net, flight>>,
           peer' \in {peer, "closed"}, queue' \in Seq(Sent), asked' \in Seq(Asked),
           calls' \in 0 .. MaxCalls, call' \in Calls,
           call'.pc = "advance" => sock = "open"
    PROVE  WireInv'
BY DEF WireInv, Typed, Connected, InStep, Within, Bytes

-----------------------------------------------------------------------------
(* The steps keep the inductive invariant. *)

LEMMA InitWire == Init => WireInv
<1> SUFFICES ASSUME Init PROVE WireInv
  OBVIOUS
<1>1. Typed
  <2>1. call \in Calls
    <3>2. call = [pc |-> "idle", type |-> None, id |-> 0, wait |-> "block"]
      BY DEF Init, NoCall
    <3> QED
      BY <3>2, CallFields DEF Calls
  <2>2. 0 \in 0 .. MaxCalls
    BY ConnectionAssumption
  <2> QED
    BY <2>1, <2>2 DEF Init, Typed
<1>2. Connected /\ Within
  BY DEF Init, Connected, Within, NoCall
<1>3. InStep
  <2>1. IsPrefix(<< >>, << >>)
    BY DEF IsPrefix
  <2> QED
    BY <2>1, NothingInFlight DEF Init, InStep
<1> QED
  BY <1>1, <1>2, <1>3 DEF WireInv

LEMMA RemoveAtType ==
    ASSUME NEW S, NEW q \in Seq(S), NEW i \in 1 .. Len(q)
    PROVE  RemoveAt(q, i) \in Seq(S)
<1>1. SubSeq(q, 1, i - 1) \in Seq(S)
  BY SubSeqProperties
<1>2. SubSeq(q, i + 1, Len(q)) \in Seq(S)
  BY SubSeqProperties
<1> QED
  BY <1>1, <1>2, ConcatProperties DEF RemoveAt

(* The reader answers what it was asked. *)
LEMMA AnswerSent ==
    ASSUME NEW req \in Asked, NEW m \in Answers(req)
    PROVE  m \in Sent /\ Frame(m) \in Frames
BY DEF Sent, Frames

LEMMA EmitWire ==
    ASSUME WireInv, peer = "open", NEW x \in Frames, Emit(x),
           asked' \in Seq(Asked), UNCHANGED <<clientVars, peer>>
    PROVE  WireInv'
<1>1. sock = "open"
  BY DEF WireInv, Typed, Connected
<1>2. flight \in Seq(Frames) /\ net \in Seq(Byte) /\ buf \in Seq(Byte)
  BY DEF WireInv, Typed
<1>3. x.bytes \in Seq(Byte) /\ Bytes(flight) \in Seq(Byte)
  BY <1>2, FrameKinds, WireType
<1>4. /\ net' = net \o x.bytes /\ flight' = Append(flight, x)
      /\ sock' = sock /\ buf' = buf /\ call' = call
  BY DEF Emit, clientVars
<1>5. Typed'
  <2>1. net' \in Seq(Byte)
    BY <1>2, <1>3, <1>4, ConcatProperties
  <2>2. flight' \in Seq(Frames)
    BY <1>2, <1>4
  <2> QED
    BY <2>1, <2>2 DEF WireInv, Typed, clientVars
<1>6. Connected'
  BY <1>1, <1>4 DEF WireInv, Connected
<1>7. InStep'
  <2>1. (buf \o net) \o x.bytes = buf \o (net \o x.bytes)
    <3> SUFFICES ASSUME NEW a \in Seq(Byte), NEW b \in Seq(Byte), NEW c \in Seq(Byte)
                 PROVE  (a \o b) \o c = a \o (b \o c)
      BY <1>2, <1>3
    <3> QED
      OBVIOUS
  <2>2. Bytes(Append(flight, x)) = Bytes(flight) \o x.bytes
    BY <1>2, OneMoreInFlight
  <2>3. buf \o net = Bytes(flight)
    BY <1>1 DEF WireInv, InStep
  <2>4. buf' \o net' = Bytes(flight')
    BY <1>4, <2>1, <2>2, <2>3
  <2> QED
    BY <1>1, <1>4, <2>4 DEF InStep, Bytes
<1>8. Within'
  <2>1. flight' # << >>
    <3>1. Len(Append(flight, x)) = Len(flight) + 1 /\ Len(flight) \in Nat /\ Len(<< >>) = 0
      BY <1>2
    <3> QED
      BY <1>4, <3>1
  <2>2. CASE flight = << >>
    <3>1. flight'[1] = x /\ Len(buf') = 0
      BY <1>2, <1>4, <2>2 DEF WireInv, Within
    <3>2. Len(x.bytes) >= 10 /\ Len(x.bytes) \in Nat
      BY FrameKinds
    <3>3. Len(buf') <= Len(flight'[1].bytes)
      BY <3>1, <3>2
    <3> QED
      BY <2>1, <3>3 DEF Within
  <2>3. CASE flight # << >>
    <3>1. flight'[1] = flight[1]
      BY <1>2, <1>4, <2>3
    <3>2. Len(buf') <= Len(flight'[1].bytes)
      BY <1>4, <2>3, <3>1 DEF WireInv, Within
    <3> QED
      BY <2>1, <3>2 DEF Within
  <2> QED
    BY <2>2, <2>3
<1> QED
  BY <1>5, <1>6, <1>7, <1>8 DEF WireInv

LEMMA AnswerWire == WireInv /\ Answer => WireInv'
<1> SUFFICES ASSUME WireInv, Answer PROVE WireInv'
  OBVIOUS
<1>1. asked \in Seq(Asked) /\ asked # << >>
  BY DEF WireInv, Typed, Answer
<1>2. Head(asked) \in Asked /\ Tail(asked) \in Seq(Asked)
  BY <1>1
<1>3. PICK m \in Answers(Head(asked)) : Emit(Frame(m))
  BY DEF Answer
<1>4. Frame(m) \in Frames
  BY <1>2, AnswerSent
<1>5. peer = "open" /\ asked' \in Seq(Asked) /\ UNCHANGED <<clientVars, peer>>
  BY <1>2 DEF Answer
<1> QED
  BY <1>3, <1>4, <1>5, EmitWire

LEMMA NotifyWire == WireInv /\ Notify => WireInv'
<1> SUFFICES ASSUME WireInv, Notify PROVE WireInv'
  OBVIOUS
<1>1. PICK x \in Frames : Emit(x)
  BY DEF Notify, Frames, Sent
<1>2. peer = "open" /\ asked' \in Seq(Asked) /\ UNCHANGED <<clientVars, peer>>
  BY DEF Notify, WireInv, Typed
<1> QED
  BY <1>1, <1>2, EmitWire

LEMMA PeerClosesWire == WireInv /\ PeerCloses => WireInv'
<1> SUFFICES ASSUME WireInv, PeerCloses PROVE WireInv'
  OBVIOUS
<1>1. /\ UNCHANGED <<sock, buf, net, flight>> /\ peer' \in {peer, "closed"}
      /\ queue' \in Seq(Sent) /\ asked' \in Seq(Asked) /\ calls' \in 0 .. MaxCalls
      /\ call' \in Calls
  BY DEF PeerCloses, clientVars, WireInv, Typed
<1>2. call'.pc = "advance" => sock = "open"
  BY DEF PeerCloses, clientVars, WireInv, Connected
<1> QED
  BY <1>1, <1>2, WireUntouched

(* With an empty buffer no frame is left over from the last connection. *)
LEMMA OpenWire == CleanReuse /\ WireInv /\ openConnectionToReader => WireInv'
<1> SUFFICES ASSUME CleanReuse, WireInv, openConnectionToReader PROVE WireInv'
  OBVIOUS
<1>1. buf = << >> /\ net = << >> /\ flight = << >>
  BY DEF openConnectionToReader, WireInv, Connected
<1>2. buf' = << >> /\ net' = << >> /\ flight' = << >>
  BY <1>1 DEF openConnectionToReader
<1>3. Typed' /\ Connected' /\ Within'
  BY <1>2 DEF openConnectionToReader, WireInv, Typed, Connected, Within
<1>4. InStep'
  <2>1. buf' \o net' = Bytes(flight')
    BY <1>2, NothingInFlight
  <2> QED
    BY <2>1 DEF openConnectionToReader, InStep, Bytes
<1> QED
  BY <1>3, <1>4 DEF WireInv

(* The frame in the buffer stays begun. *)
LEMMA CloseWire == WireInv /\ closeConnectionToReader => WireInv'
<1> SUFFICES ASSUME WireInv, closeConnectionToReader PROVE WireInv'
  OBVIOUS
<1>1. /\ sock' = "none" /\ peer' = "closed" /\ net' = << >> /\ asked' = << >>
      /\ flight' = IF buf = << >> THEN << >> ELSE SubSeq(flight, 1, 1)
      /\ queue' = queue /\ buf' = buf /\ call' = call /\ calls' = calls
      /\ call.pc = "idle"
  BY DEF closeConnectionToReader
<1>2. buf \in Seq(Byte) /\ flight \in Seq(Frames)
  BY DEF WireInv, Typed
<1>3. CASE buf = << >>
  <2>1. flight' = << >> /\ buf' = << >>
    BY <1>1, <1>3
  <2>2. Typed' /\ Connected' /\ Within'
    BY <1>1, <2>1 DEF WireInv, Typed, Connected, Within
  <2>3. InStep'
    <3>1. IsPrefix(<< >>, << >>)
      BY DEF IsPrefix
    <3>2. IsPrefix(buf', Bytes(flight'))
      BY <2>1, <3>1, NothingInFlight
    <3> QED
      BY <1>1, <3>2 DEF InStep, Bytes
  <2> QED
    BY <2>2, <2>3 DEF WireInv
<1>4. CASE buf # << >>
  <2>1. flight # << >> /\ flight[1] \in Frames /\ IsPrefix(buf, flight[1].bytes)
    BY <1>4, Begun
  <2>2. SubSeq(flight, 1, 1) \in Seq(Frames) /\ Len(SubSeq(flight, 1, 1)) = 1
        /\ SubSeq(flight, 1, 1)[1] = flight[1]
    <3>1. \A i \in 1 .. 1 : flight[i] \in Frames
      BY <2>1
    <3>2. /\ SubSeq(flight, 1, 1) \in Seq(Frames) /\ Len(SubSeq(flight, 1, 1)) = 1
          /\ \A i \in 1 .. 1 : SubSeq(flight, 1, 1)[i] = flight[i]
      BY <3>1
    <3> QED
      BY <3>2
  <2>3. flight' = SubSeq(flight, 1, 1)
    BY <1>1, <1>4
  <2>4. flight' \in Seq(Frames) /\ flight' # << >> /\ flight'[1] = flight[1]
    <3>1. Len(flight') = 1 /\ Len(<< >>) = 0
      BY <2>2, <2>3
    <3>2. flight' # << >>
      BY <3>1
    <3> QED
      BY <2>2, <2>3, <3>2, Zenon
  <2>5. Typed' /\ Connected'
    BY <1>1, <1>4, <2>4 DEF WireInv, Typed, Connected
  <2>6. Within'
    <3>1. Len(buf') <= Len(flight'[1].bytes)
      BY <1>1, <2>1, <2>4 DEF WireInv, Within
    <3> QED
      BY <2>4, <3>1 DEF Within
  <2>7. InStep'
    <3>1. Bytes(flight') = flight[1].bytes
      BY <1>2, <2>1, <2>3, FirstInFlight
    <3>2. IsPrefix(buf', Bytes(flight'))
      BY <1>1, <2>1, <3>1
    <3> QED
      BY <1>1, <3>2 DEF InStep, Bytes
  <2> QED
    BY <2>5, <2>6, <2>7 DEF WireInv
<1> QED
  BY <1>3, <1>4

(* Calls and the search in the queue leave the wire alone. *)
LEMMA CallType ==
    ASSUME NEW p \in {"idle", "search", "advance"}, NEW t \in Types,
           NEW i \in Ids,
           NEW w \in {"block", "peek", "wait"}
    PROVE  [pc |-> p, type |-> t, id |-> i, wait |-> w] \in Calls
BY DEF Calls

LEMMA NoCallType == NoCall \in Calls /\ NoCall.pc = "idle"
<1>1. NoCall \in Calls
  BY CallFields, CallType DEF NoCall
<1> QED
  BY <1>1 DEF NoCall

LEMMA TransactWire == WireInv /\ transact => WireInv'
<1> SUFFICES ASSUME WireInv, transact PROVE WireInv'
  OBVIOUS
<1> DEFINE m == Requests[calls + 1]
<1>1. /\ calls < MaxCalls /\ calls' = calls + 1 /\ sock = "open"
      /\ UNCHANGED <<sock, queue, buf, net, peer, flight>>
      /\ ResponseType(m) # None
      /\ \E w \in Waits :
            call' = [pc |-> "search", type |-> ResponseType(m), id |-> m.id, wait |-> w]
      /\ asked' = IF peer = "open" THEN Append(asked, m) ELSE asked
  BY DEF transact, Begins
<1>2. calls' \in 0 .. MaxCalls /\ calls + 1 \in 1 .. MaxCalls
  BY <1>1, ConnectionAssumption DEF WireInv, Typed
<1>3. calls + 1 \in DOMAIN Requests
  BY <1>2, ConnectionAssumption
<1>4. m \in Asked
  BY <1>1, <1>3 DEF Asked
<1>5. asked' \in Seq(Asked)
  <2>1. asked \in Seq(Asked)
    BY DEF WireInv, Typed
  <2> HIDE DEF m
  <2> QED
    BY <1>1, <1>4, <2>1
<1>6. call' \in Calls /\ call'.pc = "search"
  <2>1. PICK w \in Waits :
            call' = [pc |-> "search", type |-> ResponseType(m), id |-> m.id, wait |-> w]
    BY <1>1
  <2>2. /\ ResponseType(m) \in Types /\ w \in {"block", "peek", "wait"}
        /\ m.id \in Ids
    BY <1>3, CallFields, ConnectionAssumption
  <2> HIDE DEF m
  <2>3. call' \in Calls
    BY <2>1, <2>2, CallType
  <2> QED
    BY <2>1, <2>3
<1>7. /\ UNCHANGED <<sock, buf, net, flight>> /\ peer' \in {peer, "closed"}
      /\ queue' \in Seq(Sent) /\ (call'.pc = "advance" => sock = "open")
  BY <1>1 DEF WireInv, Typed
<1> QED
  BY <1>2, <1>5, <1>6, <1>7, WireUntouched

LEMMA RecvMessageWire == WireInv /\ recvMessage => WireInv'
<1> SUFFICES ASSUME WireInv, recvMessage PROVE WireInv'
  OBVIOUS
<1>1. calls' \in 0 .. MaxCalls
  BY ConnectionAssumption DEF recvMessage, Begins, WireInv, Typed
<1>2. call' \in Calls /\ call'.pc = "search"
  <2>1. PICK w \in Waits : call' = [pc |-> "search", type |-> None, id |-> 0, wait |-> w]
    BY DEF recvMessage
  <2>2. w \in {"block", "peek", "wait"}
    BY ConnectionAssumption
  <2>3. call' \in Calls
    BY <2>1, <2>2, CallFields, CallType
  <2> QED
    BY <2>1, <2>3
<1>3. /\ UNCHANGED <<sock, buf, net, flight>> /\ peer' \in {peer, "closed"}
      /\ queue' \in Seq(Sent) /\ asked' \in Seq(Asked)
      /\ (call'.pc = "advance" => sock = "open")
  BY <1>2 DEF recvMessage, peerVars, WireInv, Typed
<1> QED
  BY <1>1, <1>2, <1>3, WireUntouched

(* A call that is over. *)
LEMMA ReturnWire ==
    ASSUME WireInv, call' = NoCall, UNCHANGED <<sock, buf, peerVars>>,
           queue' \in Seq(Sent), calls' \in 0 .. MaxCalls
    PROVE  WireInv'
<1>1. call' \in Calls /\ call'.pc = "idle"
  BY NoCallType
<1>2. /\ UNCHANGED <<sock, buf, net, flight>> /\ peer' \in {peer, "closed"}
      /\ asked' \in Seq(Asked) /\ (call'.pc = "advance" => sock = "open")
  BY <1>1 DEF peerVars, WireInv, Typed
<1> QED
  BY <1>1, <1>2, WireUntouched

LEMMA FailureWire ==
    WireInv /\ (TransactFails \/ NotConnected \/ FramingError \/ Timeout \/ ReceiveFails)
        => WireInv'
<1> SUFFICES ASSUME WireInv,
                    TransactFails \/ NotConnected \/ FramingError \/ Timeout \/ ReceiveFails
             PROVE  WireInv'
  OBVIOUS
<1>1. queue \in Seq(Sent) /\ calls \in 0 .. MaxCalls
  BY DEF WireInv, Typed
<1>2. CASE TransactFails
  <2>1. calls' \in 0 .. MaxCalls
    BY <1>1, <1>2, ConnectionAssumption DEF TransactFails, Begins
  <2>2. call' = NoCall /\ UNCHANGED <<sock, buf, peerVars>> /\ queue' \in Seq(Sent)
    BY <1>1, <1>2 DEF TransactFails, Returns
  <2> QED
    BY <2>1, <2>2, ReturnWire
<1>3. CASE NotConnected \/ FramingError \/ Timeout \/ ReceiveFails
  <2>1. /\ call' = NoCall /\ UNCHANGED <<sock, buf, peerVars>>
        /\ queue' \in Seq(Sent) /\ calls' \in 0 .. MaxCalls
    BY <1>1, <1>3 DEF NotConnected, FramingError, Timeout, ReceiveFails, Advancing, Returns,
       peerVars
  <2> QED
    BY <2>1, ReturnWire
<1> QED
  BY <1>2, <1>3

(* The place of the first message that matches. *)
LEMMA FirstFound ==
    ASSUME queue \in Seq(Sent), Found # {}
    PROVE  /\ Min(Found) \in 1 .. Len(queue) /\ Matches(queue[Min(Found)])
           /\ \A j \in 1 .. Min(Found) - 1 : ~ Matches(queue[j])
<1>1. DOMAIN queue = 1 .. Len(queue) /\ Len(queue) \in Nat
  OBVIOUS
<1>2. Found \in SUBSET Nat /\ \A i : i \in Found <=> i \in 1 .. Len(queue) /\ Matches(queue[i])
  BY <1>1 DEF Found
<1>3. Min(Found) \in Found /\ \A y \in Found : Min(Found) <= y
  BY <1>2, Least
<1>4. PICK n \in Nat : n = Min(Found)
  BY <1>2, <1>3
<1>5. n \in 1 .. Len(queue) /\ Matches(queue[n])
  BY <1>2, <1>3, <1>4
<1>6. ASSUME NEW j \in 1 .. n - 1 PROVE ~ Matches(queue[j])
  <2>1. j \in 1 .. Len(queue) /\ ~ (n <= j)
    BY <1>5
  <2>2. j \notin Found
    BY <1>3, <1>4, <2>1
  <2> QED
    BY <1>2, <2>1, <2>2
<1> QED
  BY <1>4, <1>5, <1>6

LEMMA TakeFoundWire == WireInv /\ TakeFound => WireInv'
<1> SUFFICES ASSUME WireInv, TakeFound PROVE WireInv'
  OBVIOUS
<1>1. queue \in Seq(Sent) /\ calls \in 0 .. MaxCalls
  BY DEF WireInv, Typed
<1>2. /\ Found # {} /\ queue' = RemoveAt(queue, Min(Found)) /\ call' = NoCall
      /\ UNCHANGED <<sock, buf, calls, peerVars>>
  BY DEF TakeFound, Returns
<1>3. queue' \in Seq(Sent)
  BY <1>1, <1>2, FirstFound, RemoveAtType
<1> QED
  BY <1>1, <1>2, <1>3, ReturnWire

LEMMA SearchMoreWire == WireInv /\ SearchMore => WireInv'
<1> SUFFICES ASSUME WireInv, SearchMore PROVE WireInv'
  OBVIOUS
<1>1. call' = [call EXCEPT !.pc = "advance"] /\ call \in Calls /\ sock = "open"
  BY DEF SearchMore, WireInv, Typed
<1>2. call' \in Calls
  BY <1>1 DEF Calls
<1>3. /\ UNCHANGED <<sock, buf, net, flight>> /\ peer' \in {peer, "closed"}
      /\ queue' \in Seq(Sent) /\ asked' \in Seq(Asked) /\ calls' \in 0 .. MaxCalls
  BY DEF SearchMore, peerVars, WireInv, Typed
<1> QED
  BY <1>1, <1>2, <1>3, WireUntouched

(* What is asked for is never more than what is left of the first frame. *)
LEMMA NeverTooMuch ==
    ASSUME WireInv, sock = "open", net # << >>, FrameExtract(buf).status = "NEED_MORE"
    PROVE  /\ flight # << >> /\ flight[1] \in Frames
           /\ FrameExtract(buf).needed \in Nat
           /\ Len(buf) + FrameExtract(buf).needed <= Len(flight[1].bytes)
<1>1. buf \in Seq(Byte) /\ Len(buf) \in Nat
  BY DEF WireInv, Typed
<1>2. /\ flight # << >> /\ flight[1] \in Frames
      /\ Len(buf) >= 10 => FrameLength(buf) = FrameLength(flight[1].bytes)
  BY Begun
<1> DEFINE first == flight[1].bytes
<1>3. /\ Len(first) \in Nat /\ Len(first) >= 10 /\ FrameLength(first) \in Nat
      /\ FrameLength(first) < 10 \/ FrameLength(first) = Len(first)
  BY <1>2, FrameKinds
<1> HIDE DEF first
<1>4. CASE Len(buf) < 10
  <2>1. FrameExtract(buf).needed = 10 - Len(buf)
    BY <1>1, <1>4 DEF FrameExtract
  <2>2. FrameExtract(buf).needed \in Nat /\ Len(buf) + FrameExtract(buf).needed <= Len(first)
    BY <1>1, <1>3, <1>4, <2>1
  <2> QED
    BY <1>2, <2>2 DEF first
<1>5. CASE ~ (Len(buf) < 10)
  <2>1. FrameLength(buf) = FrameLength(first) /\ FrameLength(buf) \in Nat
    BY <1>1, <1>2, <1>3, <1>5 DEF first
  <2>2. FrameLength(buf) >= 10 /\ Len(buf) < FrameLength(buf)
    <3>1. Len(buf) >= 10
      BY <1>1, <1>5
    <3>2. ~ (FrameLength(buf) < 10) /\ ~ (FrameLength(buf) >= 10 /\ Len(buf) >= FrameLength(buf))
      BY <1>5, <3>1 DEF FrameExtract
    <3> QED
      BY <1>1, <2>1, <3>2
  <2>3. FrameExtract(buf).needed = FrameLength(buf) - Len(buf)
    BY <1>1, <1>5, <2>1, <2>2 DEF FrameExtract
  <2>4. FrameExtract(buf).needed \in Nat /\ Len(buf) + FrameExtract(buf).needed <= Len(first)
    BY <1>1, <1>3, <2>1, <2>2, <2>3
  <2> QED
    BY <1>2, <2>4 DEF first
<1> QED
  BY <1>4, <1>5

LEMMA ReceiveWire == WireInv /\ Receive => WireInv'
<1> SUFFICES ASSUME WireInv, Receive PROVE WireInv'
  OBVIOUS
<1>1. /\ sock = "open" /\ net # << >> /\ FrameExtract(buf).status = "NEED_MORE"
      /\ UNCHANGED <<sock, queue, call, calls, peer, asked, flight>>
  BY DEF Receive, Advancing, WireInv, Connected
<1>2. /\ buf \in Seq(Byte) /\ Len(buf) \in Nat /\ net \in Seq(Byte) /\ Len(net) \in Nat
      /\ flight \in Seq(Frames)
  BY DEF WireInv, Typed
<1>3. /\ flight # << >> /\ flight[1] \in Frames
      /\ FrameExtract(buf).needed \in Nat
      /\ Len(buf) + FrameExtract(buf).needed <= Len(flight[1].bytes)
  BY <1>1, NeverTooMuch
<1>4. PICK n : /\ n \in 0 .. Len(net) /\ n <= FrameExtract(buf).needed
               /\ buf' = buf \o SubSeq(net, 1, n)
               /\ net' = SubSeq(net, n + 1, Len(net))
  <2>1. PICK most \in {Piece, BufSize} :
            LET k == Min({most, FrameExtract(buf).needed, Len(net)})
            IN  buf' = buf \o SubSeq(net, 1, k) /\ net' = SubSeq(net, k + 1, Len(net))
    BY DEF Receive
  <2> DEFINE L == {most, FrameExtract(buf).needed, Len(net)}
  <2>2. L \in SUBSET Nat /\ L # {}
    BY <1>2, <1>3, ConnectionAssumption, BufSizeAssumption
  <2>3. FrameExtract(buf).needed \in L /\ Len(net) \in L
    OBVIOUS
  <2> HIDE DEF L
  <2>4. /\ Min(L) \in Nat /\ Min(L) <= Len(net)
        /\ Min(L) <= FrameExtract(buf).needed
    BY <2>2, <2>3, Least
  <2>5. Min(L) \in 0 .. Len(net)
    BY <1>2, <2>4
  <2>6. buf' = buf \o SubSeq(net, 1, Min(L)) /\ net' = SubSeq(net, Min(L) + 1, Len(net))
    BY <2>1 DEF L
  <2> QED
    BY <2>4, <2>5, <2>6
<1>5. /\ buf' \in Seq(Byte) /\ net' \in Seq(Byte) /\ Len(buf') = Len(buf) + n
      /\ buf' \o net' = buf \o net
  <2>1. /\ SubSeq(net, n + 1, Len(net)) \in Seq(Byte)
        /\ buf \o SubSeq(net, 1, n) \in Seq(Byte) /\ Len(buf \o SubSeq(net, 1, n)) = Len(buf) + n
        /\ (buf \o SubSeq(net, 1, n)) \o SubSeq(net, n + 1, Len(net)) = buf \o net
    <3>1. buf \in Seq(Byte) /\ net \in Seq(Byte) /\ n \in 0 .. Len(net)
      BY <1>2, <1>4
    <3> QED
      BY <3>1, Received
  <2> QED
    BY <1>4, <2>1, Zenon
<1>6. Typed' /\ Connected'
  BY <1>1, <1>5 DEF WireInv, Typed, Connected
<1>7. InStep'
  <2>1. buf' \o net' = Bytes(flight)
    BY <1>1, <1>5 DEF WireInv, InStep
  <2> QED
    BY <1>1, <2>1 DEF InStep, Bytes
<1>8. Within'
  <2>1. Len(flight[1].bytes) \in Nat
    BY <1>3, FrameKinds
  <2>2. n \in Nat
    BY <1>2, <1>4
  <2>3. Len(buf') <= Len(flight[1].bytes)
    BY <1>2, <1>3, <1>4, <1>5, <2>1, <2>2
  <2> QED
    BY <1>1, <1>3, <2>3 DEF Within
<1> QED
  BY <1>6, <1>7, <1>8 DEF WireInv

(* A frame that was ready leaves the buffer as a whole. *)
LEMMA FrameGone ==
    ASSUME WireInv, sock = "open", FrameExtract(buf).status = "READY",
           UNCHANGED <<sock, net, peer, asked, calls>>, buf' = << >>, flight' = Tail(flight),
           queue' \in Seq(Sent), call' \in Calls
    PROVE  WireInv'
<1>1. Tail(flight) \in Seq(Frames) /\ net = Bytes(Tail(flight)) /\ net \in Seq(Byte)
  BY Whole DEF WireInv, Typed
<1>2. Typed' /\ Connected'
  BY <1>1 DEF WireInv, Typed, Connected
<1>3. InStep'
  <2>1. << >> \o net = net
    BY <1>1, ConcatEmptySeq
  <2>2. buf' \o net' = Bytes(flight')
    BY <1>1, <2>1
  <2> QED
    BY <2>2 DEF InStep, Bytes
<1>4. Within'
  <2>1. CASE flight' = << >>
    BY <2>1 DEF Within
  <2>2. CASE flight' # << >>
    <3>1. flight'[1] \in Frames
      <4> DEFINE rest == Tail(flight)
      <4>1. rest \in Seq(Frames) /\ rest # << >>
        BY <1>1, <2>2
      <4> HIDE DEF rest
      <4>2. rest[1] \in Frames
        BY <4>1
      <4> QED
        BY <4>2 DEF rest
    <3>2. Len(flight'[1].bytes) \in Nat /\ Len(flight'[1].bytes) >= 10
      BY <3>1, FrameKinds
    <3>3. Len(buf') <= Len(flight'[1].bytes)
      BY <3>2
    <3> QED
      BY <2>2, <3>3 DEF Within
  <2> QED
    BY <2>1, <2>2
<1> QED
  BY <1>2, <1>3, <1>4 DEF WireInv

(* The decoder takes the message out of a whole frame that its encoder put *)
(* in, and refuses a frame with no message.                                *)
LEMMA Decoded ==
    ASSUME WireInv, sock = "open", FrameExtract(buf).status = "READY"
    PROVE  /\ Decode(buf).err = OK => /\ flight[1].msg = Decode(buf).val
                                      /\ Decode(buf).val \in Sent
                                      /\ flight[1].msg # NoMessage
           /\ Decode(buf).err # OK => flight[1].msg = NoMessage
<1>1. flight[1] \in Frames /\ buf = flight[1].bytes /\ FrameLength(buf) >= 10
  BY Whole
<1>2. \/ /\ flight[1].msg \in Sent /\ flight[1].msg # NoMessage
         /\ Decode(buf).err = OK /\ Decode(buf).val = flight[1].msg
      \/ flight[1].msg = NoMessage /\ (FrameLength(buf) < 10 \/ Decode(buf).err # OK)
  BY <1>1, FrameKinds
<1>3. FrameLength(buf) \in Nat
  BY <1>1, FrameKinds
<1> QED
  BY <1>1, <1>2, <1>3

LEMMA DecodeFrameWire == WireInv /\ DecodeFrame => WireInv'
<1> SUFFICES ASSUME WireInv, DecodeFrame PROVE WireInv'
  OBVIOUS
<1>1. /\ sock = "open" /\ FrameExtract(buf).status = "READY"
      /\ Decode(buf).err = OK /\ queue' = Append(queue, Decode(buf).val)
      /\ buf' = << >> /\ flight' = Tail(flight)
      /\ call' = [call EXCEPT !.pc = "search"]
      /\ UNCHANGED <<sock, net, peer, asked, calls>>
  BY DEF DecodeFrame, Advancing, WireInv, Connected
<1>2. Decode(buf).val \in Sent /\ queue \in Seq(Sent) /\ call \in Calls
  BY <1>1, Decoded DEF WireInv, Typed
<1>3. queue' \in Seq(Sent)
  BY <1>1, <1>2
<1>4. call' \in Calls
  BY <1>1, <1>2 DEF Calls
<1> QED
  BY <1>1, <1>3, <1>4, FrameGone

LEMMA DiscardFrameWire == WireInv /\ DiscardFrame => WireInv'
<1> SUFFICES ASSUME WireInv, DiscardFrame PROVE WireInv'
  OBVIOUS
<1>1. /\ sock = "open" /\ FrameExtract(buf).status = "READY"
      /\ buf' = << >> /\ flight' = Tail(flight) /\ queue' = queue /\ call' = NoCall
      /\ UNCHANGED <<sock, net, peer, asked, calls>>
  BY DEF DiscardFrame, Advancing, Returns, WireInv, Connected
<1>2. queue' \in Seq(Sent) /\ call' \in Calls
  BY <1>1, NoCallType DEF WireInv, Typed
<1> QED
  BY <1>1, <1>2, FrameGone

LEMMA NextWire == CleanReuse /\ WireInv /\ [Next]_vars => WireInv'
<1> SUFFICES ASSUME CleanReuse, WireInv, [Next]_vars PROVE WireInv'
  OBVIOUS
<1>1. CASE UNCHANGED vars
  <2>1. /\ UNCHANGED <<sock, buf, net, flight>> /\ peer' \in {peer, "closed"}
        /\ queue' \in Seq(Sent) /\ asked' \in Seq(Asked) /\ calls' \in 0 .. MaxCalls
        /\ call' \in Calls /\ (call'.pc = "advance" => sock = "open")
    BY <1>1 DEF vars, clientVars, peerVars, WireInv, Typed, Connected
  <2> QED
    BY <2>1, WireUntouched
<1>2. CASE Answer \/ Notify \/ PeerCloses
  BY <1>2, AnswerWire, NotifyWire, PeerClosesWire
<1>3. CASE openConnectionToReader \/ closeConnectionToReader
  BY <1>3, OpenWire, CloseWire
<1>4. CASE transact \/ recvMessage \/ TakeFound \/ SearchMore
  BY <1>4, TransactWire, RecvMessageWire, TakeFoundWire, SearchMoreWire
<1>5. CASE TransactFails \/ NotConnected \/ FramingError \/ Timeout \/ ReceiveFails
  BY <1>5, FailureWire
<1>6. CASE Receive \/ DecodeFrame \/ DiscardFrame
  BY <1>6, ReceiveWire, DecodeFrameWire, DiscardFrameWire
<1> QED
  BY <1>1, <1>2, <1>3, <1>4, <1>5, <1>6 DEF Next, CallStep, recvAdvance

(* Whatever the reader sends and however it is cut into pieces, discarded  *)
(* or interrupted by time limits (recvAdvance, ltkcpp_connection.cpp), the *)
(* buffer and the wire hold whole frames from the first byte on.           *)
THEOREM DecoderInStep == CleanReuse => (Spec => []InStep)
<1> SUFFICES ASSUME CleanReuse PROVE Spec => []InStep
  OBVIOUS
<1>1. Init => WireInv
  BY InitWire
<1>2. WireInv /\ [Next]_vars => WireInv'
  BY NextWire
<1>3. WireInv => InStep
  BY DEF WireInv
<1> QED
  BY <1>1, <1>2, <1>3, PTL DEF Spec

-----------------------------------------------------------------------------
(* The connection implements the mailbox. *)

Letters == queue \o Messages(flight)

LEMMA LettersType == WireInv => /\ queue \in Seq(Sent) /\ flight \in Seq(Frames)
                                /\ Messages(flight) \in Seq(Sent) /\ Letters \in Seq(Sent)
<1> SUFFICES ASSUME WireInv
             PROVE  /\ queue \in Seq(Sent) /\ flight \in Seq(Frames)
                    /\ Messages(flight) \in Seq(Sent) /\ Letters \in Seq(Sent)
  OBVIOUS
<1>1. queue \in Seq(Sent) /\ flight \in Seq(Frames)
  BY DEF WireInv, Typed
<1>2. Messages(flight) \in Seq(Sent)
  BY <1>1, WireType
<1> QED
  BY <1>1, <1>2, ConcatProperties DEF Letters

LEMMA InitBox == Init => Box!Init
<1> SUFFICES ASSUME Init PROVE Box!Init
  OBVIOUS
<1>1. << >> \o << >> = << >>
  OBVIOUS
<1>2. queue \o Messages(flight) = << >>
  BY <1>1, NothingInFlight DEF Init
<1>3. result.msg = NoMessage
  BY DEF Init
<1> QED
  BY <1>2, <1>3 DEF Box!Init

(* Nothing happens to the box. *)
LEMMA BoxUntouched ==
    ASSUME UNCHANGED <<queue, flight, result>>
    PROVE  UNCHANGED <<Letters, result>>
BY DEF Letters, Messages

(* A call that fails takes nothing out. *)
LEMMA BoxNothing ==
    ASSUME Letters' = Letters, result'.msg = NoMessage
    PROVE  Box!Nothing
BY DEF Box!Nothing, Letters

LEMMA FrontOfAppend ==
    ASSUME NEW S, NEW q \in Seq(S), NEW m \in S
    PROVE  Append(q, m) # << >> /\ Front(Append(q, m)) = q
<1> DEFINE a == Append(q, m)
<1>1. a \in Seq(S) /\ Len(a) = Len(q) + 1 /\ \A i \in 1 .. Len(q) : a[i] = q[i]
  OBVIOUS
<1>2. Len(q) \in Nat
  OBVIOUS
<1> HIDE DEF a
<1>3. a # << >>
  BY <1>1, <1>2
<1> DEFINE f == SubSeq(a, 1, Len(q))
<1>4. f \in Seq(S) /\ Len(f) = Len(q) /\ \A i \in 1 .. Len(q) : f[i] = a[i]
  BY <1>1, <1>2
<1> HIDE DEF f
<1>5. f = q
  BY <1>1, <1>4, SeqEqual
<1>6. Len(a) - 1 = Len(q)
  BY <1>1, <1>2
<1>7. Front(a) = f
  BY <1>6 DEF Front, f
<1> QED
  BY <1>3, <1>5, <1>7 DEF a

(* A message the reader sends is the last in the box. *)
LEMMA BoxPost ==
    ASSUME WireInv, NEW x \in Frames, Emit(x), UNCHANGED <<queue, result>>
    PROVE  Box!Post \/ UNCHANGED <<Letters, result>>
<1>1. /\ queue \in Seq(Sent) /\ flight \in Seq(Frames) /\ Messages(flight) \in Seq(Sent)
      /\ Letters \in Seq(Sent)
  BY LettersType
<1>2. flight' = Append(flight, x) /\ queue' = queue
  BY DEF Emit
<1>3. Letters' = queue \o Messages(Append(flight, x))
  BY <1>2 DEF Letters, Messages
<1>4. CASE x.msg = NoMessage
  <2>1. Messages(Append(flight, x)) = Messages(flight)
    BY <1>1, <1>4, OneMoreInFlight
  <2> QED
    BY <1>3, <2>1 DEF Letters
<1>5. CASE x.msg # NoMessage
  <2>1. x.msg \in Sent
    BY <1>5, FrameKinds
  <2>2. Messages(Append(flight, x)) = Append(Messages(flight), x.msg)
    BY <1>1, <1>5, OneMoreInFlight
  <2>3. queue \o Append(Messages(flight), x.msg) = Append(queue \o Messages(flight), x.msg)
    <3> SUFFICES ASSUME NEW a \in Seq(Sent), NEW b \in Seq(Sent), NEW m \in Sent
                 PROVE  a \o Append(b, m) = Append(a \o b, m)
      BY <1>1, <2>1
    <3> QED
      OBVIOUS
  <2>4. Letters' = Append(Letters, x.msg)
    BY <1>3, <2>2, <2>3 DEF Letters
  <2>5. Letters' # << >> /\ Letters = Front(Letters')
    BY <1>1, <2>1, <2>4, FrontOfAppend
  <2> QED
    BY <2>5 DEF Box!Post, Letters, Box!Front, Front
<1> QED
  BY <1>4, <1>5

LEMMA AnswerBox == WireInv /\ Answer => Box!Post \/ UNCHANGED <<Letters, result>>
<1> SUFFICES ASSUME WireInv, Answer PROVE Box!Post \/ UNCHANGED <<Letters, result>>
  OBVIOUS
<1>1. asked \in Seq(Asked) /\ asked # << >>
  BY DEF WireInv, Typed, Answer
<1>2. Head(asked) \in Asked
  BY <1>1
<1>3. PICK m \in Answers(Head(asked)) : Emit(Frame(m))
  BY DEF Answer
<1>4. Frame(m) \in Frames /\ UNCHANGED <<queue, result>>
  BY <1>2, AnswerSent DEF Answer, clientVars
<1> QED
  BY <1>3, <1>4, BoxPost

LEMMA NotifyBox == WireInv /\ Notify => Box!Post \/ UNCHANGED <<Letters, result>>
<1> SUFFICES ASSUME WireInv, Notify PROVE Box!Post \/ UNCHANGED <<Letters, result>>
  OBVIOUS
<1>1. PICK x \in Frames : Emit(x)
  BY DEF Notify, Frames, Sent
<1>2. UNCHANGED <<queue, result>>
  BY DEF Notify, clientVars
<1> QED
  BY <1>1, <1>2, BoxPost

(* Closing loses the last messages: those of the frames not yet begun. *)
LEMMA CloseBox == WireInv /\ closeConnectionToReader => Box!Close
<1> SUFFICES ASSUME WireInv, closeConnectionToReader PROVE Box!Close
  OBVIOUS
<1>1. /\ queue \in Seq(Sent) /\ flight \in Seq(Frames) /\ Messages(flight) \in Seq(Sent)
  BY LettersType
<1>2. /\ flight' = IF buf = << >> THEN << >> ELSE SubSeq(flight, 1, 1)
      /\ queue' = queue /\ result' = result
  BY DEF closeConnectionToReader
<1>3. \E rest \in Seq(Sent) : /\ Messages(flight') \in Seq(Sent)
                              /\ Messages(flight) = Messages(flight') \o rest
  <2>1. CASE buf = << >>
    <3>1. Messages(flight') = << >>
      BY <1>2, <2>1, NothingInFlight
    <3>2. << >> \in Seq(Sent) /\ << >> \o Messages(flight) = Messages(flight)
      BY <1>1, ConcatEmptySeq
    <3> QED
      BY <1>1, <3>1, <3>2
  <2>2. CASE buf # << >>
    <3>1. flight # << >> /\ flight[1] \in Frames
      BY <2>2, Begun
    <3>2. Tail(flight) \in Seq(Frames)
      BY <1>1, <3>1
    <3>3. MessageOf[flight[1]] \in Seq(Sent) /\ Messages(Tail(flight)) \in Seq(Sent)
      BY <3>1, <3>2, Stands, WireType
    <3>4. /\ Messages(flight) = MessageOf[flight[1]] \o Messages(Tail(flight))
          /\ Messages(SubSeq(flight, 1, 1)) = MessageOf[flight[1]]
      BY <1>1, <3>1, FirstInFlight
    <3> QED
      BY <1>2, <2>2, <3>3, <3>4
  <2> QED
    BY <2>1, <2>2
<1>4. PICK rest \in Seq(Sent) : /\ Messages(flight') \in Seq(Sent)
                                /\ Messages(flight) = Messages(flight') \o rest
  BY <1>3
<1>5. IsPrefix(queue \o Messages(flight'), queue \o Messages(flight))
  <2>1. ASSUME NEW a \in Seq(Sent), NEW b \in Seq(Sent), NEW c \in Seq(Sent)
        PROVE  IsPrefix(a \o b, a \o (b \o c))
    <3> DEFINE x == a \o b
               y == x \o c
    <3>1. a \o (b \o c) = y
      OBVIOUS
    <3>2. x \in Seq(Sent)
      OBVIOUS
    <3> HIDE DEF x
    <3>3. /\ y \in Seq(Sent) /\ Len(x) <= Len(y)
          /\ \A i \in 1 .. Len(x) : y[i] = x[i]
      BY <3>2
    <3> HIDE DEF y
    <3>4. IsPrefix(x, y)
      BY <3>2, <3>3, PrefixElements
    <3> QED
      BY <3>1, <3>4 DEF x
  <2> QED
    BY <1>1, <1>4, <2>1
<1>6. Messages(flight)' = Messages(flight')
  BY DEF Messages
<1> QED
  BY <1>2, <1>5, <1>6 DEF Box!Close, Box!IsPrefix, IsPrefix

LEMMA PartOf ==
    ASSUME NEW S, NEW s \in Seq(S), NEW m \in Nat, NEW n \in Nat,
           1 <= m, m <= n + 1, n <= Len(s)
    PROVE  /\ SubSeq(s, m, n) \in Seq(S) /\ Len(SubSeq(s, m, n)) = n - m + 1
           /\ \A j \in 1 .. n - m + 1 : SubSeq(s, m, n)[j] = s[m + j - 1]
<1>1. Len(s) \in Nat /\ \A j \in 1 .. Len(s) : s[j] \in S
  OBVIOUS
<1>2. \A j \in m .. n : s[j] \in S
  BY <1>1
<1> DEFINE p == SubSeq(s, m, n)
<1>3. /\ p \in Seq(S) /\ Len(p) = (IF m <= n THEN n - m + 1 ELSE 0)
      /\ \A j \in 1 .. n - m + 1 : p[j] = s[m + j - 1]
  BY <1>2, SubSeqProperties
<1> HIDE DEF p
<1>4. Len(p) = n - m + 1
  BY <1>3
<1> QED
  BY <1>3, <1>4 DEF p

LEMMA RemoveAtFront ==
    ASSUME NEW S, NEW q \in Seq(S), NEW r \in Seq(S), NEW i \in 1 .. Len(q)
    PROVE  RemoveAt(q \o r, i) = RemoveAt(q, i) \o r
<1> DEFINE w == q \o r
           front == SubSeq(q, 1, i - 1)
           back == SubSeq(q, i + 1, Len(q))
           wfront == SubSeq(w, 1, i - 1)
           wback == SubSeq(w, i + 1, Len(w))
           tail == back \o r
<1>1. /\ w \in Seq(S) /\ Len(w) = Len(q) + Len(r) /\ Len(q) \in Nat /\ Len(r) \in Nat
      /\ i \in Nat /\ 1 <= i /\ i <= Len(q)
  OBVIOUS
<1>2. /\ \A j \in 1 .. Len(q) : w[j] = q[j]
      /\ \A j \in 1 .. Len(r) : w[Len(q) + j] = r[j]
  OBVIOUS
<1>3. /\ front \in Seq(S) /\ Len(front) = i - 1 /\ \A j \in 1 .. i - 1 : front[j] = q[j]
      /\ back \in Seq(S) /\ Len(back) = Len(q) - i
      /\ \A j \in 1 .. Len(q) - i : back[j] = q[i + j]
  <2>1. front \in Seq(S) /\ Len(front) = i - 1 /\ \A j \in 1 .. i - 1 : front[j] = q[j]
    BY SubSeqProperties
  <2>2. back \in Seq(S) /\ Len(back) = Len(q) - i
        /\ \A j \in 1 .. Len(q) - i : back[j] = q[i + j]
    BY SubSeqProperties
  <2> QED
    BY <2>1, <2>2
<1> HIDE DEF w
<1>4. /\ wfront \in Seq(S) /\ Len(wfront) = i - 1 /\ \A j \in 1 .. i - 1 : wfront[j] = w[j]
      /\ wback \in Seq(S) /\ Len(wback) = Len(w) - i
      /\ \A j \in 1 .. Len(w) - i : wback[j] = w[i + j]
  <2>1. i - 1 <= Len(w) /\ i <= Len(w)
    BY <1>1
  <2>2. i - 1 \in Nat /\ i + 1 \in Nat /\ Len(w) \in Nat
    BY <1>1
  <2>3. wfront \in Seq(S) /\ Len(wfront) = i - 1 /\ \A j \in 1 .. i - 1 : wfront[j] = w[j]
    <3>1. /\ wfront \in Seq(S) /\ Len(wfront) = i - 1 - 1 + 1
          /\ \A j \in 1 .. i - 1 - 1 + 1 : wfront[j] = w[1 + j - 1]
      BY <1>1, <2>1, <2>2, PartOf
    <3> HIDE DEF wfront
    <3> QED
      BY <1>1, <3>1
  <2>4. wback \in Seq(S) /\ Len(wback) = Len(w) - i
        /\ \A j \in 1 .. Len(w) - i : wback[j] = w[i + j]
    <3>1. /\ wback \in Seq(S) /\ Len(wback) = Len(w) - (i + 1) + 1
          /\ \A j \in 1 .. Len(w) - (i + 1) + 1 : wback[j] = w[(i + 1) + j - 1]
      BY <1>1, <2>1, <2>2, PartOf
    <3> HIDE DEF wback
    <3> QED
      BY <1>1, <2>2, <3>1
  <2> QED
    BY <2>3, <2>4
<1> HIDE DEF front, back, wfront, wback
<1>5. front = wfront
  <2>1. \A j \in 1 .. Len(front) : front[j] = wfront[j]
    BY <1>1, <1>2, <1>3, <1>4
  <2> QED
    BY <1>3, <1>4, <2>1, SeqEqual
<1>6. /\ tail \in Seq(S) /\ Len(tail) = Len(q) - i + Len(r)
      /\ \A j \in 1 .. Len(q) - i : tail[j] = back[j]
      /\ \A j \in 1 .. Len(r) : tail[Len(q) - i + j] = r[j]
  <2>1. ASSUME NEW a \in Seq(S), NEW b \in Seq(S)
        PROVE  /\ a \o b \in Seq(S) /\ Len(a \o b) = Len(a) + Len(b)
               /\ \A j \in 1 .. Len(a) : (a \o b)[j] = a[j]
               /\ \A j \in 1 .. Len(b) : (a \o b)[Len(a) + j] = b[j]
    OBVIOUS
  <2>2. /\ tail \in Seq(S) /\ Len(tail) = Len(back) + Len(r)
        /\ \A j \in 1 .. Len(back) : tail[j] = back[j]
        /\ \A j \in 1 .. Len(r) : tail[Len(back) + j] = r[j]
    BY <1>3, <2>1
  <2> HIDE DEF tail
  <2> QED
    BY <1>3, <2>2
<1> HIDE DEF tail
<1>7. ASSUME NEW j \in 1 .. Len(tail) PROVE tail[j] = wback[j]
  <2>1. wback[j] = w[i + j]
    BY <1>1, <1>4, <1>6
  <2>2. CASE j <= Len(q) - i
    <3>1. j \in 1 .. Len(q) - i /\ i + j \in 1 .. Len(q)
      BY <1>1, <1>6, <2>2
    <3> QED
      BY <1>2, <1>3, <1>6, <2>1, <3>1
  <2>3. CASE ~ (j <= Len(q) - i)
    <3> DEFINE k == j - (Len(q) - i)
    <3>1. k \in 1 .. Len(r) /\ Len(q) - i + k = j /\ Len(q) + k = i + j
      BY <1>1, <1>6, <2>3
    <3> HIDE DEF k
    <3>2. tail[j] = r[k] /\ w[i + j] = r[k]
      BY <1>2, <1>6, <3>1
    <3> QED
      BY <2>1, <3>2
  <2> QED
    BY <2>2, <2>3
<1>8. tail = wback
  <2>1. Len(tail) = Len(wback)
    BY <1>1, <1>4, <1>6
  <2> QED
    BY <1>4, <1>6, <1>7, <2>1, SeqEqual
<1>9. front \o tail = (front \o back) \o r
  <2>1. ASSUME NEW a \in Seq(S), NEW b \in Seq(S), NEW c \in Seq(S)
        PROVE  a \o (b \o c) = (a \o b) \o c
    OBVIOUS
  <2> QED
    BY <1>3, <2>1 DEF tail
<1>10. RemoveAt(w, i) = wfront \o wback /\ RemoveAt(q, i) = front \o back
  BY DEF RemoveAt, front, back, wfront, wback
<1>11. RemoveAt(w, i) = RemoveAt(q, i) \o r
  BY <1>5, <1>8, <1>9, <1>10
<1> QED
  BY <1>11 DEF w

(* A call takes out the first message that answers it: the queue comes     *)
(* before the frames that are not yet decoded.                             *)
LEMMA TakeBox == WireInv /\ TakeFound => Box!Take
<1> SUFFICES ASSUME WireInv, TakeFound PROVE Box!Take
  OBVIOUS
<1>1. /\ queue \in Seq(Sent) /\ Messages(flight) \in Seq(Sent)
  BY LettersType
<1>2. /\ Found # {} /\ queue' = RemoveAt(queue, Min(Found)) /\ flight' = flight
      /\ result'.msg = queue[Min(Found)]
      /\ result'.type = call.type /\ result'.id = call.id
  BY DEF TakeFound, Returns, peerVars
<1>3. PICK n : n = Min(Found)
  OBVIOUS
<1>4. /\ n \in 1 .. Len(queue) /\ Matches(queue[n])
      /\ \A j \in 1 .. n - 1 : ~ Matches(queue[j])
  BY <1>1, <1>2, <1>3, FirstFound
<1>5. Letters' = RemoveAt(Letters, n)
  <2>1. RemoveAt(queue \o Messages(flight), n) = RemoveAt(queue, n) \o Messages(flight)
    BY <1>1, <1>4, RemoveAtFront
  <2> QED
    BY <1>2, <1>3, <2>1 DEF Letters, Messages
<1>6. /\ n \in DOMAIN Letters /\ \A j \in 1 .. n : Letters[j] = queue[j]
  <2>1. /\ DOMAIN (queue \o Messages(flight)) = 1 .. Len(queue) + Len(Messages(flight))
        /\ Len(queue) \in Nat /\ Len(Messages(flight)) \in Nat
        /\ \A j \in 1 .. Len(queue) : (queue \o Messages(flight))[j] = queue[j]
    BY <1>1
  <2> HIDE DEF Letters
  <2> QED
    BY <1>4, <2>1 DEF Letters
<1>7. \A m : Matches(m) <=> Box!Answers(m, result'.type, result'.id)
  BY <1>2 DEF Matches, Box!Answers
<1>8. /\ Letters' = RemoveAt(Letters, n) /\ result'.msg = Letters[n]
      /\ Box!Answers(Letters[n], result'.type, result'.id)
      /\ \A j \in 1 .. n - 1 : ~ Box!Answers(Letters[j], result'.type, result'.id)
  <2>1. n \in 1 .. n /\ \A j \in 1 .. n - 1 : j \in 1 .. n
    BY <1>4
  <2> QED
    BY <1>2, <1>3, <1>4, <1>5, <1>6, <1>7, <2>1
<1> QED
  BY <1>6, <1>8 DEF Box!Take, Letters, Box!RemoveAt, RemoveAt

(* A message that is decoded moves from the first frame to the queue's end. *)
LEMMA DecodeBox == WireInv /\ DecodeFrame => UNCHANGED <<Letters, result>>
<1> SUFFICES ASSUME WireInv, DecodeFrame PROVE UNCHANGED <<Letters, result>>
  OBVIOUS
<1>1. /\ sock = "open" /\ FrameExtract(buf).status = "READY"
      /\ Decode(buf).err = OK /\ queue' = Append(queue, Decode(buf).val)
      /\ flight' = Tail(flight) /\ result' = result
  BY DEF DecodeFrame, Advancing, WireInv, Connected
<1>2. /\ flight # << >> /\ flight[1] \in Frames /\ Tail(flight) \in Seq(Frames)
      /\ queue \in Seq(Sent) /\ flight \in Seq(Frames)
  BY <1>1, Whole, LettersType
<1>3. PICK v \in Sent : v = Decode(buf).val /\ flight[1].msg = v /\ v # NoMessage
  BY <1>1, Decoded
<1>4. MessageOf[flight[1]] = <<v>>
  BY <1>2, <1>3 DEF MessageOf
<1>5. Messages(flight) = <<v>> \o Messages(Tail(flight))
  BY <1>2, <1>4, FirstInFlight
<1>6. Append(queue, v) \o Messages(Tail(flight)) = queue \o (<<v>> \o Messages(Tail(flight)))
  <2>1. Messages(Tail(flight)) \in Seq(Sent)
    BY <1>2, WireType
  <2>2. ASSUME NEW a \in Seq(Sent), NEW b \in Seq(Sent)
        PROVE  Append(a, v) \o b = a \o (<<v>> \o b)
    OBVIOUS
  <2> QED
    BY <1>2, <2>1, <2>2
<1> QED
  BY <1>1, <1>3, <1>5, <1>6 DEF Letters, Messages

LEMMA DiscardBox == WireInv /\ DiscardFrame => Box!Nothing
<1> SUFFICES ASSUME WireInv, DiscardFrame PROVE Box!Nothing
  OBVIOUS
<1>1. /\ sock = "open" /\ FrameExtract(buf).status = "READY" /\ Decode(buf).err # OK
      /\ queue' = queue /\ flight' = Tail(flight) /\ result'.msg = NoMessage
  BY DEF DiscardFrame, Advancing, Returns, WireInv, Connected
<1>2. /\ flight # << >> /\ flight[1] \in Frames /\ Tail(flight) \in Seq(Frames)
      /\ flight \in Seq(Frames) /\ flight[1].msg = NoMessage
  BY <1>1, Whole, Decoded, LettersType
<1>3. MessageOf[flight[1]] = << >>
  BY <1>2 DEF MessageOf
<1>4. Messages(flight) = << >> \o Messages(Tail(flight))
  BY <1>2, <1>3, FirstInFlight
<1>5. << >> \o Messages(Tail(flight)) = Messages(Tail(flight))
  BY <1>2, WireType, ConcatEmptySeq
<1>6. Letters' = Letters
  BY <1>1, <1>4, <1>5 DEF Letters, Messages
<1> QED
  BY <1>1, <1>6, BoxNothing

LEMMA FailureBox ==
    TransactFails \/ NotConnected \/ FramingError \/ Timeout \/ ReceiveFails => Box!Nothing
<1> SUFFICES ASSUME TransactFails \/ NotConnected \/ FramingError \/ Timeout \/ ReceiveFails
             PROVE  Box!Nothing
  OBVIOUS
<1>1. UNCHANGED <<queue, flight>> /\ result'.msg = NoMessage
  <2>1. CASE TransactFails
    BY <2>1 DEF TransactFails, Returns, peerVars
  <2>2. CASE NotConnected \/ FramingError \/ Timeout \/ ReceiveFails
    BY <2>2 DEF NotConnected, FramingError, Timeout, ReceiveFails, Returns, peerVars
  <2> QED
    BY <2>1, <2>2
<1>2. Letters' = Letters
  BY <1>1 DEF Letters, Messages
<1> QED
  BY <1>1, <1>2, BoxNothing

LEMMA QuietBox ==
    PeerCloses \/ openConnectionToReader \/ transact \/ recvMessage \/ SearchMore \/ Receive
        => UNCHANGED <<Letters, result>>
<1> SUFFICES ASSUME PeerCloses \/ openConnectionToReader \/ transact \/ recvMessage
                        \/ SearchMore \/ Receive
             PROVE  UNCHANGED <<queue, flight, result>>
  BY BoxUntouched
<1> QED
  BY DEF PeerCloses, openConnectionToReader, transact, recvMessage, SearchMore, Receive,
     Advancing, clientVars, peerVars

LEMMA NextBox == WireInv /\ [Next]_vars => [Box!Next]_<<Letters, result>>
<1> SUFFICES ASSUME WireInv, [Next]_vars PROVE Box!Next \/ UNCHANGED <<Letters, result>>
  OBVIOUS
<1>1. CASE UNCHANGED vars
  <2>1. UNCHANGED <<queue, flight, result>>
    BY <1>1 DEF vars, clientVars, peerVars
  <2> QED
    BY <2>1, BoxUntouched
<1>2. CASE Answer \/ Notify
  <2>1. Box!Post \/ UNCHANGED <<Letters, result>>
    BY <1>2, AnswerBox, NotifyBox
  <2> QED
    BY <2>1 DEF Box!Next
<1>3. CASE closeConnectionToReader
  BY <1>3, CloseBox DEF Box!Next
<1>4. CASE TakeFound
  BY <1>4, TakeBox DEF Box!Next
<1>5. CASE TransactFails \/ NotConnected \/ FramingError \/ Timeout \/ ReceiveFails
  BY <1>5, FailureBox DEF Box!Next
<1>6. CASE DiscardFrame
  BY <1>6, DiscardBox DEF Box!Next
<1>7. CASE PeerCloses \/ openConnectionToReader \/ transact \/ recvMessage \/ SearchMore \/ Receive
  BY <1>7, QuietBox
<1>8. CASE DecodeFrame
  BY <1>8, DecodeBox
<1> QED
  BY <1>1, <1>2, <1>3, <1>4, <1>5, <1>6, <1>7, <1>8 DEF Next, CallStep, recvAdvance

(* The connection is a mailbox: no message is changed, lost, repeated or   *)
(* overtaken between the reader's encoder and the caller, and a call       *)
(* returns the first answer to its own request, or nothing                 *)
(* (ltkcpp_connection.cpp, transact, recvMessage and recvAdvance).         *)
THEOREM ConnectionIsMailbox == CleanReuse => (Spec => MailboxKept)
<1> SUFFICES ASSUME CleanReuse PROVE Spec => MailboxKept
  OBVIOUS
<1>1. Init => WireInv
  BY InitWire
<1>2. WireInv /\ [Next]_vars => WireInv'
  BY NextWire
<1>3. Init => Box!Init
  BY InitBox
<1>4. WireInv /\ [Next]_vars => [Box!Next]_<<queue \o Messages(flight), result>>
  BY NextBox DEF Letters
<1> QED
  BY <1>1, <1>2, <1>3, <1>4, PTL DEF Spec, MailboxKept, Box!Spec
=============================================================================
