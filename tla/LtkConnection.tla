--------------------------- MODULE LtkConnection ---------------------------
(***************************************************************************)
(* CConnection, the client side of an LLRP connection in the toolkit       *)
(* (ltkcpp_connection.cpp), against a reader that answers requests in      *)
(* their order, late or not at all, and sends notifications between them.  *)
(* The reader's frames travel as bytes and arrive in pieces.               *)
(*                                                                         *)
(* The codec is a parameter, here LtkFrame: what the connection relies on  *)
(* is stated in CodecAssumption.  Addresses, socket options and the texts  *)
(* of errors are left out; time is the choice of whether a wait has        *)
(* expired.                                                                *)
(***************************************************************************)
EXTENDS LtkExtract

CONSTANTS
    Encode(_),    \* encodeElement: [out, err], the bytes of a message
    Decode(_),    \* decodeMessage: [val, err], the message of some bytes
    Reply(_, _),  \* the message of a type with which the reader answers an id
    Notes,        \* notifications the reader may send
    BadFrames,    \* byte sequences it may send that are no LLRP message
    Requests,     \* requests of the client: sequence of messages
    Waits,        \* nMaxMS of the calls: subset of {"block", "peek", "wait"}
    Piece,        \* bytes that arrive together, or all that are asked for
    MaxNotes,     \* bound: notifications and bad frames
    MaxCalls,     \* bound: calls
    CleanReuse    \* the client opens again only with an empty receive buffer

ASSUME ConnectionAssumption ==
    /\ Waits \subseteq {"block", "peek", "wait"}
    /\ Piece \in Nat \ {0}
    /\ MaxNotes \in Nat /\ MaxCalls \in Nat /\ CleanReuse \in BOOLEAN
    /\ 1 .. MaxCalls \subseteq DOMAIN Requests
    /\ \A i \in DOMAIN Requests : Requests[i].id # 0

VARIABLES
    sock,       \* m_pPlatformSocket: "none", "open"
    queue,      \* m_listInputQueue
    buf,        \* m_Recv.pBuffer, its first m_Recv.nBuffer bytes
    call,       \* the call in progress
    result,     \* what the last call returned: a message or None, and why
    calls,      \* calls so far
    net,        \* bytes on their way to the client
    peer,       \* the reader's end: "open" or "closed"
    asked,      \* requests the reader has not answered
    flight,     \* the frames whose bytes are in buf \o net
    notes       \* notifications so far

clientVars == <<sock, queue, buf, call, result, calls>>
peerVars   == <<net, peer, asked, flight, notes>>
vars       == <<clientVars, peerVars>>

NoCall    == [pc |-> "idle", type |-> None, id |-> 0, wait |-> "block"]
NoMessage == [t |-> None]
Returns(m, why) == /\ call' = NoCall
                   /\ result' = [msg |-> m, why |-> why, type |-> call.type, id |-> call.id]

Init ==
    /\ sock = "none" /\ queue = << >> /\ buf = << >>
    /\ call = NoCall /\ result = [msg |-> NoMessage, why |-> OK, type |-> None, id |-> 0] /\ calls = 0
    /\ net = << >> /\ peer = "closed" /\ asked = << >> /\ flight = << >>
    /\ notes = 0
-----------------------------------------------------------------------------
(* The reader. *)

\* m_pResponseType of the generated type descriptors.
ResponseType(m) ==
    CASE m.t = "START_ROSPEC"      -> "START_ROSPEC_RESPONSE"
      [] m.t = "SET_READER_CONFIG" -> "SET_READER_CONFIG_RESPONSE"
      [] OTHER                     -> None

Frame(m)  == [msg |-> m, bytes |-> Encode(m).out]
Broken(b) == [msg |-> NoMessage, bytes |-> b]

Answers(req) == {Reply(t, req.id) : t \in {ResponseType(req), "ERROR_MESSAGE"}}

\* Requests that are sent, all messages of the reader and its frames.
Asked == {Requests[i] : i \in {j \in DOMAIN Requests : ResponseType(Requests[j]) # None}}
Sent == Notes \union UNION {Answers(req) : req \in Asked}
Frames == {Frame(m) : m \in Sent} \union {Broken(b) : b \in BadFrames}

\* What the connection needs of the codec and of the reader: a message comes
\* out of the decoder as it went into the encoder, its frame says how long it
\* is; what is no message is refused by the decoder, or says a length no frame
\* has.  A frame that does not fit the receive buffer is not modelled.
ASSUME CodecAssumption ==
    /\ \A x \in Frames :
        /\ x.bytes \in Seq(Byte) /\ Len(x.bytes) \in 10 .. BufSize
        /\ FrameLength(x.bytes) \in Nat
        /\ FrameLength(x.bytes) < 10 \/ FrameLength(x.bytes) = Len(x.bytes)
    /\ \A m \in Sent : /\ m # NoMessage
                        /\ Decode(Encode(m).out).err = OK
                        /\ Decode(Encode(m).out).val = m
    /\ \A b \in BadFrames : FrameLength(b) < 10 \/ Decode(b).err # OK

Emit(frame) ==
    /\ net' = net \o frame.bytes
    /\ flight' = Append(flight, frame)

Answer ==
    /\ peer = "open" /\ asked # << >>
    /\ \E m \in Answers(Head(asked)) : Emit(Frame(m))
    /\ asked' = Tail(asked)
    /\ UNCHANGED <<clientVars, peer, notes>>

Notify ==
    /\ peer = "open" /\ notes < MaxNotes
    /\ (\E m \in Notes : Emit(Frame(m))) \/ (\E b \in BadFrames : Emit(Broken(b)))
    /\ notes' = notes + 1
    /\ UNCHANGED <<clientVars, peer, asked>>

PeerCloses ==
    /\ peer = "open"
    /\ peer' = "closed"
    /\ UNCHANGED <<clientVars, net, asked, flight, notes>>
-----------------------------------------------------------------------------
(* Opening and closing. *)

\* An open that fails, or finds a connection, leaves everything as it was.
openConnectionToReader ==
    /\ call.pc = "idle" /\ sock = "none" /\ calls < MaxCalls
    /\ CleanReuse => buf = << >>
    /\ sock' = "open" /\ peer' = "open"
    /\ UNCHANGED <<queue, buf, call, result, calls, net, asked, flight, notes>>

\* The socket goes, with what the kernel holds; buffer and queue stay.
closeConnectionToReader ==
    /\ call.pc = "idle" /\ sock = "open"
    /\ sock' = "none" /\ peer' = "closed"
    /\ net' = << >> /\ asked' = << >>
    /\ flight' = IF buf = << >> THEN << >> ELSE SubSeq(flight, 1, 1)
    /\ UNCHANGED <<queue, buf, call, result, calls, notes>>
-----------------------------------------------------------------------------
(* Calls. *)

Begins == /\ call.pc = "idle" /\ calls < MaxCalls
          /\ calls' = calls + 1

\* sendMessage: encoded into the send buffer, then written at once.
transact ==
    /\ Begins /\ sock = "open"
    /\ \E w \in Waits :
          LET m == Requests[calls + 1]
              e == Encode(m)
          IN  /\ ResponseType(m) # None /\ e.err = OK
              /\ call' = [pc |-> "search", type |-> ResponseType(m), id |-> m.id, wait |-> w]
              /\ asked' = IF peer = "open" THEN Append(asked, m) ELSE asked
    /\ UNCHANGED <<sock, queue, buf, result, net, peer, flight, notes>>

\* No response type, no socket, an encoder error or a failing send: nothing
\* is sent and the call is over.
TransactFails ==
    /\ Begins
    /\ LET m == Requests[calls + 1]
           e == Encode(m)
           why == CASE ResponseType(m) = None -> "MissingResponseType"
                    [] sock = "none"          -> "MiscError"
                    [] e.err # OK             -> e.err
                    [] OTHER                  -> "SendIOError"
       IN  /\ why = "SendIOError" => peer = "closed"
           /\ Returns(NoMessage, why)
    /\ UNCHANGED <<sock, queue, buf, peerVars>>

recvMessage ==
    /\ Begins
    /\ \E w \in Waits :
          call' = [pc |-> "search", type |-> None, id |-> 0, wait |-> w]
    /\ UNCHANGED <<sock, queue, buf, result, peerVars>>

\* Mutant of Matches: the message ID is not looked at.
MatchesType(m) == call.type # None => m.t \in {call.type, "ERROR_MESSAGE"}

\* Type or ERROR_MESSAGE, and message ID; None and 0 match everything.
Matches(m) ==
    /\ call.type # None => m.t \in {call.type, "ERROR_MESSAGE"}
    /\ call.id # 0 => m.id = call.id

Found == {i \in DOMAIN queue : Matches(queue[i])}

NotConnected ==
    /\ call.pc = "search" /\ sock = "none"
    /\ Returns(NoMessage, "MiscError")
    /\ UNCHANGED <<sock, queue, buf, calls, peerVars>>

\* Mutant of TakeFound: the message stays in the queue.
TakeKeeps ==
    /\ call.pc = "search" /\ sock = "open" /\ Found # {}
    /\ Returns(queue[Min(Found)], OK)
    /\ UNCHANGED <<sock, queue, buf, calls, peerVars>>

TakeFound ==
    /\ call.pc = "search" /\ sock = "open" /\ Found # {}
    /\ Returns(queue[Min(Found)], OK)
    /\ queue' = RemoveAt(queue, Min(Found))
    /\ UNCHANGED <<sock, buf, calls, peerVars>>

SearchMore ==
    /\ call.pc = "search" /\ sock = "open" /\ Found = {}
    /\ call' = [call EXCEPT !.pc = "advance"]
    /\ UNCHANGED <<sock, queue, buf, result, calls, peerVars>>
-----------------------------------------------------------------------------
(* recvAdvance, one turn of its loop at a time. *)

Advancing(status) ==
    /\ call.pc = "advance" /\ FrameExtract(buf).status = status
    /\ UNCHANGED <<sock, calls, peer, asked, notes>>

\* "Recovery in this situation is unlikely": the buffer stays as it is.
FramingError ==
    /\ Advancing("FRAME_ERROR")
    /\ Returns(NoMessage, "RecvFramingError")
    /\ UNCHANGED <<queue, buf, net, flight>>

\* Mutant of Timeout: a wait that ends without data is repeated.
TimeoutRepeats ==
    /\ Advancing("NEED_MORE") /\ call.wait # "block"
    /\ UNCHANGED <<call, result, queue, buf, net, flight>>

\* The time limit has passed, or poll finds nothing in time.
Timeout ==
    /\ Advancing("NEED_MORE") /\ call.wait # "block"
    /\ Returns(NoMessage, "RecvTimeout")
    /\ UNCHANGED <<queue, buf, net, flight>>

\* Mutant of Receive: it reads whatever is there, past the frame's end.
ReceiveAll ==
    /\ Advancing("NEED_MORE") /\ net # << >>
    /\ buf' = buf \o net /\ net' = << >>
    /\ UNCHANGED <<queue, call, result, flight>>

\* recv: some of the bytes needed, or all of them.
Receive ==
    /\ Advancing("NEED_MORE") /\ net # << >>
    /\ \E n \in {Min({most, FrameExtract(buf).needed, Len(net)}) : most \in {Piece, BufSize}} :
          /\ buf' = buf \o SubSeq(net, 1, n)
          /\ net' = SubSeq(net, n + 1, Len(net))
    /\ UNCHANGED <<queue, call, result, flight>>

ReceiveFails ==
    /\ Advancing("NEED_MORE")
    /\ \E why \in {"RecvIOError"} \union
                  (IF net = << >> /\ peer = "closed" THEN {"RecvEOF"} ELSE {}) :
          Returns(NoMessage, why)
    /\ UNCHANGED <<queue, buf, net, flight>>

\* The frame is decoded and its message put at the end of the queue.
DecodeFrame ==
    /\ Advancing("READY")
    /\ \E d \in {Decode(buf)} : d.err = OK /\ queue' = Append(queue, d.val)
    /\ buf' = << >> /\ flight' = Tail(flight)
    /\ call' = [call EXCEPT !.pc = "search"]
    /\ UNCHANGED <<result, net>>

\* What cannot be decoded is discarded; the call fails with the reason.
DiscardFrame ==
    /\ Advancing("READY")
    /\ \E d \in {Decode(buf)} : d.err # OK /\ Returns(NoMessage, d.err)
    /\ buf' = << >> /\ flight' = Tail(flight)
    /\ UNCHANGED <<queue, net>>

recvAdvance ==
    FramingError \/ Timeout \/ Receive \/ ReceiveFails \/ DecodeFrame \/ DiscardFrame

CallStep == NotConnected \/ TakeFound \/ SearchMore \/ recvAdvance

Next ==
    \/ Answer \/ Notify \/ PeerCloses
    \/ openConnectionToReader \/ closeConnectionToReader
    \/ transact \/ TransactFails \/ recvMessage
    \/ CallStep

Spec == Init /\ [][Next]_vars
-----------------------------------------------------------------------------
(* Properties. *)

Bytes(frames) == FlattenSeq([i \in DOMAIN frames |-> frames[i].bytes])

\* The bytes in the receive buffer and on their way are those of whole
\* frames: however they are cut into pieces, whatever is skipped, discarded
\* or interrupted by a time limit, the decoder never starts within a frame.
InStep ==
    IF sock = "open" THEN buf \o net = Bytes(flight) ELSE IsPrefix(buf, Bytes(flight))

\* The connection is a mailbox: the queue, then the frames not yet decoded.
Messages(frames) ==
    FlattenSeq([i \in DOMAIN frames |->
        IF frames[i].msg = NoMessage THEN << >> ELSE <<frames[i].msg>>])

Box == INSTANCE LlrpMailbox WITH
          box <- queue \o Messages(flight), outcome <- result,
          Anything <- None, ErrorType <- "ERROR_MESSAGE"

\* No message is changed, lost, repeated or overtaken on its way from the
\* reader's encoder to the caller, and a call returns the first answer to
\* its own request: also after a request that timed out, whose answer is
\* still to come, and around frames that cannot be decoded.
MailboxKept == Box!Spec
=============================================================================
