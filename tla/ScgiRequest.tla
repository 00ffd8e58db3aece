---------------------------- MODULE ScgiRequest ----------------------------
(***************************************************************************)
(* One SCGI connection: a web server hands a request over in as many       *)
(* pieces as TCP makes of it, SAgent (sAgent.cpp) or one of the stand-     *)
(* alone servers it was made from (scgi.cpp, scgi-arm.cpp) puts it         *)
(* together and CCLI runs the command in its QUERY_STRING.  A request is   *)
(* a netstring of headers, "<length>:<headers>,", and a body.              *)
(*                                                                         *)
(* A byte of the stream is a string: a digit, ":", ",", "nul", or a byte   *)
(* that stands for a whole header name or value.  A connection carries one *)
(* request, as SCGI says.                                                  *)
(***************************************************************************)
EXTENDS Integers, Sequences, SequencesExt, FiniteSetsExt

CONSTANTS
    Servers,    \* subset of {"agent", "standalone"}
    Requests,   \* [bytes, query, good]: good ones are well formed, see below;
                \* query is << >> without a QUERY_STRING, else <<its first word>>
    BufSize,    \* sizeof(buf)
    NoColonMax  \* 21: bytes without a colon after which it gives up

Digit == [d \in {"0","1","2","3","4","5","6","7","8","9"} |->
            CASE d = "0" -> 0 [] d = "1" -> 1 [] d = "2" -> 2 [] d = "3" -> 3
              [] d = "4" -> 4 [] d = "5" -> 5 [] d = "6" -> 6 [] d = "7" -> 7
              [] d = "8" -> 8 [] d = "9" -> 9]

VARIABLES
    server,      \* whose code this is
    request,     \* what the web server sends
    sent,        \* bytes it has sent
    peer,        \* "open", or "closed" by the web server
    pc,          \* where scgi_process or main() is
    offset,      \* bytes in buf
    rlen,        \* end of the netstring
    cl,          \* bytes of the body still to come
    command,     \* the command run, << >> before
    registered   \* the CLI object is a callback handler of the executor

readVars == <<offset, rlen, cl>>
scgiVars == <<server, request, sent, peer, pc, readVars, command, registered>>

ScgiInit ==
    /\ server \in Servers /\ request \in Requests
    /\ sent = 0 /\ peer = "open" /\ pc = "length"
    /\ offset = 0 /\ rlen = 0 /\ cl = 0
    /\ command = << >> /\ registered = FALSE
-----------------------------------------------------------------------------
(* The web server; it closes when it pleases, also half way. *)

Sends ==
    /\ peer = "open" /\ sent < Len(request.bytes)
    /\ \E n \in sent + 1 .. Len(request.bytes) : sent' = n
    /\ UNCHANGED <<server, request, peer, pc, readVars, command, registered>>

PeerCloses ==
    /\ peer = "open" /\ peer' = "closed"
    /\ UNCHANGED <<server, request, sent, pc, readVars, command, registered>>
-----------------------------------------------------------------------------
(* What is in a buffer b of which n bytes, or a netstring of n bytes, came. *)

Colon(b, n) == {i \in 1 .. n : b[i] = ":"}

\* strtoul over the bytes before the colon; << >> unless they are a number.
Number(digits) ==
    LET value[i \in 0 .. Len(digits)] ==
            IF i = 0 THEN 0 ELSE 10 * value[i - 1] + Digit[digits[i]]
    IN IF digits = << >> \/ ~ ToSet(digits) \subseteq DOMAIN Digit THEN << >>
       ELSE <<value[Len(digits)]>>

\* The end of the netstring that the length in front of the colon announces,
\* << >> for no number or one beyond the buffer.
NetstringEnd(b, n) ==
    LET colon == Min(Colon(b, n))
        len == Number(SubSeq(b, 1, colon - 1))
    IN IF len = << >> \/ len[1] > BufSize - colon - 1 THEN << >>
       ELSE <<len[1] + colon + 1>>

\* scgi_getenv: names and values alternate, each ends in a nul.
Headers(b, n) == SubSeq(b, Min(Colon(b, n)) + 1, n - 1)
Value(headers, name) ==
    LET at == {i \in DOMAIN headers : i % 4 = 1 /\ headers[i] = name}
    IN IF at = {} THEN << >> ELSE <<headers[Min(at) + 2]>>

\* The checks on the headers of a complete netstring.
HeadersGood(headers) ==
    /\ Value(headers, "SCGI") = <<"1">>
    /\ headers[1] = "CONTENT_LENGTH"
    /\ Number(Value(headers, "CONTENT_LENGTH")) # << >>

\* A request is well formed: its first k bytes are a length and a colon, the
\* headers end at e within the buffer, and they pass the server's checks.
Netstring(b, k, e) ==
    /\ b[k] = ":" /\ e <= BufSize
    /\ Number(SubSeq(b, 1, k - 1)) = <<e - k - 1>>
    /\ k < e /\ b[e] = ","
    /\ HeadersGood(SubSeq(b, k + 1, e - 1))

\* A web server writes the length without superfluous zeros, so that it is
\* shorter than the bytes after which the server gives up.
ASSUME ScgiAssumption ==
    /\ Servers \subseteq {"agent", "standalone"}
    /\ BufSize \in Nat /\ NoColonMax \in Nat \ {0}
    /\ \A r \in Requests :
          /\ r.bytes \in Seq(STRING)
          /\ r.good <=> \E k, e \in DOMAIN r.bytes : Netstring(r.bytes, k, e)
          /\ \A k, e \in DOMAIN r.bytes : Netstring(r.bytes, k, e) =>
                /\ k <= NoColonMax
                /\ Value(SubSeq(r.bytes, k + 1, e - 1), "QUERY_STRING") = r.query
-----------------------------------------------------------------------------
(* scgi_process *)

Goto(l) == pc' = l
Refuse == Goto("failed") /\ UNCHANGED readVars

\* recv returns what has come, as much as fits; 0 when the peer has closed and
\* all is read.
Received(from, room) == {n \in from + 1 .. from + room : n <= sent}
AtEnd(from) == peer = "closed" /\ from >= sent

\* The first loop: until a colon is there, the end or 21 bytes.
ReadLength ==
    /\ pc = "length"
    /\ \/ /\ AtEnd(offset) /\ Refuse
       \/ \E n \in Received(offset, BufSize - offset) :
            /\ IF Colon(request.bytes, n) # {}
               THEN IF NetstringEnd(request.bytes, n) = << >>
                    THEN Goto("failed") /\ UNCHANGED rlen
                    ELSE Goto("headers") /\ rlen' = NetstringEnd(request.bytes, n)[1]
               ELSE Goto(IF n < NoColonMax THEN "length" ELSE "failed") /\ UNCHANGED rlen
            /\ offset' = n /\ UNCHANGED cl
    /\ UNCHANGED <<server, request, sent, peer, command, registered>>

\* SAgent reads until the netstring is complete.
ReadHeaders ==
    /\ pc = "headers" /\ server = "agent" /\ offset < rlen
    /\ \/ AtEnd(offset) /\ Refuse
       \/ \E n \in Received(offset, BufSize - offset) :
            offset' = n /\ UNCHANGED <<pc, rlen, cl>>
    /\ UNCHANGED <<server, request, sent, peer, command, registered>>

\* The stand-alone servers wait 10 ms for each piece of the length, and then
\* compare the wrong way round ("rlen < offset"): they give up when the
\* netstring is not complete yet.
GivesUp ==
    /\ server = "standalone"
    /\ pc = "length" \/ (pc = "headers" /\ offset < rlen)
    /\ Refuse
    /\ UNCHANGED <<server, request, sent, peer, command, registered>>

\* ... and read on, for at most 10 ms at a time, when it is.
ReadsBeyond ==
    /\ pc = "headers" /\ server = "standalone" /\ offset > rlen
    /\ \E n \in Received(offset, BufSize - offset) : offset' = n
    /\ UNCHANGED <<server, request, sent, peer, pc, rlen, cl, command, registered>>

\* A complete netstring is checked; what of the body came with it counts.
CheckHeaders ==
    /\ pc = "headers" /\ offset >= rlen
    /\ IF request.bytes[rlen] = "," /\ HeadersGood(Headers(request.bytes, rlen))
       THEN /\ Goto("body") /\ UNCHANGED <<offset, rlen>>
            /\ cl' = Number(Value(Headers(request.bytes, rlen), "CONTENT_LENGTH"))[1] - (offset - rlen)
       ELSE Refuse
    /\ UNCHANGED <<server, request, sent, peer, command, registered>>

\* The body is read and thrown away; its end is taken for all of it.
ReadBody ==
    /\ pc = "body" /\ cl > 0
    /\ \/ AtEnd(offset) /\ cl' = 0 /\ UNCHANGED offset
       \/ \E n \in Received(offset, cl) : offset' = n /\ cl' = cl - (n - offset)
    /\ UNCHANGED <<server, request, sent, peer, pc, rlen, command, registered>>

\* CCLI looks the first word up in cli_function_list: both stream commands and
\* seltag register the CLI object with the executor, getsearchtimeout ends the
\* connection, and a word that is not in the list does nothing.  After that
\* seltag polls a database call that is commented out: it turns for good and
\* never looks at the connection again.  It takes its arguments unchecked: the
\* word "seltag-bare" is a seltag without them, which reads past the list.
process_cli_command(word) ==
    \/ /\ word \in {"startstreamtag", "stopstreamtag"}
       /\ registered' = TRUE /\ Goto("next")
    \/ /\ word \in {"seltag", "seltag-bare"}
       /\ registered' = TRUE /\ Goto("turning")
    \/ /\ word = "seltag-bare"
       /\ Goto("crashed") /\ UNCHANGED registered
    \/ /\ word \notin {"startstreamtag", "stopstreamtag", "seltag", "seltag-bare"}
       /\ Goto(IF word = "getsearchtimeout" THEN "close" ELSE "next")
       /\ UNCHANGED registered

\* What scgi_process answers itself: CCLI gets nothing, and SAgent looks at the
\* done flag that its last command, of an earlier connection, has left.
AnsweredAtOnce == {"", "lf", "crlf", "slow-lf", "slow-crlf", "die-at-end"}

\* All of them compare the QUERY_STRING with "path_info" even when there is
\* none: strcmp(NULL, ...) ends the process.
NoQueryString ==
    /\ pc = "body" /\ cl <= 0
    /\ Value(Headers(request.bytes, rlen), "QUERY_STRING") = << >>
    /\ Goto("crashed")
    /\ UNCHANGED <<server, request, sent, peer, readVars, command, registered>>

\* SAgent leaves the query to CCLI; the stand-alone servers answer it themselves
\* and, but for three words, wait for more before they close.
RunCommand ==
    /\ pc = "body" /\ cl <= 0
    /\ \E word \in ToSet(Value(Headers(request.bytes, rlen), "QUERY_STRING")) :
         \/ /\ server = "agent" /\ word \notin AnsweredAtOnce
            /\ command' = <<word>> /\ process_cli_command(word)
         \/ /\ server = "agent" /\ word \in AnsweredAtOnce
            /\ \E done \in BOOLEAN : Goto(IF done THEN "close" ELSE "next")
            /\ UNCHANGED <<command, registered>>
         \/ /\ server = "standalone"
            /\ command' = <<word>>
            /\ Goto(IF word \in {"path_info", "script_name", "var"} THEN "close" ELSE "linger")
            /\ UNCHANGED registered
    /\ UNCHANGED <<server, request, sent, peer, readVars>>

\* SAgent waits for another request, which the web server does not send, and
\* the stand-alone servers for anything: both see the end of the connection.
WaitEnd ==
    /\ pc \in {"next", "linger"} /\ AtEnd(offset)
    /\ Goto(IF pc = "next" THEN "failed" ELSE "close")
    /\ UNCHANGED <<server, request, sent, peer, readVars, command, registered>>

\* Mutant of Failed: the handler of a connection that ends stays.
FailedKeepsHandler ==
    /\ pc = "failed" /\ Goto("close")
    /\ UNCHANGED <<server, request, sent, peer, readVars, command, registered>>

\* scgi_process returned -1: SAgent takes the handler away, then closes.
Failed ==
    /\ pc = "failed" /\ Goto("close")
    /\ registered' = FALSE
    /\ UNCHANGED <<server, request, sent, peer, readVars, command>>

Close ==
    /\ pc = "close" /\ Goto("closed")
    /\ UNCHANGED <<server, request, sent, peer, readVars, command, registered>>

ScgiNext ==
    \/ Sends \/ PeerCloses
    \/ ReadLength \/ ReadHeaders \/ GivesUp \/ ReadsBeyond \/ CheckHeaders
    \/ ReadBody \/ NoQueryString \/ RunCommand \/ WaitEnd \/ Failed \/ Close

ScgiSpec == ScgiInit /\ [][ScgiNext]_scgiVars
-----------------------------------------------------------------------------
\* A command runs, and the process ends, only after a whole netstring in order.
WholeOrNothing ==
    /\ command # << >> => command = request.query
    /\ command # << >> \/ pc = "crashed" => request.good /\ sent >= rlen
    /\ pc = "crashed" => request.query \in {<< >>, <<"seltag-bare">>}

\* A well-formed request whose web server is there is refused by a stand-alone
\* server only, before the netstring is complete, and its connection is closed
\* only after its command or an answer of scgi_process itself.
RequestServed ==
    request.good /\ peer = "open" =>
        /\ pc = "failed" => server = "standalone" /\ (rlen = 0 \/ offset < rlen)
        /\ pc = "closed" /\ server = "agent" =>
              command # << >> \/ ToSet(request.query) \subseteq AnsweredAtOnce

\* The handler is registered while SAgent waits for the end of the connection,
\* which takes it off; only seltag keeps it, for good.
HandlerTakenOff ==
    registered =>
        \/ pc \in {"next", "failed"}
        \/ pc = "turning" /\ command \in {<<"seltag">>, <<"seltag-bare">>}

\* Whatever pieces a request arrives in, the command that runs is the one in its
\* query string; none runs for a malformed or cut-off one, which cannot end the
\* process either; SAgent does not refuse a request its web server is still
\* sending and the stand-alone servers refuse one only when it comes too slowly;
\* and no handler outlives its connection but that of a seltag, which never
\* ends (sAgent.cpp:61-96 and 170-354, CCLI.cpp:20-42 and 410-464).
CommandWhole == WholeOrNothing /\ RequestServed /\ HandlerTakenOff
=============================================================================
