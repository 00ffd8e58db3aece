------------------------------ MODULE WebSession ------------------------------
(***************************************************************************)
(* One run of the CGI program: a process that connects to port 6084, sends *)
(* one request of the binary protocol to its connection agent (class       *)
(* IAgent of the daemon), reads the answer and prints (cgi_project/cgi-bin:*)
(* main.cpp, CCLI.cpp, iReaderapi.cpp, iReader.cpp, muxClient.cpp;         *)
(* llrp-new/iAgent.cpp).                                                   *)
(*                                                                         *)
(* A frame travels as two pieces, its beginning and the rest of its data.  *)
(* recv() takes any number of the pieces that are there.  The program      *)
(* has two receive buffers over one socket: an answer is read through      *)
(* cache_buffer (getChar), the rows and tags that follow it through        *)
(* cache_buffer_1 (getChars_1); the pieces left in the first one are never *)
(* read.  A request whose answer does not come within a second is sent     *)
(* again, at most three times in all.                                      *)
(***************************************************************************)
EXTENDS Integers, Sequences, SequencesExt

CONSTANTS Runs,        \* the runs of the program: records Run(...), see below
          Connected,   \* the values main() may find for the connection (main.cpp:56)
          MaxAnt,      \* number of antennas
          Region, Temperature, ConnectedAnts,
          Table,       \* the rows of TAG_DATA and TAG_USER_DATA: [{0, 1} -> Seq]
          Tag,         \* what an antenna reads
          Done,        \* the text "done" that ends the rows
          Slow,        \* requests that wait for the reader and may take over a second
          Cache,       \* 1024 bytes, counted in pieces
          MaxPush      \* bound: frames the executor pushes in a behaviour

VARIABLES run,     \* what this process was asked to do
          phase,   \* "start", "answer", "rows", "tags", "end"
          tries,   \* requests sent
          cache,   \* unread pieces of cache_buffer
          cache1,  \* unread pieces of cache_buffer_1
          used1,   \* pieces since cache_buffer_1 was last empty (tcp_len_1)
          mid,     \* the frame whose beginning has been read, or NoFrame
          inbox,   \* requests on their way to the agent
          wire,    \* pieces on their way to the program
          daemon,  \* the settings the requests reach
          pushed,  \* tag frames pushed by the executor
          served,  \* history: requests the agent has carried out
          spill,   \* history: the answer came in one recv() with what follows it
          cut,     \* history: a frame met the end of cache_buffer_1
          shown    \* what the program printed: a sequence
webVars == <<run, phase, tries, cache, cache1, used1, mid, inbox, wire, daemon, pushed,
             served, spill, cut, shown>>

MaxTries == 3
NoFrame == [op |-> "", data |-> <<>>]
DATABASE_MAGIC == 65518
DATABASE_USER_MAGIC == 65501
Frame(op, data) == [op |-> op, data |-> data]
Pieces(frames) ==
  [i \in 1 .. 2 * Len(frames) |-> <<frames[(i + 1) \div 2], IF i % 2 = 1 THEN 1 ELSE 2>>]

(***************************************************************************)
(* The requests (cgi-bin/iReader.cpp): an opcode and its data in 16-bit    *)
(* words.  0x81, 0x82, 0x85, 0x89, 0x8a and 0x2c have no answer, nor have  *)
(* the requests still built for the reader module, whose header carries no *)
(* complemented length.                                                    *)
(***************************************************************************)
IReaderSetRegion(region)           == Frame("2c", <<region>>)
IReaderGetRegion                   == Frame("91", <<>>)
IReaderDBSelectAll(limit, offset, table) == Frame("93", <<limit, offset, table>>)
IReaderDBInsertTag(str)            == Frame("94", str)
IReaderGetSearchTimeout            == Frame("92", <<>>)
IReaderSetPowerLevel(ant, pwr)     == Frame("88", <<ant, pwr>>)
IReaderTagSearchTimeout(timeout)   == Frame("96", <<timeout>>)
IReaderGetPowerLevel(ant)          == Frame("85", <<ant>>)
IReaderReadTags(ant)               == Frame("82", <<ant % 256>>)
IReaderReadTagsMetaDataRSSI(ant, pwr) == Frame("83", <<ant, pwr>>)
IReaderStartExecutor(flag, fd)     == Frame("87", <<flag, fd>>)
IReaderReadTagData                 == Frame("unframed", <<>>)
\* It clears the reader module's tag buffer first, and that is not answered.
IReaderGetTagCount                 == Frame("unframed", <<>>)
IReaderGetAntMap                   == Frame("8b", <<>>)
IReaderGetAntList                  == IReaderGetAntMap
IReaderSetAntScanMap(words)        == Frame("88", words)
IReaderGetAntScanMap               == Frame("89", <<>>)
IReaderRescanSlave(chn)            == Frame("95", <<chn % 256>>)
setantport(id)                     == Frame("81", <<id % 256>>)
setscanantid(id, flag)             == Frame("8a", <<id % 256, flag>>)
GetEquipTemp                       == Frame("97", <<>>)
SetEquipTempProtect(flag)          == Frame("98", <<flag>>)
setpower(pwr)                      == Frame("unframed", <<pwr>>)

(***************************************************************************)
(* The API (cgi-bin/iReaderapi.cpp): every call checks the handle first,   *)
(* then the range of its arguments, and passes the request on.             *)
(***************************************************************************)
Call(request, inRange) == [request |-> request, inRange |-> inRange]
IReaderApiGetAntMap                == Call(IReaderGetAntMap, TRUE)
IReaderApiSetAntScanMap(words)     == Call(IReaderSetAntScanMap(words), TRUE)
IReaderApiGetAntScanMap            == Call(IReaderGetAntScanMap, TRUE)
IReaderApiGetAntList               == Call(IReaderGetAntList, TRUE)
IReaderApiGetScanAntList           == Call(IReaderGetAntScanMap, TRUE)
IReaderApiScanSlave(chn)           == Call(IReaderRescanSlave(chn), chn \in 1..8)
IReaderApiSetRegion(region)        == Call(IReaderSetRegion(region), TRUE)
IReaderApiGetRegion                == Call(IReaderGetRegion, TRUE)
IReaderApiDBSelectAll(limit, offset, table) == Call(IReaderDBSelectAll(limit, offset, table), TRUE)
IReaderApiDBInsertTag(str)         == Call(IReaderDBInsertTag(str), TRUE)
IReaderApiGetSearchTimeout         == Call(IReaderGetSearchTimeout, TRUE)
IReaderApiSyncChannel(channel) ==
  Call(IReaderRescanSlave(channel - 1), channel \in 1..8)
IReaderApiReadTags                 == Call(IReaderReadTags(0), TRUE)
IReaderApiReadTagsAtomic(ant)      == Call(IReaderReadTags(ant - 1), TRUE)
IReaderApiReadTagsMetaDataRSSI(ant, pwr) == Call(IReaderReadTagsMetaDataRSSI(ant, pwr), TRUE)
IReaderApiStartExecutor(flag, fd)  == Call(IReaderStartExecutor(flag, fd), TRUE)
IReaderApiWriteTagData(pwr)        == Call(setpower(pwr), TRUE)
IReaderApiReadTagData              == Call(IReaderReadTagData, TRUE)
\* It refuses to write unless exactly one tag is counted.
IReaderApiWriteTag                 == Call(IReaderGetTagCount, TRUE)
IReaderApiSelectAnt(ant)           == Call(setantport(ant - 1), TRUE)
IReaderApiSetScanAntId(ant, flag)  == Call(setscanantid(ant - 1, flag), TRUE)
IReaderApiSetPowerLevel(ant, pwr)  == Call(IReaderSetPowerLevel(ant, pwr), TRUE)
IReaderApiGetPowerLevel(ant)       == Call(IReaderGetPowerLevel(ant - 1), TRUE)
IReaderApiTagSearchTimeout(timeout) == Call(IReaderTagSearchTimeout(timeout), TRUE)
IReaderApiTempProtectSet(protect)  == Call(SetEquipTempProtect(protect), TRUE)
IReaderApiEquipTempGet             == Call(GetEquipTemp, TRUE)

(***************************************************************************)
(* What the agent does with a request: the daemon's settings afterwards    *)
(* and the frames it sends.                                                *)
(***************************************************************************)
Served(d, frames) == [daemon |-> d, frames |-> frames]
Reply(op, data) == << Frame(op, data) >>

iAgent_GetAntBitMap(d) == Served(d, Reply("8b", <<ConnectedAnts, d.power>>))
iAgent_GetRegion(d) == Served(d, Reply("91", <<Region>>))
iAgent_GetSearchTimeout(d) == Served(d, Reply("92", <<d.timeout>>))
iAgent_SetSearchTimeout(d, t) ==
  Served([d EXCEPT !.timeout = t], Reply("96", <<t \div 256>>))
iAgent_ReadEquipTemp(d) == Served(d, Reply("97", <<Temperature>>))
iAgent_SetEquipTempProtect(d, p) == Served([d EXCEPT !.protect = p], Reply("98", <<0>>))

\* 0xfe says that the antenna is not valid.
iAgent_SetTxPower(d, ant, pwr) ==
  IF ant \in 1..MaxAnt THEN Served([d EXCEPT !.power[ant] = pwr], Reply("88", <<0>>))
  ELSE Served(d, Reply("88", <<254>>))

iAgent_ReadTagsRSSI(d, ant) ==
  Served(d, Reply("83", IF ant \in ConnectedAnts THEN <<ant, Tag>> ELSE <<ant>>))

\* The device may refuse: 0xfd, but for channel 9 the code is overwritten.
iAgent_Rescan_Salve(d, chn, works) ==
  Served(d, Reply("95", IF works \/ chn = 9 THEN <<0>> ELSE <<253>>))

Subscriber(fd) == IF fd \in {DATABASE_MAGIC, DATABASE_USER_MAGIC} THEN fd ELSE 0
iAgent_StartExecutor(d, flag, fd) ==
  Served([d EXCEPT !.subscribers = IF flag # 0 THEN @ \union {Subscriber(fd)}
                                   ELSE @ \ {Subscriber(fd)}],
         Reply("87", <<0>>))

\* One row of a table, tag_id to seen_count, as it is sent (Sqlite_callback).
Sqlite_callback(row) == Frame("93", <<row>>)

\* Mutant of SelectFrames: acknowledged only when the query has been run.
AckAfterRows(rows) == rows \o Reply("93", <<0>>) \o Reply("93", <<Done>>)
SelectFrames(rows) == Reply("93", <<0>>) \o rows \o Reply("93", <<Done>>)
iAgent_Sqlite_Select(d, limit, offset, table) ==
  LET rows == IF limit = 0 /\ offset = 0 THEN d.tables[table]
              ELSE SubSeq(d.tables[table], offset + 1,
                          IF offset + limit < Len(d.tables[table]) THEN offset + limit
                                                                   ELSE Len(d.tables[table]))
  IN  Served(d, SelectFrames([i \in DOMAIN rows |-> Sqlite_callback(rows[i])]))

\* tagval=..&antloc=..&action=..&submit=..: three fields must end with '&'.
iAgent_Sqlite_Insert(d, fields) ==
  IF Len(fields) < 4 THEN Served(d, Reply("94", <<1>>))
  ELSE Served([d EXCEPT !.tables[1] = Append(@, SubSeq(fields, 1, 3))], Reply("94", <<0>>))

iAgent_ProcessMsgObj(d, m, works) ==
  CASE m.op = "8b" -> iAgent_GetAntBitMap(d)
    [] m.op = "83" -> iAgent_ReadTagsRSSI(d, m.data[1])
    [] m.op = "88" -> iAgent_SetTxPower(d, m.data[1], m.data[2])
    [] m.op = "87" -> iAgent_StartExecutor(d, m.data[1], m.data[2])
    [] m.op = "91" -> iAgent_GetRegion(d)
    [] m.op = "92" -> iAgent_GetSearchTimeout(d)
    [] m.op = "93" -> iAgent_Sqlite_Select(d, m.data[1], m.data[2], m.data[3])
    [] m.op = "94" -> iAgent_Sqlite_Insert(d, m.data)
    [] m.op = "95" -> iAgent_Rescan_Salve(d, m.data[1], works)
    [] m.op = "96" -> iAgent_SetSearchTimeout(d, m.data[1])
    [] m.op = "97" -> iAgent_ReadEquipTemp(d)
    [] m.op = "98" -> iAgent_SetEquipTempProtect(d, m.data[1])
    [] OTHER       -> Served(d, <<>>)

(***************************************************************************)
(* The commands (CCLI.cpp): a request and what is printed.                 *)
(***************************************************************************)
\* ok, failed: the texts; kind: "text", or what is read from the answer.
Run(name, api, kind, ok, failed) ==
  [name |-> name, request |-> api.request, inRange |-> api.inRange,
   kind |-> kind, ok |-> ok, failed |-> failed]

process_readtagonce(ant, pwr) ==
  Run("readtagonce", IReaderApiReadTagsMetaDataRSSI(ant, pwr), "tags", "", "")
process_stopstreamtag ==
  Run("stopstreamtag", IReaderApiStartExecutor(0, 0), "status", "ok", "Command Fail")
process_startstreamtag == Run("startstreamtag", IReaderApiStartExecutor(1, 0), "stream", "", "")
process_starttagtodb ==
  Run("starttagtodb", IReaderApiStartExecutor(1, DATABASE_MAGIC), "status", "ok", "Command Fail")
process_stoptagtodb ==
  Run("stoptagtodb", IReaderApiStartExecutor(0, DATABASE_MAGIC), "status", "ok", "Command Fail")
process_startmonitor ==
  Run("startmonitor", IReaderApiStartExecutor(1, DATABASE_USER_MAGIC), "status", "ok", "Command Fail")
process_stopmonitor ==
  Run("stoptmonitor", IReaderApiStartExecutor(0, DATABASE_USER_MAGIC), "status", "ok", "Command Fail")
process_getmoduletemperature == Run("getmoduletemp", IReaderApiEquipTempGet, "value", "", 0)
process_getregion == Run("getregion", IReaderApiGetRegion, "value", "", 0)
process_getsearchtimeout == Run("getsearchtimeout", IReaderApiGetSearchTimeout, "value", "", 0)
process_setsearchtimeout(t) ==
  Run("setsearchtimeout", IReaderApiTagSearchTimeout(t), "text", t, 0)
process_rescanchn(chn) == Run("rescanchn", IReaderApiScanSlave(chn), "text", "Success", "fail")
process_antmap == Run("antmap", IReaderApiGetAntMap, "value", "", {})
process_setantpower(ant, pwr) ==
  Run("setantpower", IReaderApiSetPowerLevel(ant, pwr), "text", "Success", "fail")
process_inserttag(tag, ant, action) ==
  Run("inserttag", IReaderApiDBInsertTag(<<tag, ant, action, "Insert">>), "text",
      "Command sucess", "command fails")
process_seltag(table, offset) ==
  Run("seltag", IReaderApiDBSelectAll(30, offset, table), "rows", "", "")
\* The page's form posts the string itself, whatever fields it has.
inserttag_main(fields) ==
  Run("inserttag.cgi", IReaderApiDBInsertTag(fields), "text", "sent", "999")
\* An API call made by another program, of which only success is seen.
ApiCall(api) == Run("api", api, "text", "ok", "error")

\* The runs are those above: a value, tags or rows are read from the answer to
\* the request that asks for them, and a page has 30 rows.  A selection does
\* not wait for the reader, and no row reads "done".
ASSUME WebAssumption ==
  /\ "93" \notin Slow
  /\ \A t \in {0, 1} : Table[t] \in Seq(ToSet(Table[t])) /\ Done \notin ToSet(Table[t])
  /\ \A r \in Runs :
        /\ r.kind \in {"text", "status", "value", "tags", "rows", "stream"}
        /\ r.request.op # "ab"
        /\ r.kind = "value" =>
              <<r.name, r.request.op>> \in {<<"getregion", "91">>, <<"getmoduletemp", "97">>,
                                            <<"getsearchtimeout", "92">>, <<"antmap", "8b">>}
        /\ r.kind = "tags" => r.request.op = "83"
        /\ r.kind = "rows" <=> r.request.op = "93"
        /\ r.kind = "rows" =>
              /\ r.request = IReaderDBSelectAll(30, r.request.data[2], r.request.data[3])
              /\ r.request.data[2] \in Nat /\ r.request.data[3] \in {0, 1}

-----------------------------------------------------------------------------
WebInit ==
  /\ run \in Runs /\ phase = "start" /\ tries = 0
  /\ cache = <<>> /\ cache1 = <<>> /\ used1 = 0 /\ mid = NoFrame
  /\ inbox = <<>> /\ wire = <<>> /\ pushed = 0 /\ served = <<>>
  /\ daemon = [timeout |-> 80, protect |-> 0, power |-> [a \in 1..MaxAnt |-> 2500],
               subscribers |-> {}, tables |-> Table]
  /\ spill = FALSE /\ cut = FALSE /\ shown = <<>>

Show(x) == phase' = "end" /\ shown' = Append(shown, x)
\* The commands that list something print nothing when they fail.
Fails == IF run.kind \in {"rows", "stream", "tags"} THEN phase' = "end" /\ shown' = shown
         ELSE Show(run.failed)

\* sendArray: the input is emptied, then the request goes out.
SendRequest ==
  /\ tries' = tries + 1
  /\ wire' = <<>> /\ cache' = <<>> /\ mid' = NoFrame
  /\ inbox' = Append(inbox, run.request)

\* main(): without a connection, or refused by a range check, nothing is sent.
Start ==
  /\ phase = "start"
  /\ \E connected \in Connected :
        IF connected /\ run.inRange
        THEN SendRequest /\ phase' = "answer" /\ UNCHANGED shown
        ELSE Fails /\ UNCHANGED <<tries, wire, cache, mid, inbox>>
  /\ UNCHANGED <<run, cache1, used1, daemon, pushed, served, spill, cut>>

\* get_bytes reads on until the request is whole, however recv() cuts it.
WholeRequest == Head(inbox)

AgentServes ==
  /\ inbox # <<>>
  /\ \E works \in BOOLEAN :
        LET s == iAgent_ProcessMsgObj(daemon, WholeRequest, works)
        IN  daemon' = s.daemon /\ wire' = wire \o Pieces(s.frames)
  /\ served' = Append(served, WholeRequest) /\ inbox' = Tail(inbox)
  /\ UNCHANGED <<run, phase, tries, cache, cache1, used1, mid, pushed, spill, cut, shown>>

\* The executor sends what it reads to a connection that asked for the stream.
iAgent_CallBack ==
  /\ 0 \in daemon.subscribers /\ pushed < MaxPush
  /\ wire' = wire \o Pieces(Reply("ab", <<1, Tag>>)) /\ pushed' = pushed + 1
  /\ UNCHANGED <<run, phase, tries, cache, cache1, used1, mid, inbox, daemon, served,
                 spill, cut, shown>>

\* getChar with an empty buffer: one recv().
GetCharReceives ==
  /\ phase = "answer" /\ cache = <<>> /\ wire # <<>>
  /\ \E n \in 1..Len(wire) :
        n <= Cache /\ cache' = SubSeq(wire, 1, n) /\ wire' = SubSeq(wire, n + 1, Len(wire))
  /\ UNCHANGED <<run, phase, tries, cache1, used1, mid, inbox, daemon, pushed, served,
                 spill, cut, shown>>

\* sendmsg's answer m, judged by the function that sent the request.
Accept(m) ==
  CASE m.op # run.request.op -> Fails
    [] m.op = run.request.op /\ run.kind = "text" -> Show(run.ok)
    [] m.op = run.request.op /\ run.kind = "status" ->
         Show(IF m.data[1] = 0 THEN run.ok ELSE run.failed)
    [] m.op = run.request.op /\ run.kind = "value" -> Show(m.data[1])
    [] m.op = run.request.op /\ run.kind = "tags" -> Show(Tail(m.data))
    [] m.op = run.request.op /\ run.kind = "rows" -> phase' = "rows" /\ shown' = <<>>
    [] m.op = run.request.op /\ run.kind = "stream" -> phase' = "tags" /\ shown' = <<>>

\* MSG_receiveMsgObj: a rest without its beginning is skipped.
ReadAnswer ==
  /\ phase = "answer" /\ cache # <<>>
  /\ LET p == Head(cache)
     IN  IF p[2] = 2 /\ mid = p[1]
         THEN Accept(p[1]) /\ mid' = NoFrame /\ spill' = (Len(cache) > 1)
         ELSE mid' = (IF p[2] = 1 THEN p[1] ELSE mid) /\ UNCHANGED <<phase, shown, spill>>
  /\ cache' = Tail(cache)
  /\ UNCHANGED <<run, tries, cache1, used1, inbox, wire, daemon, pushed, served, cut>>

\* A second without data: sendmsg sends again, and gives up after three.
AnswerTimeout ==
  /\ phase = "answer" /\ cache = <<>> /\ wire = <<>> /\ mid = NoFrame
  /\ inbox # <<>> => Head(inbox).op \in Slow
  /\ IF tries < MaxTries THEN SendRequest /\ UNCHANGED <<phase, shown>>
     ELSE Fails /\ UNCHANGED <<tries, wire, cache, mid, inbox>>
  /\ UNCHANGED <<run, cache1, used1, daemon, pushed, served, spill, cut>>

\* getChars_1 lacks data: recv() into what is left of cache_buffer_1.
GetCharsReceives ==
  /\ phase \in {"rows", "tags"} /\ cache1 = <<>> /\ wire # <<>> /\ used1 < Cache
  /\ \E n \in 1..Len(wire) :
        /\ n <= Cache - used1
        /\ cache1' = SubSeq(wire, 1, n) /\ used1' = used1 + n
        /\ wire' = SubSeq(wire, n + 1, Len(wire))
  /\ UNCHANGED <<run, phase, tries, cache, mid, inbox, daemon, pushed, served, spill, cut, shown>>

\* No room left: recv() of 0 bytes passes for the end of the connection, the
\* frame is given up; unless the buffer ended where one of its reads ended.
GetCharsFull ==
  /\ phase \in {"rows", "tags"} /\ cache1 = <<>> /\ used1 = Cache
  /\ used1' = 0 /\ cut' = TRUE
  /\ mid' \in {mid, NoFrame}
  /\ UNCHANGED <<run, phase, tries, cache, cache1, inbox, wire, daemon, pushed, served, spill, shown>>

\* What a frame brings: the data of a row, the tags of an antenna; another
\* opcode is an error.
Error == <<>>
IReaderGetTagDBRecord(m)      == IF m.op = "93" THEN m.data ELSE Error
IReaderGetTagsMetaDataRSSI(m) == IF m.op = "ab" THEN Tail(m.data) ELSE Error

\* process_seltag forgets what it has when a frame is not a row.
NextRow(record) ==
  CASE record = Error    -> phase' = "end" /\ shown' = <<>>
    [] record = <<Done>> -> phase' = "end" /\ shown' = shown
    [] OTHER             -> phase' = phase /\ shown' = shown \o record

\* process_startstreamtag
NextTags(tags) ==
  IF tags = Error THEN phase' = "end" /\ shown' = shown
  ELSE phase' = phase /\ shown' = shown \o tags

Streamed(m) == IF phase = "rows" THEN NextRow(IReaderGetTagDBRecord(m))
               ELSE NextTags(IReaderGetTagsMetaDataRSSI(m))

ReadStream ==
  /\ phase \in {"rows", "tags"} /\ cache1 # <<>>
  /\ LET p == Head(cache1)
         whole == p[2] = 2 /\ mid = p[1]
     IN  /\ IF whole THEN Streamed(p[1]) ELSE UNCHANGED <<phase, shown>>
         /\ mid' = IF p[2] = 1 THEN p[1] ELSE NoFrame
         /\ used1' = IF Len(cache1) = 1 /\ p[2] = 2 THEN 0 ELSE used1
  /\ cache1' = Tail(cache1)
  /\ UNCHANGED <<run, tries, cache, inbox, wire, daemon, pushed, served, spill, cut>>

WebNext ==
  \/ Start \/ AgentServes \/ iAgent_CallBack \/ GetCharReceives \/ ReadAnswer \/ AnswerTimeout
  \/ GetCharsReceives \/ GetCharsFull \/ ReadStream

WebSpec == WebInit /\ [][WebNext]_webVars

-----------------------------------------------------------------------------
Held == [getregion |-> Region, getmoduletemp |-> Temperature,
         getsearchtimeout |-> daemon.timeout, antmap |-> ConnectedAnts]

\* The rows that a page asks for, at most limit of them behind the offset.
Rows == LET all == daemon.tables[run.request.data[3]]
            limit == run.request.data[1]
            offset == run.request.data[2]
        IN  SubSeq(all, offset + 1, IF Len(all) > offset + limit THEN offset + limit ELSE Len(all))

(* What a run of the program printed is true of the daemon: a success means *)
(* that the agent has carried the request out, a value is the daemon's own, *)
(* and the rows of a table are rows of the page asked for, in their order   *)
(* and none twice; they are all of them when the answer to the request came *)
(* alone and no frame met the end of the buffer.                            *)
(* (CCLI.cpp:38-420, iReader.cpp:777-978, muxClient.cpp:196-370)            *)
ShownTrue ==
  phase = "end" =>
    CASE run.kind \in {"text", "status"} -> (shown = <<run.ok>> /\ run.ok # run.failed
                                               => run.request \in ToSet(served))
      [] run.kind = "value"              -> shown \in {<<run.failed>>, <<Held[run.name]>>}
      [] run.kind = "tags"               -> shown # <<>> => shown[1] \in {<<>>, <<Tag>>}
      [] run.kind = "rows"               ->
           /\ \E at \in [DOMAIN shown -> DOMAIN Rows] :
                \A k \in DOMAIN shown : /\ shown[k] = Rows[at[k]]
                                        /\ \A j \in 1 .. k - 1 : at[j] < at[k]
           /\ served # <<>> /\ ~spill /\ ~cut => shown = Rows
      [] OTHER                           -> TRUE
=============================================================================
