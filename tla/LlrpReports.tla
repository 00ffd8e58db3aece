---------------------------- MODULE LlrpReports ----------------------------
(***************************************************************************)
(* What an LLRP agent reports: the settings a client writes with           *)
(* SET_READER_CONFIG and ADD_ROSPEC (llrp_MsgProcessor.cpp), the table of  *)
(* tags the ROSpec executor fills while it walks the antennas              *)
(* (llrp_ROSpecExecutor.cpp), the RO_ACCESS_REPORTs it sends from it, and  *)
(* the copy of a ROSpec that GET_ROSPECS returns (llrp_MntAgent.cpp).      *)
(*                                                                         *)
(* The agent thread and the executor thread interleave, and both encode    *)
(* what they send into the one buffer m_Send, without a lock.  The life of *)
(* the ROSpecs and of the threads is the business of LlrpAgent; here the   *)
(* client runs one ROSpec at a time and waits for its end, so one thread   *)
(* at most uses the table.                                                 *)
(***************************************************************************)
EXTENDS Integers, Sequences, FiniteSets, SequencesExt, FiniteSetsExt

CONSTANTS
    Tags,          \* EPCs
    AntList,       \* m_antList, as IReaderApiGetAntList fills it
    MaxAntennas,   \* MAX_NUM_ANTENNAS
    MaxRows,       \* MAX_TAGS_REPORT
    SendBuffer,    \* SEND_BUFFER_SIZE
    DefaultPower,  \* ANT_DEFAULT_POWER
    Rospecs,       \* ROSpecs the client adds
    Configs,       \* SET_READER_CONFIG messages it sends
    MaxPerRead,    \* bound: tags one read returns
    MaxReads,      \* bound: tags read since a start
    MaxMessages    \* bound: messages of the client

\* What a client's messages are made of.
Antennas    == 0 .. MaxAntennas
AntConfigs  == [ant : Nat, tx : Seq(Nat), rx : Seq(Int)]
Inventories == [protocol : STRING, configs : Seq(AntConfigs)]
Parameters  == [kind : {"AISpec", "RFSurveySpec", "LoopSpec"}, ants : Seq(Antennas),
                inv : Seq(Inventories)]
Selectors   == [pc : BOOLEAN, crc : BOOLEAN]
ReportSpecs == [trigger : STRING, n : Nat, rssi : BOOLEAN, selectors : Seq(Selectors)]
AllRospecs  == [id : Nat, stop : STRING, params : Seq(Parameters),
                report : Seq(ReportSpecs)]

\* A ROSpec names antennas of the reader: a read at another one fails.
ASSUME ReportsAssumption ==
    /\ MaxAntennas \in Nat /\ MaxRows \in Nat /\ MaxPerRead \in Nat
    /\ AntList \in Seq(Antennas)
    /\ Rospecs \subseteq AllRospecs

VARIABLES
    open,      \* iReaderHandle # 0
    set,       \* m_eROReportTrigger, m_report_N and the m_enable flags
    power,     \* m_antPower
    list,      \* m_list_ADD_ROSPEC: the messages and their current state
    saved,     \* what GET_ROSPECS returned last
    rospec,    \* the ROSpec of the executor, << >> before the first start
    thread,    \* where the executor thread is; "idle": idle = true
    ant,       \* i, the next antenna
    rows,      \* m_tagsArray up to m_totalTagsCount
    total,     \* m_totalReadCount
    sending,   \* what each thread has encoded and not sent: "none", "report"
               \* or "other", any other message
    sendBuf,   \* m_Send: the rows of the report in it, and whether it holds
               \* one whole frame
    stream,    \* every byte sent so far was part of a whole frame
    owed,      \* (history) reads of a tag at an antenna since the table was empty
    full,      \* (history) the table has refused a read since it was emptied
    untold,    \* (history) reads since the start that the client was not told of
    lost,      \* (history) why reads since the start may not reach the client
    reads,     \* (bound) tags read since the start
    messages   \* messages of the client so far

settingVars == <<open, set, power>>
listVars    == <<list, saved, rospec>>
sendVars    == <<sending, sendBuf, stream>>
tableVars   == <<rows, total, owed, full, untold, lost, reads>>
reportsVars == <<settingVars, listVars, thread, ant, sendVars, tableVars, messages>>

NoSettings == [trigger |-> "None", n |-> 0, rssi |-> FALSE,
               pc |-> FALSE, crc |-> FALSE]

Nothing == [k \in Tags \X Antennas |-> 0]

\* A report of some rows, any other frame (it tells of no reads), and the bytes
\* that two threads leave when they encode at the same time.
ReportOf(table) == [rows |-> table, whole |-> TRUE]
OtherFrame      == [rows |-> << >>, whole |-> TRUE]
Torn            == [rows |-> << >>, whole |-> FALSE]

Senders == {"agent", "executor"}

ReportsInit ==
    /\ open = FALSE /\ set = NoSettings
    /\ power = [a \in Antennas |-> DefaultPower]
    /\ list = << >> /\ saved = << >> /\ rospec = << >>
    /\ thread = "idle" /\ ant = 1
    /\ rows = << >> /\ total = 0 /\ owed = Nothing /\ full = FALSE
    /\ sending = [s \in Senders |-> "none"] /\ sendBuf = OtherFrame /\ stream = TRUE
    /\ untold = Nothing /\ lost = {} /\ reads = 0
    /\ messages = 0
-----------------------------------------------------------------------------
(* Settings.  An optional parameter is a sequence of length 0 or 1. *)

\* processReportSpecSettings: the last memory selector decides the flags.
ReportSettings(s, report) ==
    IF report = << >> THEN s ELSE
    LET r == report[1]
        last == IF r.selectors = << >> THEN [pc |-> s.pc, crc |-> s.crc]
                ELSE Last(r.selectors)
    IN [trigger |-> r.trigger, n |-> r.n, rssi |-> r.rssi,
        pc |-> last.pc, crc |-> last.crc]

\* processAntennaConfigurationSettings, one configuration after the other:
\* antenna 0 stands for all of them, an antenna out of range is ignored, and so
\* is one without an RFTransmitter.
AntennasSettings(p, configs) ==
    LET settle(a) == {i \in DOMAIN configs :
                        configs[i].tx # << >> /\ configs[i].ant \in {0, a}}
    IN [a \in DOMAIN p |->
            IF settle(a) = {} THEN p[a] ELSE configs[Max(settle(a))].tx[1]]

AISpecs(spec) ==
    FlattenSeq([i \in DOMAIN spec.params |->
        IF spec.params[i].kind = "AISpec" THEN <<spec.params[i]>> ELSE << >>])

\* processRospecAntennaConfigurationList: every AISpec, every
\* InventoryParameterSpec of the EPC air protocol, every configuration.
InventoryConfigs(p) ==
    FlattenSeq([i \in DOMAIN p.inv |->
        IF p.inv[i].protocol = "EPC" THEN p.inv[i].configs ELSE << >>])
RospecConfigs(spec) ==
    LET ai == AISpecs(spec)
    IN FlattenSeq([i \in DOMAIN ai |-> InventoryConfigs(ai[i])])

\* The antennas main() walks: those of the first AISpec, 0 for all.
Walk(spec) ==
    LET ai == AISpecs(spec)
    IN IF ai = << >> THEN << >>
       ELSE IF ai[1].ants[1] = 0 THEN AntList ELSE ai[1].ants

\* rospecCopy: only AISpecs are copied, of a configuration the antenna and the
\* transmit power; the current state is left out.
CopyConfig(config) == [ant |-> config.ant, tx |-> config.tx, rx |-> << >>]
CopyParam(p) ==
    [kind |-> "AISpec", ants |-> p.ants,
     inv |-> [i \in DOMAIN p.inv |->
                [protocol |-> p.inv[i].protocol,
                 configs |-> [j \in DOMAIN p.inv[i].configs |->
                                CopyConfig(p.inv[i].configs[j])]]]]
CopyReport(r) ==
    [trigger |-> r.trigger, n |-> r.n, rssi |-> r.rssi,
     selectors |-> [i \in DOMAIN r.selectors |->
                      [pc |-> r.selectors[i].pc, crc |-> r.selectors[i].crc]]]
RospecCopy(spec) ==
    LET ai == AISpecs(spec)
    IN [id |-> spec.id, stop |-> spec.stop,
        params |-> [i \in DOMAIN ai |-> CopyParam(ai[i])],
        report |-> [i \in DOMAIN spec.report |-> CopyReport(spec.report[i])]]
-----------------------------------------------------------------------------
(* The table. *)

Key(row) == <<row.tag, row.ant>>

\* One entry of updateTagsArray_RSSI: the row of this tag at this antenna
\* counts one more, a new row is made while there is room.
AddRead(table, tag, a) ==
    LET found == {j \in DOMAIN table : Key(table[j]) = <<tag, a>>}
    IN IF found # {} THEN [table EXCEPT ![CHOOSE j \in found : TRUE].count = @ + 1]
       ELSE IF Len(table) < MaxRows
            THEN Append(table, [tag |-> tag, ant |-> a, count |-> 1])
            ELSE table

AddReads(table, read, a) ==
    LET after[n \in 0 .. Len(read)] ==
            IF n = 0 THEN table ELSE AddRead(after[n - 1], read[n], a)
    IN after[Len(read)]

RowCount(table, k) ==
    LET found == {j \in DOMAIN table : Key(table[j]) = k}
    IN IF found = {} THEN 0 ELSE table[CHOOSE j \in found : TRUE].count

\* The bytes of one TagReportData and of the message's header.
RowSize == 57 + (IF set.rssi THEN 2 ELSE 0)
              + (IF set.crc THEN 3 ELSE 0) + (IF set.pc THEN 3 ELSE 0)
HeaderSize == 10

Fits == HeaderSize + Len(rows) * RowSize <= SendBuffer
-----------------------------------------------------------------------------
(* sendMessage: encode into m_Send, then send what is in it. *)

Free(s) == sending[s] = "none"

\* Where the other thread is between the two, the bytes may get mixed.
Encode(s, kind, frame) ==
    /\ Free(s)
    /\ sending' = [sending EXCEPT ![s] = kind]
    /\ sendBuf' \in {frame} \union (IF \A u \in Senders : Free(u) THEN {} ELSE {Torn})

Others(s) == Encode(s, "other", OtherFrame) /\ UNCHANGED stream

\* send() of the buffer as it is now; nobody looks at its result.  A connection
\* that broke, or took a part of a frame or a torn one, carries no frame any more.
Send(s, own, ok) ==
    LET arrives == ok /\ stream /\ sendBuf.whole
    IN /\ sending' = [sending EXCEPT ![s] = "none"]
       /\ stream' = arrives
       /\ untold' = [k \in DOMAIN untold |->
                       IF arrives THEN untold[k] - RowCount(sendBuf.rows, k) ELSE untold[k]]
       /\ lost' = lost \union (IF ok /\ stream THEN {} ELSE {"send"})
                       \union (IF sendBuf = own THEN {} ELSE {"overwritten"})
       /\ UNCHANGED sendBuf

SendOther ==
    /\ \E s \in Senders, ok \in BOOLEAN : sending[s] = "other" /\ Send(s, OtherFrame, ok)
    /\ UNCHANGED <<settingVars, listVars, thread, ant, rows, total, owed, full, reads, messages>>

\* sendRO_Access_Report(void), one TagReportData per row, with antenna and seen
\* count, is encoded; a message that does not fit the send buffer is not sent,
\* and the table is empty all the same.
BeginReport(s) ==
    \/ /\ Fits /\ Encode(s, "report", ReportOf(rows))
       /\ UNCHANGED <<stream, tableVars>>
    \/ /\ ~ Fits /\ Free(s)
       /\ sendBuf' = Torn /\ lost' = lost \union {"large"}
       /\ rows' = << >> /\ total' = 0 /\ owed' = Nothing /\ full' = FALSE
       /\ UNCHANGED <<sending, stream, untold, reads>>

\* Mutant of SendReport: the rows are kept for the next report.
ReportKeepsRows(s) ==
    /\ sending[s] = "report"
    /\ \E ok \in BOOLEAN : Send(s, ReportOf(rows), ok)
    /\ total' = 0 /\ owed' = Nothing /\ full' = FALSE
    /\ UNCHANGED <<settingVars, listVars, thread, ant, rows, reads, messages>>

\* Whether it could be sent or not, the table is empty afterwards.
SendReport(s) ==
    /\ sending[s] = "report"
    /\ \E ok \in BOOLEAN : Send(s, ReportOf(rows), ok)
    /\ rows' = << >> /\ total' = 0 /\ owed' = Nothing /\ full' = FALSE
    /\ UNCHANGED <<settingVars, listVars, thread, ant, reads, messages>>
-----------------------------------------------------------------------------
(* The agent thread: one action per message, which it answers before it    *)
(* receives the next one; only GET_REPORT gets no other answer.            *)

ClientMessage ==
    /\ Free("agent") /\ messages < MaxMessages
    /\ messages' = messages + 1

\* A timeout: the agent sends a KEEPALIVE.
KeepAlive ==
    /\ Others("agent")
    /\ UNCHANGED <<settingVars, listVars, thread, ant, tableVars, messages>>

\* LLRP_MntAgent::initialize when the reader opens; an open one is left alone.
Opened == [set |-> NoSettings, power |-> [a \in Antennas |-> DefaultPower]]

\* SET_READER_CONFIG: the custom parameter opens the reader first, and the
\* settings are taken over even when that failed.
SetReaderConfig ==
    /\ ClientMessage
    /\ \E c \in Configs, ok \in BOOLEAN :
        LET opens == c.connects /\ ~ open /\ ok
            s == IF opens THEN Opened ELSE [set |-> set, power |-> power]
        IN /\ open' = (open \/ opens)
           /\ power' = AntennasSettings(s.power, c.configs)
           /\ set' = ReportSettings(s.set, c.report)
    /\ Others("agent")
    /\ UNCHANGED <<listVars, thread, ant, tableVars>>

\* ADD_ROSPEC: refused without a reader, with no effect on the settings;
\* otherwise its settings hold at once, for the ROSpec that runs as well.
AddRospec ==
    /\ ClientMessage
    /\ \E spec \in Rospecs \union ToSet(saved) :
        IF ~ open THEN UNCHANGED <<list, set, power>>
        ELSE /\ list' = Append(list, [spec |-> spec, st |-> "Disabled"])
             /\ set' = ReportSettings(set, spec.report)
             /\ power' = AntennasSettings(power, RospecConfigs(spec))
    /\ Others("agent")
    /\ UNCHANGED <<open, saved, rospec, thread, ant, tableVars>>

\* An answer that does not fit the send buffer is not sent; how many ROSpecs
\* do depends on them, so any list may be too long.  What it leaves in m_Send
\* is no frame.
GetRospecs ==
    /\ ClientMessage
    /\ \/ /\ saved' = [i \in DOMAIN list |-> RospecCopy(list[i].spec)]
          /\ Others("agent")
       \/ /\ list # << >> /\ UNCHANGED saved
          /\ sendBuf' = Torn /\ UNCHANGED <<sending, stream>>
    /\ UNCHANGED <<settingVars, list, rospec, thread, ant, tableVars>>

\* The messages name a ROSpec ID: the first entry that has it is meant.
First(i) == \A j \in 1 .. i - 1 : list[j].spec.id # list[i].spec.id

EnableRospec(i) ==
    /\ ClientMessage /\ First(i) /\ list[i].st = "Disabled"
    /\ list' = [list EXCEPT ![i].st = "Inactive"]
    /\ Others("agent")
    /\ UNCHANGED <<settingVars, saved, rospec, thread, ant, tableVars>>

\* START_ROSPEC; the client waits until the ROSpec before has ended.
StartRospec(i) ==
    /\ ClientMessage /\ First(i) /\ list[i].st = "Inactive" /\ thread = "idle"
    /\ list' = [list EXCEPT ![i].st = "Active"]
    /\ rospec' = <<i>> /\ thread' = "init"
    /\ Others("agent")
    /\ UNCHANGED <<settingVars, saved, ant, tableVars>>

StopRospec(i) ==
    /\ ClientMessage /\ First(i) /\ list[i].st = "Active"
    /\ list' = [list EXCEPT ![i].st = "Inactive"]
    /\ Others("agent")
    /\ UNCHANGED <<settingVars, saved, rospec, thread, ant, tableVars>>

\* The session ends and the next client is served, on a connection of its own:
\* the list is cleared and the handle dropped; the settings and the executor
\* with its table stay.
NewSession ==
    /\ ClientMessage /\ thread = "idle"
    /\ list' = << >> /\ open' = FALSE /\ stream' = TRUE
    /\ Encode("agent", "other", OtherFrame)
    /\ UNCHANGED <<set, power, saved, rospec, thread, ant, tableVars>>

\* GET_REPORT: only an executor that exists and is idle reports.
GetReport ==
    /\ ClientMessage
    /\ IF rospec # << >> /\ thread = "idle" THEN BeginReport("agent")
       ELSE UNCHANGED <<sendVars, tableVars>>
    /\ UNCHANGED <<settingVars, listVars, thread, ant>>
-----------------------------------------------------------------------------
(* The executor thread; it goes on when its last message is sent. *)

At(l) == thread = l /\ Free("executor")

Running == list[rospec[1]]

\* initialize(): what was read and not reported is forgotten; the Start event.
ThreadInit ==
    /\ At("init") /\ thread' = "read" /\ ant' = 1
    /\ rows' = << >> /\ total' = 0 /\ owed' = Nothing /\ full' = FALSE
    /\ untold' = Nothing /\ lost' = {} /\ reads' = 0
    /\ Others("executor")
    /\ UNCHANGED <<settingVars, listVars, messages>>

\* The stop trigger, looked at after each antenna; the End event is sent and
\* the loop left.  Other triggers never stop it.
Stopped == Running.spec.stop = "Null" /\ Running.st # "Active"

NextAntenna ==
    IF Stopped THEN thread' = "end" /\ ant' = 1 /\ Others("executor")
    ELSE /\ thread' = "read" /\ UNCHANGED sendVars
         /\ ant' = IF ant < Len(Walk(Running.spec)) THEN ant + 1 ELSE 1

\* A read of one antenna, at its power, that returns tags.
ReadTags ==
    /\ At("read") /\ ant \in DOMAIN Walk(Running.spec)
    /\ LET a == Walk(Running.spec)[ant] IN
       \E read \in UNION {[1 .. n -> Tags] : n \in 1 .. MaxPerRead} :
        LET times(k) == Cardinality({i \in DOMAIN read : <<read[i], a>> = k})
            refused == \E i \in DOMAIN read :
                          \A j \in DOMAIN rows' : Key(rows'[j]) # <<read[i], a>>
        IN /\ reads + Len(read) <= MaxReads /\ reads' = reads + Len(read)
           /\ rows' = AddReads(rows, read, a)
           /\ owed' = [k \in DOMAIN owed |-> owed[k] + times(k)]
           /\ untold' = [k \in DOMAIN untold |-> untold[k] + times(k)]
           /\ full' = (full \/ refused)
           /\ lost' = IF refused THEN lost \union {"full"} ELSE lost
           /\ total' = total + Len(read)
    /\ thread' = "report"
    /\ UNCHANGED <<settingVars, listVars, ant, sendVars, messages>>

\* ... and one that returns none: no report, the stop trigger is looked at.
ReadNothing ==
    /\ At("read") /\ ant \in DOMAIN Walk(Running.spec)
    /\ NextAntenna
    /\ UNCHANGED <<settingVars, listVars, tableVars, messages>>

\* sendTagsReport: the table is reported when enough tags have come ...
SendTagsReport ==
    /\ At("report") /\ thread' = "check"
    /\ IF set.trigger = "None" \/ total < set.n
       THEN UNCHANGED <<sendVars, tableVars>> ELSE BeginReport("executor")
    /\ UNCHANGED <<settingVars, listVars, ant, messages>>

\* ... and then the stop trigger is looked at.
CheckStop ==
    /\ At("check")
    /\ NextAntenna
    /\ UNCHANGED <<settingVars, listVars, tableVars, messages>>

ThreadExit ==
    /\ At("end") /\ thread' = "idle"
    /\ UNCHANGED <<settingVars, listVars, ant, sendVars, tableVars, messages>>

\* A read that fails ends the executor; its rows stay for GET_REPORT.
ReadFails ==
    /\ At("read") /\ ant \in DOMAIN Walk(Running.spec)
    /\ thread' = "idle" /\ ant' = 1
    /\ UNCHANGED <<settingVars, listVars, sendVars, tableVars, messages>>

ReportsNext ==
    \/ SetReaderConfig \/ AddRospec \/ GetRospecs \/ GetReport \/ NewSession \/ KeepAlive
    \/ \E i \in DOMAIN list : EnableRospec(i) \/ StartRospec(i) \/ StopRospec(i)
    \/ SendOther \/ \E s \in Senders : SendReport(s)
    \/ ThreadInit \/ ReadTags \/ ReadNothing \/ SendTagsReport \/ CheckStop \/ ThreadExit
    \/ ReadFails

ReportsSpec == ReportsInit /\ [][ReportsNext]_reportsVars
-----------------------------------------------------------------------------
OneRowPerTag == \A i, j \in DOMAIN rows : Key(rows[i]) = Key(rows[j]) => i = j

OwedIsHeld == \A k \in DOMAIN owed : owed[k] = RowCount(rows, k)

\* The reads not reported yet, one element for each.
Unreported == UNION {{k} \X (1 .. owed[k]) : k \in DOMAIN owed}

TotalIsOwed == total = Cardinality(Unreported)

CopyWorksAlike ==
    \A i \in DOMAIN list :
        LET spec == list[i].spec  copy == RospecCopy(spec)
        IN /\ Walk(copy) = Walk(spec) /\ copy.stop = spec.stop
           /\ AntennasSettings(power, RospecConfigs(copy))
                = AntennasSettings(power, RospecConfigs(spec))
           /\ ReportSettings(set, copy.report) = ReportSettings(set, spec.report)

\* What the client has not been told of is in the table, unless one of four
\* things happened; and unless two messages met in the buffer it was told of no
\* read twice, nor of one that is still in the table.
ToldOnce ==
    /\ lost = {} => \A k \in DOMAIN untold : untold[k] = RowCount(rows, k)
    /\ "overwritten" \notin lost => \A k \in DOMAIN untold : untold[k] >= RowCount(rows, k)

\* Every read of a tag since the start is in exactly one report that has reached
\* the client or in the table, under its own tag and antenna, unless the table of
\* 1024 rows was full (llrp_ROSpecExecutor.cpp:491-552), a report had more rows
\* than the send buffer of 8192 bytes takes, send() failed or was short
\* (llrp_MntAgent.cpp:642-715: each empties the table all the same), or the agent
\* and the executor met in m_Send, which nothing locks; only this last can report
\* a read twice.  The count that decides when N tags are due is the number of
\* reads since the table was last emptied; and a ROSpec restored from GET_ROSPECS
\* walks the same antennas and makes the same settings as the original
\* (llrp_MntAgent.cpp:972-1167).
ReadsAccounted ==
    /\ OneRowPerTag
    /\ ~ full => OwedIsHeld
    /\ TotalIsOwed
    /\ full => Len(rows) = MaxRows
    /\ ToldOnce
    /\ CopyWorksAlike
=============================================================================
