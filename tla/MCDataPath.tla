----------------------------- MODULE MCDataPath -----------------------------
(* Instances for TLC of five parts the data pass through and that do not   *)
(* share state: the serial line, the CGI programs' connection, the reports *)
(* of the LLRP agent, the XML text of its messages and the SCGI requests.  *)
(* A behaviour exercises one of them, chosen at the start; the variables   *)
(* of the others keep their initial values.                                *)
EXTENDS ScgiRequest, WebSession, LlrpReports, TLC

CONSTANTS t1, t2, r1, r2, r3, Missing,
          LineCalls, LineAntMap, LineTags,
          XmlElements

VARIABLES part,
    call, host, stage, lineTries, want, got, rx, line, flight, result,
    mine, late, passed, fault,
    element, nBuffer, todo, buffer, overflow, rc

lineVars == << call, host, stage, lineTries, want, got, rx, line, flight, result,
               mine, late, passed, fault >>
xmlVars == << element, nBuffer, todo, buffer, overflow, rc >>

Line == INSTANCE ReaderLine WITH
    Calls <- LineCalls, AntMap <- LineAntMap, Tags <- LineTags,
    Statuses <- {0, 5}, FaultKinds <- {"lost", "changed", "late", "gone"}, MaxFlight <- 1,
    tries <- lineTries

Xml == INSTANCE XmlText WITH
    Elements <- XmlElements, Sizes <- {30, 130, 350}, MAX_NS <- 2, MaxWalk <- 3,
    Markup <- {38, 60, 92}, m_pBuffer <- buffer, m_bOverflow <- overflow

-----------------------------------------------------------------------------
Init ==
    /\ part \in {"line", "web", "reports", "xml", "scgi"}
    /\ Line!LineInit /\ WebInit /\ ReportsInit /\ Xml!XmlInit /\ ScgiInit
    /\ part # "web" => run = CHOOSE r \in Runs : TRUE
    /\ part # "scgi" => server = "agent" /\ request = CHOOSE r \in Requests : TRUE

Next ==
    /\ UNCHANGED part
    /\ \/ part = "line" /\ Line!LineNext
          /\ UNCHANGED << webVars, reportsVars, xmlVars, scgiVars >>
       \/ part = "web" /\ WebNext
          /\ UNCHANGED << lineVars, reportsVars, xmlVars, scgiVars >>
       \/ part = "reports" /\ ReportsNext
          /\ UNCHANGED << lineVars, webVars, xmlVars, scgiVars >>
       \/ part = "xml" /\ Xml!XmlNext
          /\ UNCHANGED << lineVars, webVars, reportsVars, scgiVars >>
       \/ part = "scgi" /\ ScgiNext
          /\ UNCHANGED << lineVars, webVars, reportsVars, xmlVars >>

Spec == Init /\ [][Next]_<< part, lineVars, webVars, reportsVars, xmlVars, scgiVars >>

-----------------------------------------------------------------------------
(* What the five parts promise; each is stated and explained in its module. *)

\* ReaderLine: with at most one fault on the line a call that returns success
\* returns a whole answer, to itself or to an earlier call that it cannot tell
\* from its own (muxdev.cpp, iReader.cpp).
AnswerTrue == Line!AnswerTrue

\* XmlText: text that is said to be whole reads back to the element it was
\* made from (ltkcpp_xmltextencode.cpp).
WellNested == Xml!WellNested

\* CommandWhole, ShownTrue and ReadsAccounted are stated in ScgiRequest,
\* WebSession and LlrpReports, which this module extends.

-----------------------------------------------------------------------------
(* The constants: calls of the program, tags, rows, messages and requests.  *)

\* The operators that build calls, without the constants that are
\* defined with them.
LineOps == INSTANCE ReaderLine WITH
    Calls <- {}, AntMap <- LineAntMap, Tags <- LineTags,
    Statuses <- {0}, FaultKinds <- {}, MaxFlight <- 1, tries <- lineTries

MCLineCalls ==
    {LineOps!GetAntMap, LineOps!GetSlaveSoftVer(100, 7), LineOps!SetAntPort(235), LineOps!SetAntPort(2),
     LineOps!SetLedPort(4242), LineOps!GetInitdFlag(125), LineOps!RescanSlave(9),
     LineOps!setpower(2700), LineOps!EquipTempGet, LineOps!ReadTagsMetaDataRSSI(500)}

\* 235 and 125 are SOP_BYTE and ESC_BYTE, so their bytes travel escaped.
MCLineAntMap == [i \in 1 .. 32 |-> CASE i = 32 -> 235 [] i = 31 -> 125
                                     [] i = 30 -> 129 [] OTHER -> 0]

MCLineTags == << << 13, 0, 165, 90 >>, << 7, 10, 13, 10 >> >>

MCWebTable == (0 :> << r1, r2, r3 >>) @@ (1 :> << r1 >>)

MCWebRuns ==
    {process_readtagonce(1, 2500), process_readtagonce(7, 2500),
     process_stopstreamtag, process_startstreamtag,
     process_starttagtodb, process_stoptagtodb,
     process_startmonitor, process_stopmonitor,
     process_getmoduletemperature, process_getregion,
     process_getsearchtimeout, process_setsearchtimeout(300),
     process_rescanchn(3), process_rescanchn(9), process_antmap,
     process_setantpower(2, 2700), process_setantpower(3, 2700),
     process_inserttag(r1, 1, 1), process_seltag(0, 0),
     process_seltag(1, 0), process_seltag(0, 1),
     inserttag_main(<< r1, 1 >>)}
    \cup {ApiCall(c) : c \in
            {IReaderApiSetRegion(8), IReaderApiSelectAnt(1),
             IReaderApiSetScanAntId(1, 1), IReaderApiGetPowerLevel(1),
             IReaderApiWriteTagData(2500), IReaderApiReadTagData,
             IReaderApiSetAntScanMap(<< 1, 257 >>),
             IReaderApiReadTags, IReaderApiReadTagsAtomic(2),
             IReaderApiSyncChannel(4), IReaderApiSyncChannel(9),
             IReaderApiGetAntList, IReaderApiGetScanAntList,
             IReaderApiWriteTag,
             IReaderApiGetAntScanMap, IReaderApiTempProtectSet(1)}}

MCReportAnts == << 2, 1 >>

AntConfig(a, tx) == [ant |-> a, tx |-> tx, rx |-> << -60 >>]
AISpec(ants, inv) == [kind |-> "AISpec", ants |-> ants, inv |-> inv]
Survey == [kind |-> "RFSurveySpec", ants |-> << 1 >>, inv |-> << >>]
Inventory(p, configs) == [protocol |-> p, configs |-> configs]
ReportSpec(t, n, rssi, sel) ==
    [trigger |-> t, n |-> n, rssi |-> rssi, selectors |-> sel]

MCReportRospecs ==
    {[id |-> 1, stop |-> "Null",
      params |-> << Survey,
                    AISpec(<< 0 >>, << Inventory("EPC",
                       << AntConfig(0, << 3000 >>), AntConfig(2, << >>) >>) >>) >>,
      report |-> << ReportSpec("EndOfROSpec", 2, TRUE,
                               << [pc |-> TRUE, crc |-> FALSE] >>) >>],
     [id |-> 2, stop |-> "Duration",
      params |-> << AISpec(<< 2, 2 >>,
                       << Inventory("Other", << AntConfig(1, << 1000 >>) >>),
                          Inventory("EPC", << AntConfig(2, << 1500 >>),
                                              AntConfig(3, << 1 >>) >>) >>) >>,
      report |-> << >>]}

MCReportConfigs ==
    {[connects |-> TRUE, report |-> << >>,
      configs |-> << AntConfig(0, << 2000 >>), AntConfig(1, << >>) >>],
     [connects |-> FALSE, configs |-> << >>,
      report |-> << ReportSpec("UponN", 3, FALSE, << >>) >>]}

Field(type, name, value, format) ==
    [type |-> type, name |-> name, value |-> value, format |-> format,
     names |-> << "One", "Two" >>]
Element(ns, name, fields, slots) ==
    [ns |-> ns, name |-> name, message |-> FALSE, id |-> 0,
     fields |-> fields, slots |-> slots]
Message(name, fields, slots) ==
    [Element("llrp", name, fields, slots) EXCEPT !.message = TRUE, !.id = 7]
Slot(repeat, items) == [repeat |-> repeat, items |-> items]

Moto(slots) ==
    Element("moto", "Custom",
        << Field("u1v", "Bits", << 1, 0, 1, 1, 0, 0, 1, 0, 1 >>, "NORMAL"),
           Field("bytesToEnd", "Data", << 1, 255 >>, "NORMAL") >>, slots)

Scalars ==
    Element("llrp", "Scalars",
        << Field("u8", "A", 200, "DEC"), Field("s8", "B", -2, "HEX"),
           Field("u16", "C", 7, "HEX"), Field("s16", "D", -7, "NORMAL"),
           Field("u32", "E", 9, "HEX"), Field("s32", "F", -9, "DEC"),
           Field("u64", "G", 3000001, "DATETIME"), Field("s64", "H", -1, "HEX"),
           Field("u1", "I", 1, "NORMAL"), Field("u1", "J", 0, "DEC"),
           Field("u2", "K", 3, "NORMAL"), Field("reserved", "", 6, "NORMAL"),
           Field("enum", "L", 2, "NORMAL"), Field("enum", "M", 5, "NORMAL") >>,
        << >>)

Vectors ==
    Element("llrp", "Vectors",
        << Field("u8v", "A", << 1, 23 >>, "DEC"), Field("s8v", "B", << -1, 2 >>, "HEX"),
           Field("u16v", "C", << 1, 2 >>, "HEX"),
           Field("s32v", "D", << -1, 12 >>, "NORMAL"),
           Field("u64v", "E", << >>, "NORMAL"),
           Field("u96", "F", [i \in 1 .. 12 |-> i], "NORMAL"),
           Field("utf8v", "G", << 72, 233, 0 >>, "NORMAL"),
           Field("e8v", "H", << 1, 9, 2 >>, "NORMAL") >>, << >>)

\* A whole message, one that lacks what it requires, and one with more
\* namespaces than the list has room for.
MCXmlElements ==
    {Message("M1", << >>,
        << Slot("1", << Scalars >>), Slot("0-1", << Missing >>),
           Slot("0-N", << Vectors, Moto(<< >>) >>),
           Slot("1-N", << Moto(<< Slot("0-1", << Moto(<< >>) >>) >>) >>) >>),
     Message("M2", << Field("utf8v", "S", << 60 >>, "NORMAL") >>,
        << Slot("1", << Missing >>), Slot("1-N", << >>) >>),
     Moto(<< Slot("0-1",
        << Element("imp", "P", << >>,
             << Slot("0-N", << Moto(<< >>), Element("llrp", "Q", << >>, << >>) >>) >>) >>) >>)}

HeaderBytes(n, query) ==
    << "CONTENT_LENGTH", "nul", n, "nul", "SCGI", "nul", "1", "nul",
       "QUERY_STRING", "nul", query, "nul" >>
ScgiRequest(query, bytes, good) == [query |-> << query >>, bytes |-> bytes, good |-> good]

\* Those that a web server sends: with a body, without, and without a
\* QUERY_STRING.  Then a netstring one byte short, one without CONTENT_LENGTH
\* first, one longer than the buffer, one without a colon.
MCScgiRequests ==
    {ScgiRequest("startstreamtag",
        << "1", "2", ":" >> \o HeaderBytes("2", "startstreamtag") \o << ",", "b", "b" >>, TRUE)}
    \cup
    {ScgiRequest(word, << "1", "2", ":" >> \o HeaderBytes("0", word) \o << "," >>, TRUE) :
        word \in {"getsearchtimeout", "seltag", "seltag-bare", "path_info", "die-at-end", "help"}}
    \cup
    {[query |-> << >>, good |-> TRUE,
      bytes |-> << "8", ":" >> \o SubSeq(HeaderBytes("0", ""), 1, 8) \o << "," >>],
     ScgiRequest("startstreamtag",
        << "1", "1", ":" >> \o HeaderBytes("0", "startstreamtag") \o << "," >>, FALSE),
     ScgiRequest("startstreamtag",
        << "1", "2", ":", "SCGI", "nul", "1", "nul" >>
          \o SubSeq(HeaderBytes("0", "startstreamtag"), 1, 4)
          \o SubSeq(HeaderBytes("0", "startstreamtag"), 9, 12) \o << "," >>, FALSE),
     ScgiRequest("startstreamtag",
        << "9", "9", ":" >> \o HeaderBytes("0", "startstreamtag") \o << "," >>, FALSE),
     ScgiRequest("startstreamtag", << "1", "b", "2", "1", "1", "1" >>, FALSE)}
=============================================================================
