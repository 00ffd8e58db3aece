-------------------------- MODULE MCLtkConnection --------------------------
(* An instance of LtkConnection for TLC: one sample of every kind of field *)
(* and of member, and frames that break each rule of the decoder.          *)
EXTENDS LtkConnection, LtkFrame

P(t, f, m) == [t |-> t, id |-> 0, f |-> f, m |-> m]

MCStatus ==
    P("LLRPStatus", <<101, <<83, 117>> >>,
      << <<P("FieldError", <<3, 101>>, << >>)>> >>)

MCReply(t, id) ==
    [t |-> t, id |-> id, f |-> << >>, m |-> [NoMembers(t) EXCEPT ![1] = <<MCStatus>>]]

ReportedTag ==
    P("TagReportData", << >>,
      << <<P("EPC_96", << <<226, 0, 81, 134, 6, 11, 2, 7, 16, 0, 0, 255>> >>, << >>)>>,
         <<P("AntennaID", <<258>>, << >>)>>,
         <<P("PeakRSSI", <<-60>>, << >>)>>,
         <<P("C1G2_PC", <<12288>>, << >>), P("C1G2_PC", <<0>>, << >>)>>, << >> >>)

OddTag ==
    P("TagReportData", << >>,
      << <<P("EPCData", <<[n |-> 12, bytes |-> <<171, 192>>]>>, << >>)>>,
         << >>, << >>, << >>,
         <<P("VendorParameter", << >>, << <<P("AntennaID", <<7>>, << >>)>> >>)>> >>)

Custom(data) == P("CustomParameter", <<7777, 1, data>>, << >>)

\* Notifications; they have the message IDs of the requests.
MCNotes ==
    {[t |-> "RO_ACCESS_REPORT", id |-> 1, f |-> << >>,
      m |-> << <<ReportedTag, OddTag>>, <<Custom(<< >>)>> >>],
     [t |-> "VENDOR_MESSAGE_1", id |-> 2,
      f |-> <<1, 2, 0, [n |-> 9, bytes |-> <<1, 128>>], 200, -3, << >>, <<-128, 127>>,
              <<111, 107>>, 65535, <<65535, 1>>, -300, <<-1, 2>>, 70000, <<16909060>>,
              -70000, <<-2>>, 123456, <<5, 6>>, 77, <<9>>,
              <<1, 2, 3, 4, 5, 6, 7, 8, 9, 10, 11, 12>>, <<1, 2>> >>,
      m |-> << >>]}

\* A message type that is not enrolled; a subparameter longer than its
\* message; a length below that of a header, which cannot be survived.
MCBadFrames ==
    {<<4, 77, 0, 0, 0, 10, 0, 0, 0, 9>>,
     <<4, 61, 0, 0, 0, 14, 0, 0, 0, 9, 0, 240, 0, 5>>,
     <<4, 62, 0, 0, 0, 9, 0, 0, 0, 9>>}

Config(extensions) ==
    [t |-> "SET_READER_CONFIG", id |-> 2, f |-> <<1, 0>>,
     m |-> << <<P("ROReportSpec", <<1, 20>>,
                  << <<P("TagReportContentSelector", <<1, 0, 1, 1, 0, 0, 1, 1, 1, 0, 0>>,
                         << <<P("C1G2EPCMemorySelector", <<0, 1, 0>>, << >>)>> >>)>>,
                     << >> >>)>>,
              extensions>>]

\* Two requests and one that does not fit the send buffer.
MCRequests ==
    <<[t |-> "START_ROSPEC", id |-> 1, f |-> <<1>>, m |-> << >>],
      Config(<<Custom(<<49, 50>>)>>),
      Config(<<Custom([i \in 1 .. 100 |-> 0])>>)>>
=============================================================================
