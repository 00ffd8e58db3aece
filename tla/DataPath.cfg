SPECIFICATION Spec
CONSTANTS
    t1 = t1  t2 = t2
    r1 = r1  r2 = r2  r3 = r3
    Done = Done  Tag = Tag  Missing = Missing
    LineCalls <- MCLineCalls  LineAntMap <- MCLineAntMap  LineTags <- MCLineTags
    Runs <- MCWebRuns  Table <- MCWebTable  Connected = {TRUE, FALSE}
    MaxAnt = 2  Region = 1  Temperature = 4200  ConnectedAnts = {1, 2}
    Slow = {"83", "95", "97", "98"}  Cache = 3  MaxPush = 2
    Tags = {t1, t2}  AntList <- MCReportAnts  MaxAntennas = 2  MaxRows = 2  SendBuffer = 130
    DefaultPower = 2500  Rospecs <- MCReportRospecs  Configs <- MCReportConfigs
    MaxPerRead = 2  MaxReads = 3  MaxMessages = 6
    XmlElements <- MCXmlElements  Requests <- MCScgiRequests
    Servers = {"agent", "standalone"}  BufSize = 20  NoColonMax = 5
INVARIANTS AnswerTrue ShownTrue ReadsAccounted WellNested CommandWhole
CHECK_DEADLOCK FALSE
