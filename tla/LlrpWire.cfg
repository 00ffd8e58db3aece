\* The toolkit's connection against a reader that is late and in pieces.
SPECIFICATION Spec
CONSTANTS
    BufSize = 130
    Notes <- MCNotes
    BadFrames <- MCBadFrames
    Requests <- MCRequests
    Encode <- encodeElement
    Decode <- decodeMessage
    Reply <- MCReply
    Waits = {"wait"}
    Piece = 24
    MaxNotes = 2
    MaxCalls = 3
    CleanReuse = TRUE
INVARIANTS
    InStep
PROPERTIES
    MailboxKept
CHECK_DEADLOCK FALSE
