CONSTANTS
    cli = cli
    srv = srv
    ghost = ghost
    None = None
    NoCode = NoCode
    BadClose = BadClose
    Clients = {}
    Servers = {srv}
    PeerOf <- AlonePeerOf
    Payloads = {0, 1}
    MaskKeys = {1}
    CloseCodes <- MCCloseCodes
    PeerFrames <- ToServerFrames
    MaxWrites = 1
    MaxInject = 3
    NonBlocking = FALSE

SPECIFICATION Spec

\* A failed connection, or a caller blocked reading from a silent peer,
\* stays where it is.
CHECK_DEADLOCK FALSE

INVARIANTS
    TypeOK
    DeliveredMatchesFrames
    PongAnswersLatestPing
    CloseReplyMatches
