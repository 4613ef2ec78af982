CONSTANTS
    cli = cli
    srv = srv
    ghost = ghost
    None = None
    NoCode = NoCode
    BadClose = BadClose
    Clients = {cli}
    Servers = {srv}
    PeerOf <- PairPeerOf
    Payloads = {1}
    MaskKeys = {1}
    CloseCodes <- MCCloseCodes
    PeerFrames = {}
    MaxWrites = 2
    MaxInject = 0
    NonBlocking = TRUE

SPECIFICATION FairSpec

\* Both callers blocked in read_message on a quiet connection is a
\* resting state of the system.
CHECK_DEADLOCK FALSE

PROPERTIES
    ImplementsChannel
    ChannelDelivers
