CONSTANTS
    NoValue = NoValue
    NaN = NaN
    Opaque = Opaque
    None = None
    ServerConfigs <- Configs
    ClientConfigs <- Configs
    ForeignRequests <- MCForeignRequests

SPECIFICATION Spec

\* The handshake is one request and one answer: it ends.
CHECK_DEADLOCK FALSE

INVARIANT ServerResponseMatchesState
