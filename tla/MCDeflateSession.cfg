CONSTANTS
    Values = {0, 1}
    MaxData = 2
    MaxMessages = 2
    MaxFrames = 1
    Configs <- NegotiatedConfigs
    SenderKinds = {"library"}
    Misframes = {}
    MaxMessageSize = 2
    None = None
    NoValue = NoValue
    NaN = NaN
    Opaque = Opaque

SPECIFICATION Spec

\* The sender stops after MaxMessages and the receiver once the wire is
\* empty: the session ends.
CHECK_DEADLOCK FALSE

INVARIANT RoundTrip
