CONSTANTS
    Values = {0, 1}
    MaxData = 2
    MaxMessages = 2
    MaxFrames = 2
    Configs <- PassConfigs
    SenderKinds = {"library", "peer"}
    Misframes = {}
    MaxMessageSize = 2
    None = None
SPECIFICATION FairSpec
INVARIANTS TypeOK RoundTrip
CHECK_DEADLOCK FALSE
PROPERTY DeflateImplementsChannel
