CONSTANTS
    Values = {0, 1}
    MaxData = 2
    MaxMessages = 1
    MaxFrames = 4
    Configs <- CapConfigs
    SenderKinds = {"peer"}
    Misframes = {}
    MaxMessageSize = 2
    None = None
INIT Init
NEXT Next
INVARIANT FragmentsBounded
CHECK_DEADLOCK FALSE
