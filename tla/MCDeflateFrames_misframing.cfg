CONSTANTS
    Values = {0, 1}
    MaxData = 2
    MaxMessages = 1
    MaxFrames = 2
    Configs <- PassConfigs
    SenderKinds = {"peer"}
    Misframes = {"leading", "restart"}
    MaxMessageSize = 2
    None = None
INIT Init
NEXT Next
INVARIANT FramingViolationFails
CHECK_DEADLOCK FALSE
