SPECIFICATION FairSpec
CONSTANTS
    Requests = {"a", "b", "f"}
    None = None
    Modes = {mouse, multi}
    MouseMode = mouse
    SizeOf <- MCSizeOf
    Packets <- MCChecks
    MayCarry <- MCMayCarry
INVARIANTS
    TypeOK
    FeatureIsFresh
PROPERTIES
    HandlersReply
CHECK_DEADLOCK FALSE
