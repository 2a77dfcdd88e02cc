SPECIFICATION Spec
CONSTANTS
    MaxCalls = 4
    MaxTouches = 5
    InputBuffers = 2
INVARIANTS TypeOK NothingStale FramesAreWhole TrueMeansWholeFrame MessagesInOrder
CHECK_DEADLOCK FALSE
