SPECIFICATION FairSpec
CONSTANTS
    Irps = {i1, i2, i3, i4, i5}
    Cancellable = {i1, i2}
    None = None
INVARIANTS
    TypeOK
    OneServer
    TwiceOnlyWhenCancelled
PROPERTIES
    ImplementsSerialDevice
    EveryReadCompletes
CHECK_DEADLOCK FALSE
