SPECIFICATION Spec
CONSTANTS
    Requests = {r1, r2, r3, r4}
    None = None
    Modes = {mouse}
    MouseMode = mouse
    SizeOf <- MCSizeOf
    Packets <- MCMatching
    MayCarry <- MCAny
SYMMETRY RequestSymmetry
INVARIANTS
    ReadOwnership
    CompletedOnce
    ReportsMatchReads
    BytesAgree
    SerialWritesInOrder
    RefusedOnlyWhenEmpty
    OldestReadFirst
PROPERTIES
    ImplementsPipe
CHECK_DEADLOCK FALSE
