SPECIFICATION Spec
CONSTANTS
    Requests = {r1, r2, r3}
    None = None
    Modes = {mouse}
    MouseMode = mouse
    SizeOf <- MCSizeOf
    Packets <- MCMatching
    MayCarry <- MCAny
SYMMETRY RequestSymmetry
INVARIANTS
    DeferredUntilMatched
CHECK_DEADLOCK FALSE
