SPECIFICATION Spec
CONSTANTS
    Clients = {c1, c2, c3}
    Interfaces <- MCInterfaces
    UsageOf <- MCUsageOf
    SystemHeld = {"mouse"}
SYMMETRY ClientSymmetry
INVARIANTS TypeOK HandlesAccounted ConnectedHolds FailsOnlyWithReason
