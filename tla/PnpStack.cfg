SPECIFICATION Spec
CONSTANTS
    WdmPdos = {p1, p2}
    HidPdos = {h1, h2}
    None = None
INVARIANTS
    TypeOK
    RemovedLeavesNothing
PROPERTIES
    EveryIrpCompletes
