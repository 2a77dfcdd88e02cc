SPECIFICATION Spec
CONSTANTS
    Irps = {c1, c2, c3}
    Params <- MCParams
    MAX_FILE_LENGTH = 3
    Word = 8
    None = None
SYMMETRY IrpSymmetry
INVARIANTS
    TypeOK
    LengthFollowsWrites
    ReadIsRegular
    QueryIsFresh
CHECK_DEADLOCK FALSE
