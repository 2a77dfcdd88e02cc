SPECIFICATION Spec
CONSTANTS
    MaxSize = 2
    MaxEntries = 2
    Elements = 4
INVARIANTS
    TypeOK
    EverythingReturned
    DefinedUnlessDisturbed
CHECK_DEADLOCK FALSE
