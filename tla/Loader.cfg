SPECIFICATION FairSpec
CONSTANTS
    Loaders = {"p1", "p2", "p3"}
    DriverOf <- MCDriverOf
INVARIANTS
    TypeOK
    LinkLeadsToDevice
    UnloadedOwnsNothing
    StaysLoaded
PROPERTIES
    DeletedServiceGoes
