SPECIFICATION Spec
CONSTANTS
    Nodes = {n1, n2, n3}
    Lists = {NO_USE, LOW_USE}
    None = None
    CrashInFinishInsert = FALSE
    MaxFaults = 2
INVARIANTS
    FileConsistent
    ListsRecovered
    NoCriticalError
PROPERTY
    ImplementsLruLists
SYMMETRY Symmetry
