SPECIFICATION FairSpec
CONSTANTS
    Total = 8
    Sizes = {3}
    Blocks = {b1}
    None = None
    TokenModulus = 2
    MaxInFlight = 1
    ContextLoss = TRUE
INVARIANTS
    ClientViewSafe
PROPERTIES
    ReusedAfterToken
    ImplementsCommandStream
    CallsReturn
CHECK_DEADLOCK FALSE
