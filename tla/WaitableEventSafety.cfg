\* Two auto-reset events and a manual-reset one, three threads.
CONSTANTS
    p1 = p1
    p2 = p2
    p3 = p3
    None = None
    Events = {1, 2, 3}
    ManualReset = {2}
    Threads = {p1, p2, p3}
SPECIFICATION Spec
SYMMETRY Symmetry
INVARIANTS
    WaitListsOK
    SignalsConserved
    SignalDoneBeforeReturn
    NoDeadlock
