\* An auto-reset and a manual-reset event; a cancelled task may be left
\* on the loop beside two watches.
CONSTANTS
    w1 = w1
    w2 = w2
    auto = auto
    manual = manual
    a1 = a1
    a2 = a2
    f1 = f1
    f2 = f2
    f3 = f3
    None = None
    Watchers = {w1, w2}
    Events = {auto, manual}
    ManualReset = {manual}
    Addresses = {a1, a2}
    Flags = {f1, f2, f3}
SPECIFICATION Spec
SYMMETRY Symmetry
INVARIANTS
    PointersValid
    WatchTracked
    NoCallAfterStop
\* The loop and the events may all be gone.
CHECK_DEADLOCK FALSE
