\* Three processes, one capsule, three identifiers, one crash or I/O error.
SPECIFICATION Spec
CONSTANTS
    Proc = {p1, p2, p3}
    Cap = {c}
    Task = {s, t, u}
    NoProc = NoProc
    MaxAbort = 1
SYMMETRY Symmetry
INVARIANTS AckedStay ReadWhole
PROPERTIES AckedWhole
