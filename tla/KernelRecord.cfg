SPECIFICATION Spec
SYMMETRY Symmetry
CONSTANTS
    Nul = Nul
    Junk = Junk
    Section <- MCSection
    Proc = {p1, p2}
    NoProc = NoProc
    k1 = k1
    k2 = k2
    k3 = k3
    Id = {k1, k2, k3}
    a = a
    b = b
    Name = {a, b}
    NameOf <- MCNameOf
    NoSo = NoSo
    Torn = Torn
    Pairs <- MCPairs
    MaxCmd = 4
    OverlapCost = 3
    MaxFail = 1
INVARIANTS
    InstalledIsActive
    SetReadsBack
PROPERTY
    KeepsActive
CHECK_DEADLOCK FALSE
