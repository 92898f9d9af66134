\* Two processes, three creations, two counted tasks, one crash.
SPECIFICATION Spec
CONSTANTS
    Proc = {p1, p2}
    Name = {intel, copy}
    NoProc = NoProc
    intel = intel
    copy = copy
    Source <- MCSource
    Environ <- MCEnviron
    ChainLimit = 2
    MaxApp = 2
    MaxVar = 3
    CoreMaxVar = 4
    MaxParts = 5
    ShellName = {"PATH", "LANG", "LIBS", "OMP"}
    MaxId = 3
    MaxTask = 2
    MaxAbort = 1
SYMMETRY Symmetry
CHECK_DEADLOCK FALSE
INVARIANTS InheritDecreases RowFirst LoadGivesNearest CopyDeclaresTheSame FamilyLinked CountsExact
