\* Two processes that create environments at the same time; no crash.
SPECIFICATION Spec
CONSTANTS
    Proc = {p1, p2}
    Name = {intel, copy}
    NoProc = NoProc
    intel = intel
    copy = copy
    Source <- MCSource
    Environ <- MCEnviron
    ChainLimit = 2
    MaxApp = 2
    MaxVar = 3
    CoreMaxVar = 4
    MaxParts = 5
    ShellName = {"PATH", "LANG", "LIBS", "OMP"}
    MaxId = 2
    MaxTask = 0
    MaxAbort = 0
SYMMETRY Symmetry
CHECK_DEADLOCK FALSE
INVARIANTS NamesUnique
