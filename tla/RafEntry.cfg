\* Three processes, two records, one crash or I/O error, weak fairness of
\* every begun call (no symmetry: it is unsound for the liveness property).
SPECIFICATION FairSpec
CONSTANTS
    Proc = {p1, p2, p3}
    Id = {a, b}
    NoId = NoId
    NoProc = NoProc
    MaxAbort = 1
INVARIANTS IndexWhole AckedOnce ListSeesAcked LinkInOwnRow
PROPERTIES RefinesEntryLog LockWaitEnds
