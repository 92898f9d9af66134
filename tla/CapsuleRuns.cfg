\* Two runs of two processes each with one crash or failure, through shared
\* memory; or three ranks with two failed calls or appends of others, through MPI.
SPECIFICATION FairRunsSpec
CONSTANTS
    NJob = 2
    NUnit = 2
    Proc <- MCProc
    Cap = {1, 2}
    Task <- MCProc
    NoProc = NoProc
    MaxAbort = 1
    NRank = 3
    MaxFail = 2
CHECK_DEADLOCK FALSE
INVARIANTS SyncOwn CapsuleComplete VerdictAgreed SuccessIsComplete NoSpuriousFailure
PROPERTIES ImplementsCapsuleFile JobEnds RanksEnd
