\* Two runs, as in CapsuleJob.cfg, without any crash or failure of an append.
SPECIFICATION JobSpec
CONSTANTS
    NJob = 2
    NUnit = 2
    Proc <- MCProc
    Cap = {1, 2}
    Task <- MCProc
    NoProc = NoProc
    MaxAbort = 0
CHECK_DEADLOCK FALSE
INVARIANTS SyncBlocksUntilReady
