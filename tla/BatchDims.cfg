\* Two front ends, as in Batch.cfg, with nothing failing.
SPECIFICATION Spec
CONSTANTS
    tpbcli_run = run
    Front = {run, benchmark}
    NoFront = NoFront
    stream = stream
    stream_mpi = stream_mpi
    Kernel = {stream, stream_mpi}
    Mpi = {stream_mpi}
    Job <- MCJob
    NUnit = 2
    MaxFail = 0
CHECK_DEADLOCK FALSE
INVARIANTS DimsizesCount
