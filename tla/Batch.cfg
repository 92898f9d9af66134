\* Two front ends, a plain kernel and an MPI kernel of two ranks, one
\* failure, kill or clock correction.
SPECIFICATION Spec
CONSTANTS
    tpbcli_run = run
    Front = {run, benchmark}
    NoFront = NoFront
    stream = stream
    stream_mpi = stream_mpi
    Kernel = {stream, stream_mpi}
    Mpi = {stream_mpi}
    Job <- MCJob
    NUnit = 2
    MaxFail = 1
CHECK_DEADLOCK FALSE
INVARIANTS PublishedAgrees ListsItsEntryPoints OnePerHandle
