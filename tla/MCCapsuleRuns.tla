--------------------------- MODULE MCCapsuleRuns ---------------------------
(* Kernels of several processes that record their run in a capsule, for    *)
(* TLC: either ranks that agree through MPI (MpiCapsule) or processes that *)
(* meet in a shared-memory object (CapsuleJob). A behaviour is of one kind *)
(* from its start.                                                         *)
EXTENDS MCCapsuleJob, MpiCapsule

VARIABLE how    \* "mpi" or "shm"

runsVars == <<how, allVars, mpiVars>>

(* setup only matters to the ranks. *)
RunsInit ==
    /\ how \in {"mpi", "shm"}
    /\ JobInit /\ MpiInit
    /\ how = "shm" => setup

RunsNext ==
    \/ how = "shm" /\ JobNext /\ UNCHANGED <<how, mpiVars>>
    \/ how = "mpi" /\ MpiNext /\ UNCHANGED <<how, allVars>>

(* Besides the fairness of the processes of CapsuleJob, no rank stops      *)
(* between two MPI calls.                                                  *)
FairRunsSpec ==
    /\ RunsInit /\ [][RunsNext]_runsVars
    /\ JobFairness
    /\ \A r \in Rank : WF_mpiVars(how = "mpi" /\ RankStep(r))
=============================================================================
