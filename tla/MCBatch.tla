------------------------------- MODULE MCBatch ------------------------------
(* TLC instance of Batch: a run of two kernels and a benchmark of one. *)
EXTENDS Batch

CONSTANTS tpbcli_run, stream, stream_mpi

MCJob == [f \in Front |->
             IF f = tpbcli_run
               THEN [kind |-> "run", plan |-> <<stream, stream_mpi>>]
               ELSE [kind |-> "benchmark", plan |-> <<stream>>]]
=============================================================================
