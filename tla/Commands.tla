------------------------------ MODULE Commands ------------------------------
(***************************************************************************)
(* One process of tpbcli that runs kernels: tpbcli run or tpbcli benchmark, *)
(* over the one driver of the process.                                      *)
(***************************************************************************)
EXTENDS RunCommand, Benchmark

vars == <<drv, pc, runVars, benchVars>>

Init ==
  /\ drv = Fresh
  /\ pc \in {"register", "load"}
  /\ InitRun
  /\ InitBench

Next ==
  \/ NextRun /\ UNCHANGED benchVars
  \/ NextBench /\ UNCHANGED runVars

Spec == Init /\ [][Next]_vars
=============================================================================
