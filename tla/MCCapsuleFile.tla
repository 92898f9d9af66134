--------------------------- MODULE MCCapsuleFile ----------------------------
(* TLC instance of CapsuleFile: the processes are alike. *)
EXTENDS CapsuleFile, TLC

Symmetry == Permutations(Proc)
=============================================================================
