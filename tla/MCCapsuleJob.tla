---------------------------- MODULE MCCapsuleJob ----------------------------
(* TLC instance of CapsuleJob: the processes of the runs. *)
EXTENDS CapsuleJob

MCProc == UNION {Units(j) : j \in Job}
=============================================================================
