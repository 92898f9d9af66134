--------------------------- MODULE MCKernelRecord ---------------------------
(* Two variants of one kernel and one of another; two processes.           *)
EXTENDS KernelRecord

CONSTANTS k1, k2, k3, a, b

MCNameOf == (k1 :> a @@ k2 :> a @@ k3 :> b)
MCSection == <<"variation", "compilation", "dependency">>

(* _sf_register_compile_meta: keys of every section, in order. *)
MCPairs == <<[sec |-> 1, key |-> "target", val |-> "so"],
             [sec |-> 2, key |-> "cflags", val |-> "O3"]>>

Symmetry == Permutations(Proc)
=============================================================================
