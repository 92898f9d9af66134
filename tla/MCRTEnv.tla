------------------------------- MODULE MCRTEnv ------------------------------
(* TLC instance of RTEnv: intel is made with options, copy from the edited  *)
(* template of the active environment.                                      *)
EXTENDS RTEnv, TLC

CONSTANTS intel, copy

Opt(opt, value) == [opt |-> opt, value |-> value]

MCSource ==
    (intel :> [kind |-> "options",
               options |-> <<Opt("-n", <<intel>>),
                             Opt("-app", <<>>), Opt("-n", <<"icc">>), Opt("-N", <<"site">>),
                             Opt("-evp", <<>>), Opt("-k", <<"PATH">>),
                                                Opt("-v", <<"opt", ":", ":", "x">>),
                             Opt("-eva", <<>>), Opt("-k", <<"LIBS">>), Opt("-v", <<"m">>)>>]) @@
    (copy :> [kind |-> "active",
              lines |-> <<Line("name", <<copy, " ">>), Line("note", <<"x">>),
                          Line("application", <<"gcc", ":", "13">>),
                          Line("var", <<"fail", ":", "overwrite", ":", "OMP", ":",
                                        "'", "4", ":", "2", "'">>)>>])

(* A path with an empty segment, and a value that ends in a blank. *)
MCEnviron == <<[key |-> "PATH", value |-> <<"bin", ":", ":", "usr">>],
               [key |-> "LANG", value |-> <<"c", " ">>]>>

Symmetry == Permutations(Proc)
=============================================================================
