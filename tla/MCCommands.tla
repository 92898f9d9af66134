----------------------------- MODULE MCCommands -----------------------------
(* Two kernels that register and one that declares a name twice; two swept  *)
(* arguments, one of them with a value that is refused; suites of up to     *)
(* three batches with scores that refer to each other.                      *)
EXTENDS Commands, TLC

Decl(fn, name, value, lims) == [fn |-> fn, name |-> name, value |-> value, lims |-> lims]

MCCalls ==
  "k1" :> <<Decl("arg", "n", 0, <<1, 4>>), Decl("arg", "m", 7, <<>>), Decl("out", "t", 0, <<>>)>>
  @@ "k2" :> <<Decl("arg", "n", 1, <<1, 2>>)>>
  @@ "k3" :> <<Decl("arg", "n", 1, <<>>), Decl("out", "n", 0, <<>>)>>

List(vals) == [type |-> "list", vals |-> vals]
Recur(op, x, st, min, max, nlim) ==
  [type |-> "recur", op |-> op, x |-> x, st |-> st, min |-> min, max |-> max, nlim |-> nlim]

MCArgs == { <<"n", 2>>, <<"m", 3>> }
MCSweeps == { <<"n", Recur("mul", 2, 1, 1, 4, 0)>>, <<"m", List(<<5, 6>>)>>,
              <<"n", Recur("add", 1, 5, 1, 4, 2)>> }
MCEnvArgs == { <<"E", 1>> }
MCEnvSweeps == { <<"E", List(<<1, 2>>)>>, <<"F", Recur("div", 2, 4, 2, 4, 3)>>,
                 <<"E", List(<<>>)>>, <<"E", [type |-> "linear"]>> }

B(k, kargs, wrapper, reducer) ==
  [kernel |-> k, kargs |-> kargs, kenvs |-> IF wrapper = <<>> THEN <<>> ELSE << <<"E", 1>> >>,
   wrapper |-> wrapper, reducer |-> reducer]
Batches ==
  { <<B(a, << <<"n", 2>> >>, <<>>, "min"), B(b, << <<"n", 3>> >>, <<>>, "mean"),
      B(c, <<>>, << [app |-> "w", args |-> 0] >>, "max")>> : a, b, c \in {"k1", "k2", "k3"} }
ScoreLists ==
  { << [mod |-> "div", args |-> << <<"score", 2>>, <<"score", 3>> >>],
       [mod |-> "sum", args |-> << <<"batch", 1>>, <<"score", 3>> >>],
       [mod |-> o, args |-> << <<"batch", 2>>, <<"batch", 3>> >>] >>
    : o \in {"mean", "mul", "raw"} }
  \cup { << [mod |-> "raw", args |-> << <<"score", 3>>, <<"batch", 1>> >>],
            [mod |-> "sum", args |-> << <<"batch", 1>>, <<"score", 4>> >>],
            [mod |-> "max", args |-> << <<"batch", 2>>, <<"batch", 3>> >>] >> }
MCSuites ==
  { [batches |-> b, scores |-> s, cyclic |-> FALSE] : b \in Batches, s \in ScoreLists }
  \cup { [batches |-> b, cyclic |-> TRUE, scores |->
            << [mod |-> "raw", args |-> << <<"score", 1>> >>] >>] : b \in Batches }

T(derived, readable, values) == [derived |-> derived, readable |-> readable, values |-> values]
MCTaskLists ==
  { << T(FALSE, TRUE, << <<2, 1>>, <<4, 1>> >>), T(TRUE, TRUE, << <<9, 1>> >>),
       T(FALSE, TRUE, << <<6, 1>> >>) >>,
    << T(FALSE, FALSE, << <<1, 1>> >>), T(FALSE, TRUE, <<>>) >>,
    << T(FALSE, TRUE, << <<0, 1>> >>) >> }
=============================================================================
