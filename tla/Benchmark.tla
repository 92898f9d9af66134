----------------------------- MODULE Benchmark ------------------------------
(***************************************************************************)
(* tpbcli benchmark (src/src/tpbcli/benchmark): one handle per batch of the *)
(* suite, the handles of the previous batch reset first, the metrics of     *)
(* each batch read back from the task records, and the scores computed from *)
(* them at the end.  A number is a fraction <<n, d>>, NaN stands for NAN.   *)
(***************************************************************************)
EXTENDS Driver

CONSTANTS Suites,    \* [batches, scores]: the suites a run may be given
          TaskLists, \* the task records a batch may leave
          NaN

VARIABLES suite, at, vres, ran, score

benchVars == <<suite, at, vres, ran, score>>

-----------------------------------------------------------------------------
(* Numbers, metrics and scores.                                             *)

Add(x, y) == <<x[1] * y[2] + y[1] * x[2], x[2] * y[2]>>
Mul(x, y) == <<x[1] * y[1], x[2] * y[2]>>
Div(x, y) == <<x[1] * y[2], x[2] * y[1]>>
Sum(xs) == FoldLeft(Add, <<0, 1>>, xs)
Mean(xs) == Div(Sum(xs), <<Len(xs), 1>>)

\* The YAML reducers; an unknown one falls back to the mean.
Reduce(reducer, xs) ==
  CASE reducer = "min" -> CHOOSE x \in Range(xs) : \A y \in Range(xs) : x[1] <= y[1]
    [] reducer = "max" -> CHOOSE x \in Range(xs) : \A y \in Range(xs) : x[1] >= y[1]
    [] OTHER -> Mean(xs)

\* load_metrics_from_rafdb: the mean over the readable entry-point tasks that
\* have the metric with at least one value.
LoadMetric(tasks, reducer) ==
  LET use == SelectSeq(tasks, LAMBDA t : t.readable /\ ~t.derived /\ t.values # <<>>)
  IN IF use = <<>> THEN NaN
     ELSE Mean([i \in DOMAIN use |-> Reduce(reducer, use[i].values)])

ApplyModifier(mod, xs) ==
  IF xs = <<>> THEN NaN ELSE
  CASE mod = "raw" -> xs[1]
    [] mod = "sum" -> Sum(xs)
    [] mod = "mul" -> FoldLeft(Mul, <<1, 1>>, xs)
    [] mod = "mean" -> Mean(xs)
    [] mod = "div" -> IF \E i \in 2..Len(xs) : xs[i][1] = 0 THEN NaN
                      ELSE FoldLeft(Div, xs[1], Tail(xs))
    [] OTHER -> NaN

\* A reference that names a batch result or a score of the suite; any other
\* one (not written as a reference, an unknown type, id or index) is NaN.
Resolves(ref) ==
  \/ ref[1] = "batch" /\ ref[2] \in DOMAIN suite.batches
  \/ ref[1] = "score" /\ ref[2] \in DOMAIN suite.scores

\* Mutant of CalculateScore: a score used by another one is read as it stands
\* instead of being computed first.
CalculateInOrder(sc, i) ==
  LET def == suite.scores[i]
      val(ref) == IF ~Resolves(ref) THEN NaN
                  ELSE IF ref[1] = "batch" THEN vres[ref[2]] ELSE sc[ref[2]].value
      args == [j \in DOMAIN def.args |-> val(def.args[j])]
  IN [sc EXCEPT ![i] = [done |-> TRUE,
                        value |-> IF NaN \in Range(args) THEN NaN
                                  ELSE ApplyModifier(def.mod, args)]]

\* calculate_score: the scores sc after score i has been computed.  References
\* to other scores are computed on the way and kept; the first argument that
\* is NaN ends it.
RECURSIVE CalculateScore(_, _)
CalculateScore(sc, i) ==
  LET def == suite.scores[i]
      step(acc, ref) ==
        IF acc.nan THEN acc
        ELSE LET other == Resolves(ref) /\ ref[1] = "score"
                 sc2 == IF other THEN CalculateScore(acc.sc, ref[2]) ELSE acc.sc
                 v == CASE other -> sc2[ref[2]].value
                        [] ~Resolves(ref) -> NaN
                        [] OTHER -> vres[ref[2]]
             IN [sc |-> sc2, args |-> Append(acc.args, v), nan |-> v = NaN]
      res == FoldLeft(step, [sc |-> sc, args |-> <<>>, nan |-> FALSE], def.args)
  IN IF sc[i].done THEN sc
     ELSE [res.sc EXCEPT ![i] = [done |-> TRUE,
                                 value |-> IF res.nan THEN NaN
                                           ELSE ApplyModifier(def.mod, res.args)]]

-----------------------------------------------------------------------------
(* The suite, batch by batch.                                               *)

\* tpb_bench_yaml_load clears every batch, so a result starts at zero.
Load ==
  /\ pc = "load"
  /\ suite' \in Suites
  /\ vres' = [i \in DOMAIN suite'.batches |-> <<0, 1>>]
  /\ ran' = [i \in DOMAIN suite'.batches |-> "no"]
  /\ score' = [i \in DOMAIN suite'.scores |-> [done |-> FALSE, value |-> <<0, 1>>]]
  /\ pc' = "batch" /\ at' = 1
  /\ UNCHANGED drv

\* Before every batch but the first the handles are reset.  Freeing an array
\* twice aborts the process (external: the allocator detects it).
Reset ==
  /\ pc = "batch" /\ at <= Len(suite.batches)
  /\ \E junk \in BOOLEAN :
       drv' = IF at = 1 THEN drv ELSE [ResetHandles(drv) EXCEPT !.junk = junk]
  /\ pc' = IF "free" \in drv'.bad THEN "aborted" ELSE "handle"
  /\ UNCHANGED benchVars

\* run_batch up to the execution: the handle, its arguments and environment
\* (a refused one is only logged) and its single wrapper.
Prepare ==
  LET b == suite.batches[at]
      d == AddHandle(drv, b.kernel)
      withArgs == FoldLeft(LAMBDA acc, a : SetHdlKarg(acc, a[1], a[2]), d, b.kargs)
      withWrap == IF b.wrapper = <<>> THEN withArgs
                  ELSE SetHdlWrappers(withArgs, withArgs.cur, b.wrapper)
  IN /\ pc = "handle"
     /\ IF d.err
          THEN drv' = d /\ pc' = "batch" /\ at' = at + 1
          ELSE /\ drv' = FoldLeft(LAMBDA acc, e : SetHdlEnv(acc, e[1], e[2]), withWrap, b.kenvs)
               /\ pc' = "run" /\ UNCHANGED at
     /\ UNCHANGED <<suite, vres, ran, score>>

\* The execution and the recording of the batch: opening or closing the batch
\* fails (the benchmark ends), the kernel fails (the next batch follows, the
\* results stay as they are), or the metric is read back.
RunBatch ==
  /\ pc = "run"
  /\ \/ /\ pc' = "fatal"
        /\ UNCHANGED <<at, vres, ran>>
     \/ /\ pc' = "batch" /\ at' = at + 1
        /\ ran' = [ran EXCEPT ![at] = "failed"]
        /\ UNCHANGED vres
     \/ \E tasks \in TaskLists :
          /\ pc' = "batch" /\ at' = at + 1
          /\ ran' = [ran EXCEPT ![at] = "ok"]
          /\ vres' = [vres EXCEPT ![at] = LoadMetric(tasks, suite.batches[at].reducer)]
  /\ UNCHANGED <<drv, suite, score>>

\* tpb_bench_score_calculate_all: the scores in the order of the file.  A
\* cycle of references recurses without end (external: the stack overflows).
Scores ==
  /\ pc = "batch" /\ at = Len(suite.batches) + 1
  /\ IF suite.cyclic
       THEN pc' = "aborted" /\ UNCHANGED score
       ELSE /\ score' = FoldLeft(CalculateScore, score, [i \in DOMAIN score |-> i])
            /\ pc' = "scored"
  /\ UNCHANGED <<drv, suite, at, vres, ran>>

InitBench ==
  /\ suite = [batches |-> <<>>, scores |-> <<>>, cyclic |-> FALSE]
  /\ at = 0 /\ vres = <<>> /\ ran = <<>> /\ score = <<>>

NextBench == Load \/ Reset \/ Prepare \/ RunBatch \/ Scores

-----------------------------------------------------------------------------
(* Properties.                                                              *)

\* The first batch of a kernel is set up with the kernel's own limits: a freed
\* limit is read, or freed again, only from the second batch of one kernel on.
FirstBatchSafe ==
  drv.bad \cap {"read", "free"} # {} =>
    \E i, j \in DOMAIN suite.batches : /\ i < j /\ j <= at
                                       /\ suite.batches[i].kernel = suite.batches[j].kernel

\* "DO NOT FREE ANYTHING IN hdl->kernel": resetting the handles leaves the
\* registered kernels their limits.  The code does not keep this.
CleanKeepsKernel == drv.live = Fresh.live

\* The value of a score by its definition, whatever the order of the scores
\* in the file.
RECURSIVE Meaning(_)
Meaning(i) ==
  LET def == suite.scores[i]
      val(ref) == IF ~Resolves(ref) THEN NaN
                  ELSE IF ref[1] = "batch" THEN vres[ref[2]] ELSE Meaning(ref[2])
      args == [j \in DOMAIN def.args |-> val(def.args[j])]
  IN IF NaN \in Range(args) THEN NaN ELSE ApplyModifier(def.mod, args)

\* Every score is computed as its definition says from the results of the
\* batches, also when it refers to a score further down in the file.
ScoresFollowDefinition ==
  pc = "scored" => \A i \in DOMAIN score : score[i].done /\ score[i].value = Meaning(i)
=============================================================================
