----------------------------- MODULE RunCommand -----------------------------
(***************************************************************************)
(* tpbcli run (src/src/tpbcli/run): the command line is read token by       *)
(* token by the stack parser of tpbcli-argp.c, and every token changes the  *)
(* driver at once, except --kargs-dim, which is kept until the next         *)
(* --kernel or the end, and the wrappers, which are bound to a handle at    *)
(* the same points.  The tokens are the environment's choice.               *)
(*                                                                         *)
(* asked is history: what the line said, one record per --kernel.           *)
(***************************************************************************)
EXTENDS Driver

CONSTANTS Args,      \* <<p, v>>: the settings --kargs may give
          Sweeps,    \* <<p, cfg>>: the dimensions --kargs-dim may give
          EnvArgs,   \* <<e, v>>: the settings --kenvs may give
          EnvSweeps, \* <<e, cfg>>: the dimensions --kenvs-dim may give
          Apps,      \* wrapper executables
          MaxDims,   \* MAX_DIM_CONFIGS
          MaxLinks,  \* MAX_WRAPPER_LINKS
          MaxTok,    \* tokens on a line
          MaxValues  \* TPBM_DIM_MAX_VALUES

\* A list has values, a recurrence a limit on their number.
ASSUME RunAssumption ==
  /\ MaxValues \in Nat
  /\ \A dim \in Sweeps \cup EnvSweeps :
       /\ dim[2].type = "list" => dim[2].vals \in Seq(Int)
       /\ dim[2].type = "recur" => dim[2].nlim \in Int

VARIABLES stack, chosen, dims, global, segment, og, ntok, asked

runVars == <<stack, chosen, dims, global, segment, og, ntok, asked>>

-----------------------------------------------------------------------------
(* Dimensions (tpbcli-run-dim.c).                                           *)

\* The values are doubles in the code; here they are integers whose quotients
\* are exact or below min.  Division by zero ends the sequence.
Next1(cfg, v) ==
  CASE cfg.op = "add" -> v + cfg.x
    [] cfg.op = "sub" -> v - cfg.x
    [] cfg.op = "mul" -> v * cfg.x
    [] cfg.op = "div" -> IF cfg.x = 0 THEN cfg.min - 1 ELSE v \div cfg.x
    [] cfg.op = "pow" -> v ^ cfg.x

\* What the parser of --kargs-dim and --kenvs-dim accepts: a list that is not
\* empty, or a recurrence that starts inside its range.  Any other form, the
\* removed linear one and nested dimensions too, is refused.
ParseList(cfg) == cfg.vals # <<>>

ParseDimRecur(cfg) == cfg.min <= cfg.st /\ cfg.st <= cfg.max

ParseDim(cfg) ==
  \/ cfg.type = "list" /\ ParseList(cfg)
  \/ cfg.type = "recur" /\ ParseDimRecur(cfg)

\* A list is taken as it stands.  A recurrence runs until it leaves
\* [min, max] or has nlim values (nlim <= 0: TPBM_DIM_MAX_VALUES).
GenerateValues(cfg) ==
  IF cfg.type = "list" THEN cfg.vals
  ELSE LET cap == IF cfg.nlim > 0 THEN cfg.nlim ELSE MaxValues
           v[n \in 1..cap] == IF n = 1 THEN cfg.st ELSE Next1(cfg, v[n - 1])
           in(n) == cfg.min <= v[n] /\ v[n] <= cfg.max
           len == CHOOSE n \in 0..cap : /\ \A i \in 1..n : in(i)
                                        /\ n < cap => ~in(n + 1)
       IN [i \in 1..len |-> v[i]]

\* expand_dim_handles and expand_env_dim_handles: the first value goes to the
\* current handle, each further one to a copy of it.  The first error ends the
\* expansion; the handle just added stays.
Expand(d, k, n, Set(_, _)) ==
  FoldLeft(LAMBDA acc, i :
             IF acc.err THEN acc
             ELSE IF i = 1 THEN Set(acc, 1)
             ELSE Set(CopyHdlFrom(AddHandle(acc, k), d.cur), i),
           [d EXCEPT !.err = FALSE], [i \in 1..n |-> i])

ExpandDim(d, k, dim) ==
  LET vals == GenerateValues(dim[2])
  IN Expand(d, k, Len(vals), LAMBDA acc, i : SetHdlKarg(acc, dim[1], vals[i]))

ExpandEnvDim(d, k, dim) ==
  LET vals == GenerateValues(dim[2])
  IN Expand(d, k, Len(vals), LAMBDA acc, i : SetHdlEnv(acc, dim[1], vals[i]))

\* Mutant of Combination: the remainder is divided by the current dimension's
\* count before it is used.
CombinationDividedFirst(ds, c, d) ==
  LET n == Len(ds)
      vals == [j \in 1..n |-> GenerateValues(ds[j][2])]
      rem[j \in 1..n] == IF j = n THEN c \div Len(vals[n]) ELSE rem[j + 1] \div Len(vals[j])
  IN FoldLeft(LAMBDA acc, j : SetHdlKarg(acc, ds[j][1], vals[j][(rem[j] % Len(vals[j])) + 1]),
              d, [j \in 1..n |-> n + 1 - j])

\* Combination c of the dimensions ds, the last one running fastest.  The
\* values are set from the last dimension to the first and a refused one is
\* only logged.
Combination(ds, c, d) ==
  LET n == Len(ds)
      vals == [j \in 1..n |-> GenerateValues(ds[j][2])]
      rem[j \in 1..n] == IF j = n THEN c ELSE rem[j + 1] \div Len(vals[j + 1])
  IN FoldLeft(LAMBDA acc, j : SetHdlKarg(acc, ds[j][1], vals[j][(rem[j] % Len(vals[j])) + 1]),
              d, [j \in 1..n |-> n + 1 - j])

ExpandCartesian(d, k, ds) ==
  LET total == FoldLeft(LAMBDA t, dim : t * Len(GenerateValues(dim[2])), 1, ds)
  IN FoldLeft(LAMBDA acc, c :
                IF c = 0 THEN Combination(ds, 0, acc)
                ELSE Combination(ds, c, CopyHdlFrom(AddHandle(acc, k), d.cur)),
              d, [c \in 1..total |-> c - 1])

\* A failed expansion is logged and the run goes on.
FlushPendingDims(d, ds) ==
  CASE Len(ds) = 0 -> d
    [] Len(ds) = 1 -> ExpandDim(d, d.hdl[d.cur].kernel, ds[1])
    [] OTHER -> ExpandCartesian(d, d.hdl[d.cur].kernel, ds)

-----------------------------------------------------------------------------
(* Wrappers.                                                                *)

Chain == (IF og THEN <<>> ELSE global) \o segment

\* Mutant of BindWrappers: the chain goes to the first handle.
BindWrappersFirst(d) == IF d.hdl = <<>> THEN d ELSE SetHdlWrappers(d, 1, Chain)

\* The chain is put together in an array of MAX_WRAPPER_LINKS elements, which
\* the two parts together may exceed.
BindWrappers(d) ==
  IF d.hdl = <<>> THEN d
  ELSE [SetHdlWrappers(d, Len(d.hdl), Chain) EXCEPT
         !.bad = IF Len(Chain) > MaxLinks THEN @ \cup {"overflow"} ELSE @]

-----------------------------------------------------------------------------
(* The stack parser (tpbcli-argp.c) on the tree tpbcli_run builds.          *)

Tree == [node \in {"root", "run", "--kernel", "--wrapper"} |->
          CASE node = "root" -> {"run"}
            [] node = "run" -> {"--kernel", "--wrapper", "--timer", "--outargs",
                                "--dry-run", "--help"}
            [] node = "--kernel" -> {"--kargs", "--kargs-dim", "--kenvs", "--kenvs-dim",
                                     "-og", "--help"}
            [] node = "--wrapper" -> {"--wrapper-args"}]

Tokens == UNION { Tree[n] : n \in DOMAIN Tree } \ {"run"}
Once == {"-og", "--timer", "--outargs", "--dry-run"}   \* max_chosen 1

\* The innermost open option that has tok as a child; 0 when none has.
Level(tok) == LET on == { i \in DOMAIN stack : tok \in Tree[stack[i]] }
              IN IF on = {} THEN 0 ELSE CHOOSE i \in on : \A j \in on : j <= i

\* The counts of the children of the options that are popped start again.
Popped(tok) == { n \in chosen : \A i \in (Level(tok) + 1)..Len(stack) : n \notin Tree[stack[i]] }

Accepted(tok) == /\ Level(tok) > 0
                 /\ ~(tok \in Once /\ tok \in Popped(tok))

\* What the parser does with a token it accepts.
Enter(tok) ==
  /\ pc = "parse" /\ ntok < MaxTok
  /\ Accepted(tok)
  /\ stack' = SubSeq(stack, 1, Level(tok)) \o (IF tok \in DOMAIN Tree THEN <<tok>> ELSE <<>>)
  /\ chosen' = Popped(tok) \cup {tok}
  /\ ntok' = ntok + 1

\* An unknown token, one given too often, or a value its parse function
\* refuses ends the command before anything runs.
Refuse(tok) ==
  /\ pc = "parse" /\ ntok < MaxTok
  /\ ~Accepted(tok)
  /\ pc' = "failed"
  /\ UNCHANGED <<drv, runVars>>

\* --help prints and leaves (TPBE_EXIT_ON_HELP).
Help ==
  /\ Enter("--help")
  /\ pc' = "failed"
  /\ UNCHANGED <<drv, dims, global, segment, og, asked>>

-----------------------------------------------------------------------------
\* The kernels named on the line are registered before it is parsed; one that
\* is missing ends the command.
RegisterKernels ==
  /\ pc = "register"
  /\ \E names \in SUBSET Kernels : pc' = IF names \subseteq KernelAll THEN "parse" ELSE "failed"
  /\ UNCHANGED <<drv, runVars>>

(* The parse functions of tpbcli-run.c.                                     *)

Segment(k, first) == [kernel |-> k, first |-> first, args |-> <<>>, dims |-> <<>>,
                      envs |-> {}, swept |-> FALSE, og |-> FALSE, links |-> <<>>]
Asked(f, v) == [asked EXCEPT ![Len(asked)][f] = v]
Cur == asked[Len(asked)]

\* Mutant of ParseKernel: the dimensions are expanded before the wrappers are
\* bound, as at the end of the line.
ParseKernelFlushFirst(k) ==
  LET d == BindWrappers(FlushPendingDims(drv, dims))
  IN /\ Enter("--kernel")
     /\ drv' = AddHandle(d, k)
     /\ dims' = <<>> /\ segment' = <<>> /\ og' = FALSE
     /\ pc' = IF drv'.err THEN "failed" ELSE "parse"
     /\ asked' = IF drv'.err THEN asked ELSE Append(asked, Segment(k, Len(drv'.hdl)))
     /\ UNCHANGED global

\* The previous segment is closed: its wrappers go to the last handle, which
\* its dimensions then copy.
ParseKernel(k) ==
  LET d == FlushPendingDims(BindWrappers(drv), dims)
  IN /\ Enter("--kernel")
     /\ drv' = AddHandle(d, k)
     /\ dims' = <<>> /\ segment' = <<>> /\ og' = FALSE
     /\ pc' = IF drv'.err THEN "failed" ELSE "parse"
     /\ asked' = IF drv'.err THEN asked ELSE Append(asked, Segment(k, Len(drv'.hdl)))
     /\ UNCHANGED global

ParseKargs(a) ==
  /\ Enter("--kargs")
  /\ drv' = SetHdlKarg(drv, a[1], a[2])
  /\ pc' = IF drv'.err THEN "failed" ELSE "parse"
  /\ asked' = Asked("args", Append(Cur.args, a))
  /\ UNCHANGED <<dims, global, segment, og>>

ParseKargsDim(dim) ==
  /\ Enter("--kargs-dim")
  /\ IF Len(dims) < MaxDims /\ ParseDim(dim[2])
       THEN dims' = Append(dims, dim) /\ pc' = "parse" /\ asked' = Asked("dims", dims')
       ELSE pc' = "failed" /\ UNCHANGED <<dims, asked>>
  /\ UNCHANGED <<drv, global, segment, og>>

ParseKenvs(a) ==
  /\ Enter("--kenvs")
  /\ drv' = SetHdlEnv(drv, a[1], a[2])
  /\ asked' = Asked("envs", Cur.envs \cup {a[1]})
  /\ UNCHANGED <<dims, global, segment, og, pc>>

\* Unlike --kargs-dim this expands at once, and the last handle it makes is
\* the one that later options change.
ParseKenvsDim(dim) ==
  /\ Enter("--kenvs-dim")
  /\ IF ParseDim(dim[2])
       THEN /\ drv' = ExpandEnvDim(drv, Cur.kernel, dim)
            /\ pc' = IF drv'.err THEN "failed" ELSE "parse"
            /\ asked' = [Asked("envs", Cur.envs \cup {dim[1]}) EXCEPT ![Len(asked)].swept = TRUE]
       ELSE pc' = "failed" /\ UNCHANGED <<drv, asked>>
  /\ UNCHANGED <<dims, global, segment, og>>

ParseOverrideGlobal ==
  /\ Enter("-og")
  /\ og' = TRUE
  /\ asked' = Asked("og", TRUE)
  /\ UNCHANGED <<drv, dims, global, segment, pc>>

\* Before the first --kernel a wrapper joins the global chain, afterwards the
\* chain of the segment.  (g and s are the two chains after the token.)
WrapperToken(tok, g, s) ==
  /\ Enter(tok)
  /\ IF asked = <<>>
       THEN global' = g /\ UNCHANGED <<segment, asked>>
       ELSE segment' = s /\ asked' = Asked("links", s) /\ UNCHANGED global
  /\ UNCHANGED <<drv, dims, og>>

ParseWrapper(a) ==
  LET link == [app |-> a, args |-> 0]
      chain == IF asked = <<>> THEN global ELSE segment
  IN \/ Len(chain) < MaxLinks /\ pc' = "parse"
        /\ WrapperToken("--wrapper", Append(global, link), Append(segment, link))
     \/ Len(chain) >= MaxLinks /\ pc' = "failed"
        /\ WrapperToken("--wrapper", global, segment)

\* The fragment is appended to the arguments of the latest link (only their
\* number is kept).
ParseWrapperArgs ==
  LET More(c) == IF c = <<>> THEN c ELSE [c EXCEPT ![Len(c)].args = @ + 1]
  IN /\ WrapperToken("--wrapper-args", More(global), More(segment))
     /\ UNCHANGED pc

\* --timer, --outargs and --dry-run set a flag each, which the handles do not
\* depend on; an unknown timer or output key is refused.
ParseSetting(tok) ==
  /\ Enter(tok)
  /\ pc' \in {"parse", "failed"}
  /\ UNCHANGED <<drv, dims, global, segment, og, asked>>

\* The end of the line: --kernel is mandatory; the last segment is closed by
\* expanding its dimensions and binding its wrappers to the last handle.
EndOfLine ==
  /\ pc = "parse"
  /\ IF asked = <<>>
       THEN pc' = "failed" /\ UNCHANGED <<drv, dims, segment, og>>
       ELSE /\ drv' = BindWrappers(FlushPendingDims(drv, dims))
            /\ dims' = <<>> /\ segment' = <<>> /\ og' = FALSE
            /\ pc' = "launch"
  /\ UNCHANGED <<stack, chosen, global, ntok, asked>>

InitRun ==
  /\ stack = <<"root", "run">> /\ chosen = {"run"} /\ ntok = 0
  /\ dims = <<>> /\ global = <<>> /\ segment = <<>> /\ og = FALSE /\ asked = <<>>

NextRun ==
  \/ RegisterKernels
  \/ \E k \in KernelAll : ParseKernel(k)
  \/ \E a \in Args : ParseKargs(a)
  \/ \E dim \in Sweeps : ParseKargsDim(dim)
  \/ \E a \in EnvArgs : ParseKenvs(a)
  \/ \E dim \in EnvSweeps : ParseKenvsDim(dim)
  \/ ParseOverrideGlobal
  \/ \E a \in Apps : ParseWrapper(a)
  \/ ParseWrapperArgs
  \/ \E tok \in {"--timer", "--outargs", "--dry-run"} : ParseSetting(tok)
  \/ Help
  \/ \E tok \in Tokens : Refuse(tok)
  \/ EndOfLine

\* One process that runs tpbcli run.
RunSpec ==
  drv = Fresh /\ pc = "register" /\ InitRun /\ [][NextRun]_<<drv, pc, runVars>>

-----------------------------------------------------------------------------
(* Properties.                                                              *)

\* Segment s is closed: nothing on the line can still belong to it.
Closed(s) == s < Len(asked) \/ pc = "launch"
HandlesOf(s) ==
  SubSeq(drv.hdl, asked[s].first,
         IF s < Len(asked) THEN asked[s + 1].first - 1 ELSE Len(drv.hdl))

\* The value of p that the --kargs of segment s leave, the last one winning.
Base(s, p) ==
  LET set == { i \in DOMAIN asked[s].args : asked[s].args[i][1] = p }
  IN IF set = {} THEN Arg(asked[s].kernel, p).value
     ELSE asked[s].args[CHOOSE i \in set : \A j \in set : j <= i][2]

\* A segment whose sweep is well formed: different parameters of the kernel,
\* every value within its limits.
Proper(s) ==
  LET ds == asked[s].dims
  IN /\ ~asked[s].swept
     /\ \A i, j \in DOMAIN ds : i # j => ds[i][1] # ds[j][1]
     /\ \A i \in DOMAIN ds :
          /\ ds[i][1] \in ArgNames(asked[s].kernel)
          /\ \A v \in Range(GenerateValues(ds[i][2])) :
               LET l == Arg(asked[s].kernel, ds[i][1]).lims
               IN l # <<>> => l[1] <= v /\ v <= l[2]

\* "TPBench builds the Cartesian product of all those dimensions": the handles
\* of a closed segment are exactly the combinations of its dimensions, each
\* once, the first dimension slowest, and all other arguments of every handle
\* are what --kargs set or the default: the copies are made of the handle
\* that --kargs changed (tpb_driver_copy_hdl_from, as tpbcli_run_argp_EN.md:100
\* has it, "a common base across all dim combinations").  The same document
\* says otherwise further on; see LaterHandlesKeepDefaults.
SweepIsProduct ==
  \A s \in DOMAIN asked : Closed(s) /\ Proper(s) =>
    LET ds == asked[s].dims
        hs == HandlesOf(s)
        swept == { ds[i][1] : i \in DOMAIN ds }
        values(i) == GenerateValues(ds[i][2])
        place(h, i) == CHOOSE n \in DOMAIN values(i) : values(i)[n] = h.args[ds[i][1]]
        before(g, h) == \E i \in DOMAIN ds : /\ place(g, i) < place(h, i)
                                             /\ \A j \in 1..(i - 1) : place(g, j) = place(h, j)
    IN /\ Len(hs) = FoldLeft(LAMBDA t, i : t * Len(values(i)), 1, [i \in DOMAIN ds |-> i])
       /\ \A n \in DOMAIN hs :
            /\ \A i \in DOMAIN ds : hs[n].args[ds[i][1]] \in Range(values(i))
            /\ \A p \in DOMAIN hs[n].args \ swept : hs[n].args[p] = Base(s, p)
            /\ n > 1 => before(hs[n - 1], hs[n])

\* "New handle; does not inherit `--kargs` from [0]" (tpbcli_run_argp_EN.md:447,
\* also 400, 450 and 479): the handles a dimension adds carry the defaults of
\* the kernel in what is not swept.  The code does not keep this: it copies.
LaterHandlesKeepDefaults ==
  \A s \in DOMAIN asked : Closed(s) /\ Proper(s) =>
    LET hs == HandlesOf(s)
        swept == { d[1] : d \in Range(asked[s].dims) }
    IN \A n \in 2..Len(hs) : \A p \in DOMAIN hs[n].args \ swept :
         hs[n].args[p] = Arg(asked[s].kernel, p).value

\* The wrappers of a segment, after the global ones unless -og was given,
\* reach the last handle of the segment, and all of them when another
\* --kernel follows and the segment sweeps no environment variable.
WrappersReachHandles ==
  \A s \in DOMAIN asked : Closed(s) /\ "overflow" \notin drv.bad =>
    LET hs == HandlesOf(s)
        chain == (IF asked[s].og THEN <<>> ELSE global) \o asked[s].links
    IN \A n \in DOMAIN hs :
         (n = Len(hs) \/ (s < Len(asked) /\ ~asked[s].swept)) => hs[n].wraps = chain

\* "Wrappers before the first --kernel apply to every kernel": every handle
\* of a closed segment carries its chain.  The code does not keep this for
\* the last segment, nor for one that sweeps an environment variable.
WrappersReachAll ==
  \A s \in DOMAIN asked : Closed(s) =>
    \A n \in DOMAIN HandlesOf(s) :
      HandlesOf(s)[n].wraps = (IF asked[s].og THEN <<>> ELSE global) \o asked[s].links

\* What follows a --kernel never changes the handles of the segments before
\* it: no option, expansion or binding reaches back over a --kernel.
SegmentsStay ==
  [][ asked # <<>> => \A i \in 1..(Cur.first - 1) : drv'.hdl[i] = drv.hdl[i] ]_<<drv, asked>>
=============================================================================
