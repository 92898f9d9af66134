------------------------------- MODULE Driver -------------------------------
(***************************************************************************)
(* The driver of corelib (src/src/corelib/tpb-driver.c): the kernels a      *)
(* process has registered, and the list of handles, one for each execution  *)
(* asked for.  The driver is one block of static variables that the         *)
(* commands call into, so it is modelled as a record d and operators that   *)
(* return the next one:                                                     *)
(*   d.hdl   handle_list, d.cur the index of current_rthdl (0: none)        *)
(*   d.live  the limit arrays (plims) that are allocated                    *)
(*   d.junk  what a comparison with a freed array yields                    *)
(*   d.bad   the undefined behaviour met so far ("read" or "free" of a      *)
(*           freed array)                                                   *)
(*   d.err   whether the last call returned an error                        *)
(* Argument values are integers; the other data types differ in parsing     *)
(* only.                                                                    *)
(***************************************************************************)
EXTENDS Integers, Sequences, FiniteSets, SequencesExt

\* Calls[k] is what the register function of kernel k does: a sequence of
\* [fn, name, value, lims], fn being "arg" or "out", value the default and
\* lims <<>> or <<min, max>>.
CONSTANT Calls

VARIABLES drv, \* the driver of the process
          pc   \* where its command is

Kernels == DOMAIN Calls

-----------------------------------------------------------------------------
(* Registration.                                                            *)

Empty == [args |-> <<>>, outs |-> {}, ok |-> TRUE]

NameTaken(ker, name) ==
  name \in ker.outs \/ \E i \in DOMAIN ker.args : ker.args[i].name = name

\* A range whose ends are swapped is refused.
AddArg(ker, c) ==
  IF NameTaken(ker, c.name) \/ (c.lims # <<>> /\ c.lims[1] > c.lims[2])
    THEN [ker EXCEPT !.ok = FALSE]
    ELSE [ker EXCEPT !.args = Append(@, [name |-> c.name, value |-> c.value, lims |-> c.lims])]

AddOutput(ker, c) ==
  IF NameTaken(ker, c.name)
    THEN [ker EXCEPT !.ok = FALSE]
    ELSE [ker EXCEPT !.outs = @ \cup {c.name}]

\* A register function stops at the first call that fails, before
\* tpb_k_finalize_pli counts the kernel.
Register(k) ==
  FoldLeft(LAMBDA ker, c : IF ~ker.ok THEN ker
                           ELSE IF c.fn = "arg" THEN AddArg(ker, c) ELSE AddOutput(ker, c),
           Empty, Calls[k])

KernelAll == { k \in Kernels : Register(k).ok }

ArgNames(k) == { Register(k).args[i].name : i \in DOMAIN Register(k).args }
Arg(k, p) == CHOOSE a \in Range(Register(k).args) : a.name = p

\* The limit arrays tpb_k_add_arg allocated for kernel k.
Limits(k) == { <<k, p>> : p \in { q \in ArgNames(k) : Arg(k, q).lims # <<>> } }

Fresh == [hdl |-> <<>>, cur |-> 0, live |-> UNION { Limits(k) : k \in KernelAll },
          junk |-> FALSE, bad |-> {}, err |-> FALSE]

-----------------------------------------------------------------------------
(* Handles.                                                                 *)

NewHandle(k) == [kernel |-> k, args |-> [p \in ArgNames(k) |-> Arg(k, p).value],
                 envs |-> <<>>, wraps |-> <<>>]

\* The arguments are copied with memcpy, so the handle and the kernel share
\* the limit arrays.
AddHandle(d, k) ==
  IF k \in KernelAll
    THEN [d EXCEPT !.hdl = Append(@, NewHandle(k)), !.cur = Len(d.hdl) + 1, !.err = FALSE]
    ELSE [d EXCEPT !.err = TRUE]

\* Values are matched by name; the environment is taken over when the source
\* has one, the wrapper chain always.
CopyHdlFrom(d, src) ==
  LET s == d.hdl[src]
      c == d.hdl[d.cur]
  IN [d EXCEPT !.err = FALSE,
       !.hdl[d.cur] = [c EXCEPT !.args = [p \in DOMAIN @ |-> IF p \in DOMAIN s.args
                                                             THEN s.args[p] ELSE @[p]],
                                !.envs = IF DOMAIN s.envs # {} THEN s.envs ELSE @,
                                !.wraps = s.wraps]]

\* An unknown name or a value outside the range is refused and changes
\* nothing.  Only ranges are checked here, lists are not.
SetHdlKarg(d, p, v) ==
  LET k == d.hdl[d.cur].kernel
      lims == Arg(k, p).lims
      freed == lims # <<>> /\ <<k, p>> \notin d.live
      fits == CASE lims = <<>> -> TRUE
                [] freed -> d.junk
                [] OTHER -> lims[1] <= v /\ v <= lims[2]
  IN IF d.cur = 0 \/ p \notin ArgNames(k) THEN [d EXCEPT !.err = TRUE]
     ELSE [d EXCEPT !.err = ~fits, !.bad = IF freed THEN @ \cup {"read"} ELSE @,
                    !.hdl[d.cur].args[p] = IF fits THEN v ELSE @]

SetHdlEnv(d, e, v) ==
  IF d.cur = 0 THEN [d EXCEPT !.err = TRUE]
  ELSE [d EXCEPT !.err = FALSE,
         !.hdl[d.cur].envs = [x \in DOMAIN @ \cup {e} |-> IF x = e THEN v ELSE @[x]]]

SetHdlWrappers(d, i, links) == [d EXCEPT !.err = FALSE, !.hdl[i].wraps = links]

\* Freeing the arguments of a handle frees the limit arrays it shares with
\* its kernel.
CleanHandle(d, h) ==
  LET l == Limits(h.kernel)
  IN [d EXCEPT !.live = @ \ l, !.bad = IF l \subseteq d.live THEN @ ELSE @ \cup {"free"}]

\* Mutant of ResetHandles: the list is cleaned but not emptied.
ResetHandlesKeepList(d) == [FoldLeft(CleanHandle, d, d.hdl) EXCEPT !.cur = 0]

ResetHandles(d) ==
  [FoldLeft(CleanHandle, d, d.hdl) EXCEPT !.hdl = <<>>, !.cur = 0]
=============================================================================
