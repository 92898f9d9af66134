------------------------------- MODULE EnvVars -------------------------------
(***************************************************************************)
(* What a runtime environment declares and what becomes of it: merging the *)
(* declarations along an inheritance chain, the template files of `tpbcli  *)
(* rtenv new`, the shell fragment of `tpbcli rtenv load`, and the variables *)
(* a kernel is launched and recorded with (tpb-rtenv.c,                    *)
(* tpbcli-rtenv-template.c, tpbcli-rtenv-new.c, tpbcli-rtenv-load.c).      *)
(*                                                                         *)
(* A text is a sequence of tokens: ":", a blank, the quotes and words.     *)
(* Buffer sizes are left out; the limits on counts are parameters.         *)
(***************************************************************************)
EXTENDS Naturals, SequencesExt

CONSTANTS MaxApp,     \* TPBCLI_RTENV_MAX_APP
          MaxVar,     \* TPBCLI_RTENV_MAX_VAR
          MaxParts,   \* char *parts[64]
          ShellName   \* the words that are shell variable names

ASSUME EnvVarsAssumption ==
    MaxApp \in Nat /\ MaxVar \in Nat /\ MaxParts \in Nat

(* SequencesExt!FoldLeft, by recursion on the length. *)
Fold(op(_, _), base, s) ==
    LET f[i \in 0..Len(s)] == IF i = 0 THEN base ELSE op(f[i - 1], s[i]) IN f[Len(s)]

Colon == ":"
Blank == " "
Quotes == {"'", "\""}

NoSpec == [ok |-> TRUE, name |-> <<>>, inherit |-> <<>>, apps |-> <<>>, vars |-> <<>>]
Refused(spec) == [spec EXCEPT !.ok = FALSE]

App(name, version, note) == [name |-> name, version |-> version, note |-> note]
Var(key, value, on_set, on_get) ==
    [key |-> key, value |-> value, on_set |-> on_set, on_get |-> on_get]

-----------------------------------------------------------------------------
(* Merging: a later declaration replaces the earlier one of that name in   *)
(* its place; a new name is refused once the array is full.                *)

MergeAddVar(out, v) ==
    LET i == SelectInSeq(out.vars, LAMBDA w : w.key = v.key) IN
    CASE ~out.ok -> out
      [] out.ok /\ i # 0 -> [out EXCEPT !.vars[i] = v]
      [] out.ok /\ i = 0 /\ Len(out.vars) < MaxVar -> [out EXCEPT !.vars = Append(@, v)]
      [] OTHER -> Refused(out)

MergeAddApp(out, a) ==
    LET i == SelectInSeq(out.apps, LAMBDA b : b.name = a.name) IN
    CASE ~out.ok -> out
      [] out.ok /\ i # 0 -> [out EXCEPT !.apps[i] = a]
      [] out.ok /\ i = 0 /\ Len(out.apps) < MaxApp -> [out EXCEPT !.apps = Append(@, a)]
      [] OTHER -> Refused(out)

MergeRecordDelta(out, delta) ==
    Fold(MergeAddVar, Fold(MergeAddApp, out, delta.apps), delta.vars)

(* The declarations of a chain, from the oldest environment to the target. *)
MergeDeltas(deltas) == Fold(MergeRecordDelta, NoSpec, deltas)

(* tpb_rtenv_merged_find: the declaration of a key; <<>> when there is none. *)
MergedFind(merged, key) ==
    LET i == SelectInSeq(merged.vars, LAMBDA v : v.key = key)
    IN  IF i = 0 THEN <<>> ELSE <<merged.vars[i]>>

-----------------------------------------------------------------------------
(* Values that hold several segments *)

(* The first and the last mark around a part that starts with one. *)
Unquote(part) ==
    LET ends == {i \in 2..Len(part) : part[i] = part[1]} IN
    IF part[1] \in Quotes /\ ends # {}
      THEN SubSeq(part, 2, (CHOOSE i \in ends : \A j \in ends : j <= i) - 1)
      ELSE part

(* A quoted part ends at its closing mark, any other at a colon. *)
SplitToken(s, t) ==
    CASE s.part = <<>> /\ t = Colon -> s
      [] s.part = <<>> /\ t # Colon -> [s EXCEPT !.part = <<t>>]
      [] s.part # <<>> /\ s.part[1] \in Quotes /\ t = s.part[1] ->
             [parts |-> Append(s.parts, Append(s.part, t)), part |-> <<>>]
      [] s.part # <<>> /\ s.part[1] \notin Quotes /\ t = Colon ->
             [parts |-> Append(s.parts, s.part), part |-> <<>>]
      [] OTHER -> [s EXCEPT !.part = Append(@, t)]

(* Empty segments are dropped, and so is what comes after MaxParts parts.  *)
SplitColonQuoted(text) ==
    LET s == Fold(SplitToken, [parts |-> <<>>, part |-> <<>>], text)
        all == IF s.part = <<>> THEN s.parts ELSE Append(s.parts, s.part)
    IN  [i \in 1..IF Len(all) <= MaxParts THEN Len(all) ELSE MaxParts |-> Unquote(all[i])]

JoinColonParts(parts) ==
    Fold(LAMBDA text, i : text \o (IF i = 1 THEN <<>> ELSE <<Colon>>) \o parts[i],
             <<>>, [i \in DOMAIN parts |-> i])

-----------------------------------------------------------------------------
(* Template files: lines of a left-hand side and a text *)

Line(lhs, rhs) == [lhs |-> lhs, rhs |-> rhs]

(* Mutant of QuotedPart: a part with a blank is written as it is. *)
QuotedPartBare(part) == <<Colon>> \o part

QuotedPart(part) ==
    IF {Colon, Blank} \cap ToSet(part) # {} THEN <<Colon, "'">> \o part \o <<"'">>
                                            ELSE <<Colon>> \o part

VarLine(v) ==
    LET parts == SplitColonQuoted(JoinColonParts(SplitColonQuoted(v.value))) IN
    Line("var", Fold(LAMBDA text, part : text \o QuotedPart(part),
                         <<v.on_get, Colon, v.on_set, Colon, v.key>>, parts))

AppLine(a) == Line("application", a.name \o <<Colon>> \o a.version \o <<Colon>> \o a.note)

WriteTemplate(spec) ==
    <<Line("inherit_from", spec.inherit)>>
    \o (IF spec.name = <<>> THEN <<>> ELSE <<Line("name", spec.name)>>)
    \o [i \in DOMAIN spec.apps |-> AppLine(spec.apps[i])]
    \o [i \in DOMAIN spec.vars |-> VarLine(spec.vars[i])]

(* The blanks at the end of a line are cut. *)
Rtrim(text) ==
    LET kept == {i \in DOMAIN text : text[i] # Blank} IN
    SubSeq(text, 1, IF kept = {} THEN 0 ELSE CHOOSE i \in kept : \A j \in kept : j <= i)

AddApp(spec, parts) ==
    IF parts = <<>> \/ Len(spec.apps) >= MaxApp THEN Refused(spec)
    ELSE [spec EXCEPT !.apps =
              Append(@, App(parts[1], IF Len(parts) >= 2 THEN parts[2] ELSE <<>>,
                                      IF Len(parts) >= 3 THEN parts[3] ELSE <<>>))]

AddVar(spec, parts) ==
    IF \/ Len(parts) < 3 \/ Len(spec.vars) >= MaxVar
       \/ parts[1] \notin {<<"ignore">>, <<"warn">>, <<"fail">>, <<"overwrite">>}
       \/ parts[2] \notin {<<"ignore">>, <<"overwrite">>, <<"prepend">>, <<"append">>}
      THEN Refused(spec)
      ELSE [spec EXCEPT !.vars =
                Append(@, Var(parts[3][1], JoinColonParts(SubSeq(parts, 4, Len(parts))),
                              parts[2][1], parts[1][1]))]

ParseLine(spec, line) ==
    LET rhs == Rtrim(line.rhs) IN
    CASE ~spec.ok -> spec
      [] spec.ok /\ line.lhs = "name" -> [spec EXCEPT !.name = rhs]
      [] spec.ok /\ line.lhs = "note" -> spec
      [] spec.ok /\ line.lhs = "inherit_from" ->
             IF line.rhs = <<>> THEN spec ELSE [spec EXCEPT !.inherit = line.rhs]
      [] spec.ok /\ line.lhs = "application" -> AddApp(spec, SplitColonQuoted(rhs))
      [] spec.ok /\ line.lhs = "var" -> AddVar(spec, SplitColonQuoted(rhs))
      [] OTHER -> Refused(spec)

(* The file is read into the specification the options have begun. *)
ParseTemplateFile(lines, spec) == Fold(ParseLine, spec, lines)

-----------------------------------------------------------------------------
(* Command line of `rtenv new`: options of one value each.  -app and -ev?  *)
(* open a block that lasts up to the next block, -o, -f or --inherit-from; *)
(* inside it -n, -v, -N and -k belong to the block.                        *)

BlockKind == {"-app", "-evo", "-evp", "-eva"}
OnSetOf == [x \in {"-evo", "-evp", "-eva"} |->
                CASE x = "-evo" -> "overwrite" [] x = "-evp" -> "prepend"
                  [] x = "-eva" -> "append"]

NoBlock == [kind |-> "none", name |-> <<>>, value |-> <<>>, note |-> <<>>]

(* The end of a block adds what it describes; it must have a name. *)
CloseBlock(s) ==
    LET b == s.block  open == [s EXCEPT !.block = NoBlock] IN
    CASE b.kind = "none" -> open
      [] b.kind = "-app" ->
             [open EXCEPT !.spec =
                 IF b.name = <<>> \/ Len(@.apps) >= MaxApp THEN Refused(@)
                 ELSE [@ EXCEPT !.apps = Append(@, App(b.name, b.value, b.note))]]
      [] OTHER ->
             [open EXCEPT !.spec =
                 IF b.name = <<>> \/ Len(@.vars) >= MaxVar THEN Refused(@)
                 ELSE [@ EXCEPT !.vars =
                           Append(@, Var(b.name[1], b.value, OnSetOf[b.kind], "overwrite"))]]

(* An option the command does not know is skipped, except inside a block.  *)
NewOption(s, o) ==
    LET top == CloseBlock(s) IN
    IF ~s.spec.ok THEN s
    ELSE IF o.opt \in BlockKind THEN [top EXCEPT !.block.kind = o.opt]
    ELSE IF o.opt \in {"-o", "-f"} THEN top
    ELSE IF o.opt = "--inherit-from" THEN [top EXCEPT !.spec.inherit = o.value]
    ELSE
    CASE s.block.kind = "none" ->
             IF o.opt = "-n" THEN [s EXCEPT !.spec.name = o.value] ELSE s
      [] s.block.kind = "-app" /\ o.opt = "-n" -> [s EXCEPT !.block.name = o.value]
      [] s.block.kind = "-app" /\ o.opt = "-N" -> [s EXCEPT !.block.note = o.value]
      [] s.block.kind \in DOMAIN OnSetOf /\ o.opt = "-k" -> [s EXCEPT !.block.name = o.value]
      [] s.block.kind # "none" /\ o.opt = "-v" -> [s EXCEPT !.block.value = o.value]
      [] OTHER -> [s EXCEPT !.spec = Refused(@)]

ParseNewArgv(options) ==
    CloseBlock(Fold(NewOption, [spec |-> NoSpec, block |-> NoBlock], options)).spec

-----------------------------------------------------------------------------
(* Using an environment.  A shell is a function from the names that are    *)
(* set to their texts.                                                     *)

Cur(shell, key) == IF key \in DOMAIN shell THEN shell[key] ELSE <<>>
Export(shell, key, value) ==
    [k \in DOMAIN shell \cup {key} |-> IF k = key THEN value ELSE shell[k]]

(* `eval "$(tpbcli rtenv load)"`: one command for each variable; "prepend" *)
(* and "append" keep what the shell has, unless that is empty.             *)
LoadVar(shell, v) ==
    LET cur == Cur(shell, v.key) IN
    CASE v.on_set = "ignore" -> shell
      [] v.on_set = "prepend" /\ cur # <<>> -> Export(shell, v.key, v.value \o <<Colon>> \o cur)
      [] v.on_set = "append" /\ cur # <<>> -> Export(shell, v.key, cur \o <<Colon>> \o v.value)
      [] OTHER -> Export(shell, v.key, v.value)

(* The variables in front of a key the shell would not take are printed    *)
(* all the same; then the command fails.                                   *)
Printed(merged) ==
    LET bad == SelectInSeq(merged.vars, LAMBDA v : v.key \notin ShellName)
    IN  IF bad = 0 THEN merged.vars ELSE SubSeq(merged.vars, 1, bad - 1)

LoadOk(merged) == Printed(merged) = merged.vars

Load(shell, merged) == Fold(LoadVar, shell, Printed(merged))

(* tpb_rtenv_apply_onset, for --kenvs of a handle: <<>> when it is left out. *)
ApplyOnset(shell, merged, key, value) ==
    LET decl == MergedFind(merged, key)
        cur == Cur(shell, key) IN
    CASE decl = <<>> -> <<value>>
      [] decl # <<>> /\ decl[1].on_set = "ignore" -> <<>>
      [] decl # <<>> /\ decl[1].on_set = "prepend" /\ cur # <<>> ->
             <<value \o <<Colon>> \o cur>>
      [] decl # <<>> /\ decl[1].on_set = "append" /\ cur # <<>> ->
             <<cur \o (IF Last(cur) = Colon THEN <<>> ELSE <<Colon>>) \o value>>
      [] OTHER -> <<value>>

(* tpb_rtenv_capture_environ_snapshot: a variable declared "fail" must have *)
(* its declared value, and one declared "ignore" is not recorded; the names *)
(* that are, or the refusal.                                                *)
CaptureEnviron(shell, merged) ==
    LET on_get(key) == LET decl == MergedFind(merged, key)
                       IN  IF decl = <<>> THEN "overwrite" ELSE decl[1].on_get
        wrong == {key \in DOMAIN shell : on_get(key) = "fail"
                                         /\ shell[key] # MergedFind(merged, key)[1].value}
    IN  [ok |-> wrong = {}, keys |-> {key \in DOMAIN shell : on_get(key) # "ignore"}]
=============================================================================
