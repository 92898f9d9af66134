---------------------------- MODULE TaskOptions ----------------------------
(***************************************************************************)
(* The command line of `tpbcli task`: the tree of commands and options     *)
(* (tpbcli-task.c), the parser that walks it (tpbcli-argp.c) and the       *)
(* readers of option values (tpbcli-task.c, tpbcli-task-select.c).         *)
(*                                                                         *)
(* An argument is a text, a sequence of words: punctuation that a reader   *)
(* splits at is a word of its own. A reader that can refuse answers with   *)
(* the set of its possible results: {} when it refuses.                    *)
(***************************************************************************)
EXTENDS TimeStamp, SequencesExt

CONSTANTS
  Number,         \* word -> the number it spells
  HexDigits,      \* word of hex digits -> how many
  DateText,       \* word -> the time text it is
  Zone,           \* the local zone of the process
  FilterMax,      \* TPBCLI_TASK_FILTER_MAX (64)
  NameMax,        \* TPBCLI_TASK_GR_NAME_MAX (128)
  NameLen,        \* the longest name a list may hold (TPBM_NAME_STR_MAX_LEN - 1)
  None            \* the all-zero ID, a missing file, a refused answer

ASSUME OptionLimits == {FilterMax, NameMax, NameLen} \subseteq Nat

-----------------------------------------------------------------------------
(* Readers of values. *)

(* Keep the first of equal elements. *)
Unique(s) ==
  LET keep[i \in 0..Len(s)] ==
        IF i = 0 THEN <<>>
        ELSE IF s[i] \in Range(keep[i - 1]) THEN keep[i - 1]
        ELSE Append(keep[i - 1], s[i])
  IN  keep[Len(s)]

(* The texts between the commas. *)
Split(text) ==
  LET cuts == SetToSortSeq({0, Len(text) + 1} \cup
                           {i \in DOMAIN text : text[i] = ","}, <)
  IN  [i \in 1..(Len(cuts) - 1) |-> SubSeq(text, cuts[i] + 1, cuts[i + 1] - 1)]

(* A loop over the list that stops at the end of the text: nothing is read *)
(* after a comma at the end.                                               *)
Pieces(text) ==
  LET all == Split(text)
  IN  IF all[Len(all)] = <<>> THEN SubSeq(all, 1, Len(all) - 1) ELSE all

Trim(text) ==
  LET keep == {i \in DOMAIN text : text[i] # " "}
  IN  IF keep = {} THEN <<>> ELSE SubSeq(text, Min(keep), Max(keep))

TrimLeft(text) ==
  LET keep == {i \in DOMAIN text : text[i] # " "}
  IN  IF keep = {} THEN <<>> ELSE SubSeq(text, Min(keep), Len(text))

(* strtol: blanks before the number are skipped. *)
ParseNonneg(text) == {Number[w] : w \in {v \in DOMAIN Number : TrimLeft(text) = <<v>>}}

(* "3" or "0-2", as <<first, last>>. *)
ParseRange(text) ==
  LET dashes == {i \in DOMAIN text : text[i] = "-"}
      lo == ParseNonneg(SubSeq(text, 1, Min(dashes) - 1))
      hi == ParseNonneg(SubSeq(text, Min(dashes) + 1, Len(text)))
  IN  IF dashes = {} THEN {<<n, n>> : n \in ParseNonneg(text)}
      ELSE {r \in lo \X hi : r[1] <= r[2]}

(* The ranges of a list in order, None when one is refused. *)
ParseRanges(pieces) ==
  LET ranges == [i \in DOMAIN pieces |-> ParseRange(pieces[i])]
  IN  IF {} \in Range(ranges) THEN None
      ELSE [i \in DOMAIN ranges |-> CHOOSE r \in ranges[i] : TRUE]

(* The IDs of a list: strtok skips empty ones, a blank after one stays. *)
ParseIdList(text) ==
  SelectSeq([i \in DOMAIN Split(text) |-> TrimLeft(Split(text)[i])],
            LAMBDA t : t # <<>>)

(* The text is one hex word of lo to hi digits. *)
HexPrefixValid(text, lo, hi) ==
  Len(text) = 1 /\ text[1] \in DOMAIN HexDigits /\ HexDigits[text[1]] \in lo..hi

(* "a,b": names, in quotes where they hold a comma; a quote inside quotes  *)
(* is doubled. The scan is at the start of a name, in a bare or quoted     *)
(* name, or just after a quote in it.                                      *)
NameScan(s, w) ==
  LET word == [s EXCEPT !.cur = Append(@, w), !.bad = @ \/ Len(s.cur) >= NameLen]
      name(n) == [at |-> "start", cur |-> <<>>, names |-> Append(s.names, n),
                  bad |-> s.bad \/ n = <<>>]
  IN  CASE s.at = "start" -> CASE w = " "  -> s
                               [] w = ","  -> [s EXCEPT !.bad = TRUE]
                               [] w = "\"" -> [s EXCEPT !.at = "quoted"]
                               [] OTHER    -> [word EXCEPT !.at = "bare"]
        [] s.at = "bare"   -> IF w = "," THEN name(Trim(s.cur)) ELSE word
        [] s.at = "quoted" -> IF w = "\"" THEN [s EXCEPT !.at = "quote"] ELSE word
        [] s.at = "quote"  -> CASE w = "\"" -> [word EXCEPT !.at = "quoted"]
                                [] w = ","  -> name(s.cur)
                                [] OTHER    -> [s EXCEPT !.bad = TRUE]

ParseNameCsv(text) ==
  LET scan[i \in 0..Len(text)] ==
        IF i = 0 THEN [at |-> "start", cur |-> <<>>, names |-> <<>>, bad |-> FALSE]
        ELSE NameScan(scan[i - 1], text[i])
      end  == scan[Len(text)]
      last == IF end.at = "bare" THEN Trim(end.cur) ELSE end.cur
      all  == IF end.at = "start" THEN end.names ELSE Append(end.names, last)
  IN  IF end.bad \/ end.at = "quoted" \/ all = <<>> \/ <<>> \in Range(all) THEN {}
      ELSE {Unique(all)}

(* Names asked for before, and the new ones that are not among them. *)
GrMergeNames(names, text) ==
  {n \in {Unique((IF names = None THEN <<>> ELSE names) \o new) :
            new \in ParseNameCsv(text)} : Len(n) <= NameMax}

(* KEY OP VALUE for ls: the operators are looked for in this order. *)
FilterOps == <<">=", "<=", ">", "<", "=">>

ParseOneFilter(text) ==
  LET found == {o \in DOMAIN FilterOps : FilterOps[o] \in Range(text)}
      op    == FilterOps[Min(found)]
      at    == Min({i \in DOMAIN text : text[i] = op})
      key   == SubSeq(text, 1, at - 1)
      val   == SubSeq(text, at + 1, Len(text))
      is(k) == key = <<k>>
      eq    == op = "="
  IN  IF found = {} \/ key = <<>> \/ val = <<>> THEN {}
      ELSE CASE is("kernel_id") \/ is("tbatch_id") ->
                  IF eq /\ HexPrefixValid(val, 4, 40)
                  THEN {[key |-> key[1], op |-> op, hex |-> val[1]]} ELSE {}
             [] is("kernel_name") ->
                  IF eq THEN {[key |-> key[1], op |-> op, text |-> val]} ELSE {}
             [] is("exit_code") ->
                  {[key |-> key[1], op |-> op, num |-> n] :
                     n \in IF eq THEN ParseNonneg(val) ELSE {}}
             [] is("datetime") ->
                  UNION {{[key |-> key[1], op |-> op, bits |-> b] :
                            b \in ParseFilter(DateText[w], Zone)} :
                           w \in {v \in DOMAIN DateText : val = <<v>>}}
             [] OTHER -> {}

(* The member filters of export. *)
ExportParseFilter(text) ==
  LET eqs == {i \in DOMAIN text : text[i] = "="}
      key == SubSeq(text, 1, Min(eqs) - 1)
      val == SubSeq(text, Min(eqs) + 1, Len(text))
      ranges == ParseRanges(Pieces(val))
      tids == [i \in DOMAIN Pieces(val) |-> Trim(Pieces(val)[i])]
  IN  IF eqs = {} \/ Range(text) \cap {"<", ">", "<=", ">="} # {} \/ val = <<>>
      THEN {}
      ELSE CASE key = <<"subrank">> /\ ranges # None ->
                  {[key |-> "subrank",
                    ranks |-> UNION {r[1]..r[2] : r \in Range(ranges)}]}
             [] key = <<"subtid">> /\ Len(tids) <= FilterMax /\
                (\A i \in DOMAIN tids : HexPrefixValid(tids[i], 4, 8)) ->
                  {[key |-> "subtid", tids |-> {t[1] : t \in Range(tids)}]}
             [] OTHER -> {}

-----------------------------------------------------------------------------
(* The tree. A node may be chosen max times; 0 marks the help flags, those *)
(* with a help text and those that ask for a report of names.              *)

Node(name, short, type, max, conf) ==
  [name |-> name, spelt |-> {name, short}, type |-> type, max |-> max, conf |-> conf]

Opt(name, short, max, conf) == Node(name, short, "opt", max, conf)
Flag(name, conf) == Node(name, name, "flag", 1, conf)
Cmd(name) == Node(name, name, "cmd", 1, {})
Help == Node("--help", "-h", "help", 0, {})
NamesHelp == Node("--help", "-h", "names", 0, {})

LsOptions ==
  {Opt("-n", "-n", 1, {"-N"}), Opt("-N", "-N", 1, {"-n"}),
   Opt("--filter", "-f", FilterMax, {}), Help}

GrOptions ==
  {Opt("--rid", "-r", 1, {"--task-id"}), Opt("--task-id", "-i", 1, {"--rid"}),
   Opt("--data-name", "--data-name", NameMax, {}),
   Opt("--meta-name", "--meta-name", NameMax, {}),
   Flag("--show-each-subrank", {}), Help}

(* Mutant of ExportOptions: --from-ls does not name its rivals. *)
ExportOptionsOneSided ==
  {Opt("--rid", "-r", 1, {"--id", "--from-ls"}),
   Opt("--id", "-i", 1, {"--rid", "--from-ls"}),
   Flag("--from-ls", {}),
   Flag("--trace-to-entry", {"--keep-current"}),
   Flag("--keep-current", {"--trace-to-entry"}),
   Opt("--filter", "-f", FilterMax, {}), Opt("--outdir", "-o", 1, {}), Help}

ExportOptions ==
  {Opt("--rid", "-r", 1, {"--id", "--from-ls"}),
   Opt("--id", "-i", 1, {"--rid", "--from-ls"}),
   Flag("--from-ls", {"--rid", "--id"}),
   Flag("--trace-to-entry", {"--keep-current"}),
   Flag("--keep-current", {"--trace-to-entry"}),
   Opt("--filter", "-f", FilterMax, {}), Opt("--outdir", "-o", 1, {}), Help}

(* The operation a command stands for. *)
OpOf(name) ==
  CASE name \in {"ls", "list"}       -> "ls"
    [] name \in {"get-result", "gr"} -> "gr"
    [] name = "export"               -> "export"

Children(path) ==
  CASE path = <<>>       -> {Cmd("task")}
    [] path = <<"task">> -> {Cmd(c) : c \in {"ls", "list", "get-result", "gr", "export"}}
                              \cup {Help}
    [] Len(path) = 2 -> CASE OpOf(path[2]) = "ls" -> LsOptions
                          [] OpOf(path[2]) = "gr" -> GrOptions
                          [] OTHER                -> ExportOptions
    [] OTHER -> IF path[3] \in {"--data-name", "--meta-name"} THEN {NamesHelp} ELSE {}

(* The child that is spelt like this, as a set of at most one. *)
FindChild(path, tok) == {n \in Children(path) : \E w \in n.spelt : tok = <<w>>}

-----------------------------------------------------------------------------
(* What the options leave behind (task_cli_ctx_t). *)

NoSelection == [kind |-> "none", spec |-> <<>>]

NoOptions ==
  [count |-> 0, oldest |-> FALSE, filters |-> <<>>, sel |-> NoSelection,
   data |-> None, meta |-> None, each |-> FALSE, help |-> FALSE, trace |-> "ask"]

(* The parse functions of the options, with their values, and of the flags. *)
TakeLsOption(ctx, name, val) ==
  IF name = "--filter"
  THEN {[ctx EXCEPT !.filters = Append(@, f)] :
          f \in IF Len(ctx.filters) < FilterMax THEN ParseOneFilter(val) ELSE {}}
  ELSE {[ctx EXCEPT !.count = n, !.oldest = name = "-N"] : n \in ParseNonneg(val)}

TakeGrOption(ctx, name, val) ==
  CASE name = "--rid"     -> {[ctx EXCEPT !.sel = [kind |-> "rid", spec |-> val]]}
    [] name = "--task-id" -> {[ctx EXCEPT !.sel = [kind |-> "id", spec |-> val]]}
    [] name = "--data-name" ->
         IF val = <<>> THEN {[ctx EXCEPT !.data = IF @ = None THEN <<>> ELSE @]}
         ELSE {[ctx EXCEPT !.data = n] : n \in GrMergeNames(ctx.data, val)}
    [] name = "--meta-name" ->
         {[ctx EXCEPT !.meta = n] : n \in GrMergeNames(ctx.meta, val)}

(* There is one output root in the model, so --outdir changes nothing. *)
TakeExportOption(ctx, name, val) ==
  CASE name = "--rid" -> {[ctx EXCEPT !.sel = [kind |-> "rid", spec |-> val]]}
    [] name = "--id"  -> {[ctx EXCEPT !.sel = [kind |-> "id", spec |-> val]]}
    [] name = "--filter" ->
         {[ctx EXCEPT !.filters = Append(@, f)] :
            f \in IF Len(ctx.filters) < FilterMax THEN ExportParseFilter(val) ELSE {}}
    [] name = "--outdir" -> {ctx}

TakeOption(ctx, op, name, val) ==
  CASE op = "ls"     -> TakeLsOption(ctx, name, val)
    [] op = "gr"     -> TakeGrOption(ctx, name, val)
    [] op = "export" -> TakeExportOption(ctx, name, val)

TakeFlag(ctx, name) ==
  CASE name = "--from-ls" -> [ctx EXCEPT !.sel = [kind |-> "ls", spec |-> <<>>]]
    [] name = "--trace-to-entry"    -> [ctx EXCEPT !.trace = "entry"]
    [] name = "--keep-current"      -> [ctx EXCEPT !.trace = "keep"]
    [] name = "--show-each-subrank" -> [ctx EXCEPT !.each = TRUE]

-----------------------------------------------------------------------------
(* tpbcli_parse_args: the stack of commands and options with children, the *)
(* nodes chosen so far, and the option whose value comes next.             *)

ParseStart ==
  [stack |-> <<>>, chosen |-> <<>>, want |-> <<>>, ctx |-> NoOptions, res |-> "go"]

Refuse(s) == [s EXCEPT !.res = "refused"]

Times(s, path) == Len(SelectSeq(s.chosen, LAMBDA p : p = path))

(* Back to a level of the stack: what was chosen below is forgotten. *)
PopTo(s, k) ==
  IF k = Len(s.stack) THEN s
  ELSE LET popped == SubSeq(s.stack, 1, k + 1)
       IN  [s EXCEPT !.stack = SubSeq(@, 1, k),
                     !.chosen = SelectSeq(@, LAMBDA p :
                                  Len(p) <= k + 1 \/ SubSeq(p, 1, k + 1) # popped)]

(* Another child of the level is chosen and one of the two is a command,   *)
(* or a child that n conflicts with is chosen.                             *)
ExclusiveConflict(s, n) ==
  \E m \in Children(s.stack) \ {n} :
    /\ Times(s, Append(s.stack, m.name)) > 0
    /\ n.type = "cmd" \/ m.type = "cmd"

ConflictOptsHit(s, n) == \E c \in n.conf : Times(s, Append(s.stack, c)) > 0

(* A node is met on its level. *)
Choose(s, n) ==
  LET path == Append(s.stack, n.name)
      more == [s EXCEPT !.chosen = Append(@, path)]
  IN  IF ExclusiveConflict(s, n) \/ ConflictOptsHit(s, n) THEN Refuse(s)
      ELSE IF n.type = "help" THEN [s EXCEPT !.res = "help"]
      ELSE IF n.max = 0 \/ Times(s, path) >= n.max THEN Refuse(s)
      ELSE CASE n.type = "cmd"  -> [more EXCEPT !.stack = path]
             [] n.type = "flag" -> [more EXCEPT !.ctx = TakeFlag(@, n.name)]
             [] n.type = "opt"  -> [s EXCEPT !.want = path]

(* The value of the option at path: the help flag below it, or a value.    *)
TakeValue(s, tok) ==
  LET path == s.want
      more == [s EXCEPT !.chosen = Append(@, path), !.want = <<>>]
      new  == TakeOption(s.ctx, OpOf(path[2]), path[3], tok)
  IN  IF FindChild(path, tok) # {} THEN {[more EXCEPT !.ctx.help = TRUE]}
      ELSE IF new = {} THEN {Refuse(s)}
      ELSE {[more EXCEPT !.ctx = c,
                         !.stack = IF Children(path) = {} THEN @ ELSE path] : c \in new}

(* One argument: a value, or a node on the innermost level that knows it.  *)
Consume(s, tok) ==
  LET levels == {k \in 0..Len(s.stack) : FindChild(SubSeq(s.stack, 1, k), tok) # {}}
  IN  IF s.res # "go" THEN {s}
      ELSE IF s.want # <<>> THEN TakeValue(s, tok)
      ELSE IF levels = {} THEN {Refuse(s)}
      ELSE UNION {{Choose(q, n) : n \in FindChild(q.stack, tok)} :
                    q \in {PopTo(s, k) : k \in {Max(levels)}}}

(* The end of the line, and what tpbcli_task asks of it. *)
Finish(s) ==
  LET op == IF Len(s.stack) < 2 THEN "none" ELSE OpOf(s.stack[2])
      ok == /\ s.want = <<>> /\ op # "none"
            /\ op # "ls" => s.ctx.sel.kind # "none"
  IN  [res |-> IF s.res # "go" THEN s.res ELSE IF ok THEN "run" ELSE "refused",
       op |-> op, opts |-> s.ctx]

(* A line as tpbcli_task reads it: the possible outcomes. *)
ParseArgs(line) ==
  LET run[i \in 0..Len(line)] ==
        IF i = 0 THEN {ParseStart}
        ELSE UNION {Consume(s, line[i]) : s \in run[i - 1]}
  IN  {Finish(s) : s \in run[Len(line)]}

-----------------------------------------------------------------------------
(* What an outcome means, apart from the order of names and filters. *)
Meaning(o) ==
  IF o.res # "run" THEN <<o.res, None>>
  ELSE <<o.op, [o.opts EXCEPT !.data = IF @ = None THEN @ ELSE Range(@),
                              !.meta = IF @ = None THEN @ ELSE Range(@),
                              !.filters = Range(@)]>>

(* Two options of a command may be given in either order, after any other  *)
(* one: both lines mean the same, or both are refused.                     *)
Commute(command, groups) ==
  \A first, g, h \in groups :
    Cardinality({{Meaning(o) : o \in ParseArgs(line)} :
                   line \in {command \o first \o g \o h, command \o first \o h \o g}}) = 1

(* A list of names, each in quotes, reads back as the names. *)
Quoted(name) ==
  <<"\"">> \o FlattenSeq([i \in DOMAIN name |->
                 IF name[i] = "\"" THEN <<"\"", "\"">> ELSE <<name[i]>>]) \o <<"\"">>

NamesReadBack(names) ==
  \A a, b \in names : \A list \in {Quoted(a) \o <<",">> \o Quoted(b)} :
    ParseNameCsv(list) = {Unique(<<a, b>>)}
=============================================================================
