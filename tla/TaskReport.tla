----------------------------- MODULE TaskReport -----------------------------
(***************************************************************************)
(* `tpbcli task get-result`: the logical tasks of a selection, the meta    *)
(* table (member consensus), the data table (samples pooled over the       *)
(* members of a capsule, or one row per member), the warnings and the      *)
(* exit status; and the report of names printed for `--data-name --help`.  *)
(*                                                                         *)
(* A row keeps which members' samples went into it instead of the mean and *)
(* quantiles computed from them.                                           *)
(***************************************************************************)
EXTENDS TaskStore

CONSTANTS
  Statable,       \* the element types statistics are defined for
  HeaderFields,   \* fields of a header a meta key may name (21 in the code)
  RangeMax,       \* bytes of the buffer a list of subranks is printed to (128)
  Mixed, NA       \* cells: members disagree, no value

ASSUME RangeMaxAssumption == RangeMax \in Nat

-----------------------------------------------------------------------------
(* A logical task: its root, the selection it is shown as, and the records *)
(* behind it, by subrank. A plain task is its own only member.             *)
Logical(root, ref) ==
  LET ms == IF ConfirmCapsule(root) THEN ReadCapsuleMembers(root) ELSE <<root>>
  IN  [root     |-> root,
       ref      |-> ref,
       capsule  |-> ConfirmCapsule(root),
       members  |-> ms,
       readable |-> {m \in DOMAIN ms : Readable(ms[m])}]

(* One logical task per root, named for the first selection of it; None    *)
(* when one selected task has no readable root.                            *)
BuildLogicalTasks(ids, refs) ==
  LET roots == [i \in DOMAIN ids |-> FollowDerive(ids[i])]
      first == {i \in DOMAIN ids : \A j \in 1..(i - 1) : roots[j] # roots[i]}
      place(i) == Cardinality({j \in first : j <= i})
      at(n) == CHOOSE i \in first : place(i) = n
  IN  IF None \in Range(roots) THEN None
      ELSE [n \in {place(i) : i \in first} |-> Logical(roots[at(n)], refs[at(n)])]

(* The members whose record could be loaded, by subrank. *)
ReadableMembers(t) == t.readable

-----------------------------------------------------------------------------
(* Output headers of one record. *)

OutputsNamed(id, name) ==
  {i \in DOMAIN Attr[id].outs : Attr[id].outs[i].name = name}

(* The one output of that name. *)
Output(id, name) == Attr[id].outs[CHOOSE i \in OutputsNamed(id, name) : TRUE]

(* It exists once, is numeric and holds elements. *)
HasSamples(id, name) ==
  /\ \E i \in DOMAIN Attr[id].outs : OutputsNamed(id, name) = {i}
  /\ Output(id, name).type \in Statable
  /\ Output(id, name).n > 0

(* All readable members hold the name with one type and one unit. *)
DataCompatible(t, name) ==
  /\ ReadableMembers(t) # {}
  /\ \A m \in ReadableMembers(t) : HasSamples(t.members[m], name)
  /\ \A m, k \in ReadableMembers(t) :
        /\ Output(t.members[m], name).type = Output(t.members[k], name).type
        /\ Output(t.members[m], name).unit = Output(t.members[k], name).unit

CollectAllNames(tasks) ==
  Unique(FlattenSeq([i \in DOMAIN tasks |->
    FlattenSeq([m \in DOMAIN tasks[i].members |->
      IF m \in tasks[i].readable
      THEN [o \in DOMAIN Attr[tasks[i].members[m]].outs |->
              Attr[tasks[i].members[m]].outs[o].name]
      ELSE <<>>])]))

CollectSharedNames(tasks) ==
  SelectSeq(CollectAllNames(tasks),
            LAMBDA name : \A i \in DOMAIN tasks : DataCompatible(tasks[i], name))

-----------------------------------------------------------------------------
(* Samples of one data name. *)

NoSamples ==
  [used |-> {}, type |-> None, unit |-> None, mixed |-> FALSE,
   flat |-> FALSE, warned |-> {}]

(* Add member m of t to what was collected before it. The first member     *)
(* that contributes sets the type and the unit of the row; another unit is *)
(* refused with a warning, another numeric type is pooled and marked.      *)
CollectSamplesMember(t, name, acc, m) ==
  LET id == t.members[m]
      o  == Output(id, name)
  IN  IF m \notin t.readable THEN acc
      ELSE IF Cardinality(OutputsNamed(id, name)) > 1
      THEN [acc EXCEPT !.warned = @ \cup {"duplicate"}]
      ELSE IF ~HasSamples(id, name) THEN acc
      ELSE IF acc.used = {}
      THEN [acc EXCEPT !.used = {m}, !.type = o.type, !.unit = o.unit,
                       !.flat = o.ndim > 1]
      ELSE IF o.unit # acc.unit
      THEN [acc EXCEPT !.warned = @ \cup {"unit"}]
      ELSE [acc EXCEPT !.used = @ \cup {m}, !.flat = @ \/ o.ndim > 1,
                       !.mixed = @ \/ o.type # acc.type]

Pool(t, name, ms) ==
  FoldLeft(LAMBDA acc, m : CollectSamplesMember(t, name, acc, m), NoSamples, ms)

Subranks(t) == [m \in DOMAIN t.members |-> m]

PooledRow(i, t, name) ==
  LET s == Pool(t, name, Subranks(t))
  IN  [task |-> i, name |-> name, subrank |-> 0, used |-> s.used,
       unit |-> s.unit, mixed |-> s.mixed]

EachRow(i, t, name, m) ==
  LET s == Pool(t, name, <<m>>)
  IN  [task |-> i, name |-> name, subrank |-> m, used |-> s.used,
       unit |-> s.unit, mixed |-> s.mixed]

(* A warning about one member: it does not say of which task. *)
MemberWarning(kind, name) ==
  [kind |-> kind, task |-> None, name |-> name, used |-> 0, of |-> 0]

(* Mutant of RowWarnings: members without the name are not counted, so a   *)
(* row pooled from some of the members claims to hold them all.            *)
RowWarningsUsedOnly(i, t, name) ==
  LET s == Pool(t, name, Subranks(t))
      warn(k) == [kind |-> k, task |-> i, name |-> name,
                  used |-> Cardinality(s.used), of |-> Cardinality(s.used)]
  IN  {MemberWarning(k, name) : k \in s.warned}
      \cup (IF s.used = {} /\ s.warned = {} THEN {warn("missing")} ELSE {})
      \cup (IF s.used # {} /\ s.flat THEN {warn("flattened")} ELSE {})

(* What a pooled row has to say about the samples it does not hold. The    *)
(* members are counted out of those that can be read.                      *)
RowWarnings(i, t, name) ==
  LET s == Pool(t, name, Subranks(t))
      n == Cardinality(ReadableMembers(t))
      warn(k) == [kind |-> k, task |-> i, name |-> name,
                  used |-> Cardinality(s.used), of |-> n]
  IN  {MemberWarning(k, name) : k \in s.warned}
      \cup (IF s.used = {} /\ s.warned = {} THEN {warn("missing")} ELSE {})
      \cup (IF s.used # {} /\ Cardinality(s.used) < n THEN {warn("used")} ELSE {})
      \cup (IF s.used # {} /\ s.flat THEN {warn("flattened")} ELSE {})

(* With one row per member only a name that a record holds twice is warned of. *)
EachWarnings(t, name) ==
  {MemberWarning("duplicate", name) :
     m \in {k \in DOMAIN t.members : Pool(t, name, <<k>>).warned # {}}}

-----------------------------------------------------------------------------
(* The meta table. *)

DerivedKeys == {"ref", "taskid", "kernel", "batch_host", "nmember"}

AttrKeys ==
  {"task_record_id", "derive_to", "inherit_from", "tbatch_id", "kernel_id",
   "datetime", "utc_bits", "btime", "duration", "duration_seconds", "exit_code",
   "handle_index", "pid", "tid", "ninput", "noutput", "nheader", "reserve"}

DefaultMeta ==
  <<<<"ref">>, <<"taskid">>, <<"kernel">>, <<"batch_host">>, <<"datetime">>,
    <<"nmember">>, <<"exit_code">>, <<"ninput">>, <<"noutput">>, <<"nheader">>>>

(* "header[2].name": the index and the field, as a set of at most one. *)
ParseHeaderKey(key) ==
  IF Len(key) = 4 /\ key[1] = "header[" /\ key[3] = "]." /\ key[4] \in HeaderFields
  THEN {[idx |-> n, field |-> key[4]] : n \in ParseNonneg(<<key[2]>>)} ELSE {}

MetaKeyKind(key) ==
  IF \E w \in DerivedKeys : key = <<w>> THEN "derived"
  ELSE IF \E w \in AttrKeys : key = <<w>> THEN "attr"
  ELSE IF ParseHeaderKey(key) # {} THEN "header" ELSE "invalid"

ValidateMetaNames(names) ==
  names = None \/ \A i \in DOMAIN names : MetaKeyKind(names[i]) # "invalid"

(* All headers of a record: inputs, outputs, and those that are neither    *)
(* (the environment of the run).                                           *)
Headers(id) == Attr[id].ins \o Attr[id].outs \o Attr[id].more

AttrCell(id, key) ==
  CASE key = "task_record_id" -> id
    [] key = "derive_to"      -> Attr[id].derive
    [] key = "inherit_from"   -> Attr[id].inheritAll
    [] key = "datetime"       -> FormatUtc(Attr[id].utc)
    [] key = "utc_bits"       -> Attr[id].utc
    [] key = "exit_code"      -> Attr[id].exit
    [] key = "ninput"         -> Len(Attr[id].ins)
    [] key = "noutput"        -> Len(Attr[id].outs)
    [] key = "nheader"        -> Len(Headers(id))
    [] OTHER                  -> Attr[id].scalars[key]

(* A cell: whether the key was resolved, the value, and a warning. *)
Cell(val) == [ok |-> TRUE, val |-> val, warn |-> None]
Unresolved(warn) == [ok |-> FALSE, val |-> NA, warn |-> warn]

HeaderCell(id, h) ==
  IF h.idx < Len(Headers(id)) THEN Cell(Headers(id)[h.idx + 1][h.field])
  ELSE Unresolved("header")

(* A batch that cannot be read, or without a host: N/A, and yet resolved. *)
BatchHost(id) ==
  IF Attr[id].host = None THEN [Cell(NA) EXCEPT !.warn = "host"]
  ELSE Cell(Attr[id].host)

(* One key of member m. *)
MetaCellOne(t, key, m) ==
  LET id == t.members[m]
  IN  CASE key = <<"ref">>     -> Cell(t.ref)
        [] key = <<"taskid">>  -> Cell(t.root)
        [] key = <<"nmember">> -> Cell(IF t.capsule THEN Len(t.members) ELSE 1)
        [] OTHER ->
             IF m \notin ReadableMembers(t) THEN Unresolved(None)
             ELSE CASE key = <<"kernel">>     -> Cell(Attr[id].kernel)
                    [] key = <<"batch_host">> -> BatchHost(id)
                    [] MetaKeyKind(key) = "attr" -> Cell(AttrCell(id, key[1]))
                    [] MetaKeyKind(key) = "header" ->
                         HeaderCell(id, CHOOSE h \in ParseHeaderKey(key) : TRUE)

(* The cell of a whole task: its root's times, and for the other keys what *)
(* the members that resolve it agree on, with the warning of one of them.  *)
MetaCell(t, key) ==
  LET got  == {c \in {MetaCellOne(t, key, m) : m \in ReadableMembers(t)} : c.ok}
      vals == {c.val : c \in got}
      warn == IF \E c \in got : c.warn # None THEN "host" ELSE None
      root(k) == Cell(AttrCell(t.root, k))
  IN  CASE ~t.capsule \/ key \in {<<"ref">>, <<"taskid">>, <<"nmember">>} ->
             MetaCellOne(t, key, 1)
        [] t.capsule /\ key \in {<<"datetime">>, <<"utc_bits">>, <<"btime">>} ->
             root(key[1])
        [] OTHER ->
             [ok |-> TRUE, warn |-> warn,
              val |-> IF vals = {} THEN NA
                      ELSE IF \E v \in vals : vals = {v}
                      THEN CHOOSE v \in vals : TRUE ELSE Mixed]

MetaRows(tasks, keys, each) ==
  [i \in DOMAIN tasks |->
     IF each /\ tasks[i].capsule
     THEN [m \in DOMAIN tasks[i].members |->
             [k \in DOMAIN keys |-> MetaCellOne(tasks[i], keys[k], m)]]
     ELSE <<[k \in DOMAIN keys |-> MetaCell(tasks[i], keys[k])]>>]

(* The warnings of the cells. *)
CellWarnings(meta) ==
  LET warned(row) == {k \in DOMAIN row : row[k].warn # None}
      ofRow(i, row) == {[kind |-> row[k].warn, task |-> i, name |-> None, used |-> 0,
                         of |-> 0] : k \in warned(row)}
  IN  UNION {UNION {ofRow(i, meta[i][r]) : r \in DOMAIN meta[i]} : i \in DOMAIN meta}

MetaWarnings(tasks) ==
  {[kind |-> "meta", task |-> i, name |-> None,
    used |-> Cardinality(ReadableMembers(tasks[i])),
    of |-> Len(tasks[i].members)] :
     i \in {j \in DOMAIN tasks : /\ tasks[j].capsule
              /\ \/ ReadableMembers(tasks[j]) = {}
                 \/ ReadableMembers(tasks[j]) # DOMAIN tasks[j].members}}

(* Raised before anything is printed: capsules with no readable member and *)
(* members that are listed twice.                                          *)
AvailabilityWarnings(tasks) ==
  {[kind |-> "unavailable", task |-> i, name |-> None, used |-> 0,
    of |-> Len(tasks[i].members)] :
     i \in {j \in DOMAIN tasks : tasks[j].capsule /\ ReadableMembers(tasks[j]) = {}}}
  \cup
  {[kind |-> "duplicate member", task |-> i, name |-> None, used |-> 0, of |-> 0] :
     i \in {j \in DOMAIN tasks : /\ tasks[j].capsule
              /\ Cardinality(Range(tasks[j].members)) < Len(tasks[j].members)}}

-----------------------------------------------------------------------------
(* --data-name --help: the names all tasks share and, for the others, the  *)
(* subranks that hold them, as ranges "0,2-3".                             *)

Presence(t, name) ==
  {m \in ReadableMembers(t) : Cardinality(OutputsNamed(t.members[m], name)) = 1}

(* Runs of consecutive subranks; none are printed when every readable      *)
(* member, or no member, holds the name.                                   *)
SubrankRuns(t, name) ==
  LET here == Presence(t, name)
      ends(m) == CHOOSE e \in here : /\ e >= m /\ m..e \subseteq here
                                     /\ e + 1 \notin here
  IN  IF ~t.capsule \/ here = {} \/ here = ReadableMembers(t) THEN {}
      ELSE {<<m, ends(m)>> : m \in {h \in here : h - 1 \notin here}}

(* The length of a number, and of a run as it is printed: subranks count   *)
(* from 0.                                                                 *)
Digits[n \in Nat] == IF n < 10 THEN 1 ELSE 1 + Digits[n \div 10]

RunLength(run) ==
  IF run[1] = run[2] THEN Digits[run[1] - 1]
  ELSE Digits[run[1] - 1] + 1 + Digits[run[2] - 1]

(* "[subrank=0,2-3]" goes to the buffer piece by piece. A comma is only    *)
(* written while there is room; a number is printed with what is left of   *)
(* the buffer as its limit, which wraps around once the position is past   *)
(* the end: the number then lands behind the buffer.                       *)
RangeText(runs) ==
  LET piece(acc, run) ==
        LET at == IF acc.pos > 9 /\ acc.pos < RangeMax THEN acc.pos + 1 ELSE acc.pos
        IN  [pos |-> at + RunLength(run), past |-> acc.past \/ at > RangeMax]
  IN  FoldLeft(piece, [pos |-> 9, past |-> FALSE],
               SetToSortSeq(runs, LAMBDA a, b : a[1] < b[1]))

(* The ranges of a name; whether they are shown to the closing bracket, or *)
(* cut; and whether the text was written past the buffer, after which the  *)
(* command may also die (Crash).                                           *)
SubrankPresence(t, name) ==
  LET runs == SubrankRuns(t, name)
      text == RangeText(runs)
  IN  [runs |-> runs, shown |-> text.pos + 1 < RangeMax, past |-> text.past]

TaskMaxNheader(t) ==
  Max({0} \cup {Len(Headers(t.members[m])) : m \in ReadableMembers(t)})

NameReport(tasks) ==
  LET shared == CollectSharedNames(tasks)
      common == Min({TaskMaxNheader(tasks[i]) : i \in DOMAIN tasks})
  IN  [shared  |-> shared,
       private |-> [i \in DOMAIN tasks |->
                      [name \in Range(CollectAllNames(<<tasks[i]>>)) \ Range(shared)
                         |-> SubrankPresence(tasks[i], name)]],
       sharedHeaders  |-> 0..(common - 1),
       privateHeaders |-> [i \in DOMAIN tasks |->
                             common..(TaskMaxNheader(tasks[i]) - 1)]]

-----------------------------------------------------------------------------
(* tpbcli_task_get_result, on the logical tasks of the selection. opts.data  *)
(* and opts.meta are the names asked for (None when the option is absent),   *)
(* opts.each is --show-each-subrank and opts.help the report of names.       *)

NoReport(status) ==
  [status |-> status, tasks |-> <<>>, meta |-> <<>>, rows |-> {}, warns |-> {},
   names |-> None]

DataColumns(tasks, opts) ==
  IF opts.data # None THEN opts.data
  ELSE IF opts.meta = None THEN CollectSharedNames(tasks) ELSE <<>>

MetaColumns(opts) == IF opts.meta # None THEN opts.meta ELSE DefaultMeta

DataRows(tasks, cols, each) ==
  UNION {IF each
         THEN {EachRow(i, tasks[i], cols[c], m) : m \in DOMAIN tasks[i].members}
         ELSE {PooledRow(i, tasks[i], cols[c])} :
         i \in DOMAIN tasks, c \in DOMAIN cols}

(* The tables, and the warnings about what they leave out. *)
Tables(tasks, cols, rows, meta, each) ==
  [status |-> IF rows # {} /\ \A r \in rows : r.used = {}
              THEN "metric missing" ELSE "ok",
   tasks  |-> tasks,
   meta   |-> meta,
   rows   |-> rows,
   warns  |-> AvailabilityWarnings(tasks) \cup MetaWarnings(tasks)
                \cup CellWarnings(meta) \cup
              UNION {IF each
                     THEN EachWarnings(tasks[i], cols[c])
                     ELSE RowWarnings(i, tasks[i], cols[c]) :
                     i \in DOMAIN tasks, c \in DOMAIN cols},
   names  |-> None]

GetResult(tasks, opts) ==
  IF tasks = None THEN NoReport("error")
  ELSE IF \A i \in DOMAIN tasks : ReadableMembers(tasks[i]) = {}
  THEN [NoReport("error") EXCEPT !.warns = AvailabilityWarnings(tasks)]
  ELSE IF opts.help
  THEN [NoReport("ok") EXCEPT !.tasks = tasks, !.names = NameReport(tasks)]
  ELSE LET cols == DataColumns(tasks, opts)
       IN  Tables(tasks, cols, DataRows(tasks, cols, opts.each),
                  MetaRows(tasks, MetaColumns(opts), opts.each), opts.each)
=============================================================================
