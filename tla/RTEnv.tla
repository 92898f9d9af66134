-------------------------------- MODULE RTEnv -------------------------------
(***************************************************************************)
(* Runtime environments of a workspace: rows of runtime_environment.tpbe,  *)
(* one .tpbr record each, and base_id in etc/config.json                   *)
(* (rafdb-l2/l3-runtime-environment*.c, rafdb-l1-workspace.c, tpb-rtenv.c, *)
(* tpbcli-rtenv-new.c, tpbcli-rtenv-template.c).                           *)
(*                                                                         *)
(* Processes create environments (tpbcli rtenv new, or the base snapshot   *)
(* of a fresh workspace), register a child with its parent, and count the  *)
(* tasks run under an environment.  Identifiers are small integers that    *)
(* tpb_raf_rtenv_alloc_next_id takes from a list of the rows; it drops its *)
(* lock before it lists.  A record is rewritten in place: fopen("wb")      *)
(* empties it first.  Appends to the index and lists of it are atomic here *)
(* (RafEntry has their steps).                                             *)
(***************************************************************************)
EXTENDS Naturals, Sequences, FiniteSets, EnvVars

CONSTANTS Proc,      \* processes of the workspace
          Name,      \* environment names a user may choose
          NoProc,    \* "nobody holds the lock"
          MaxId,     \* bound: creations, hence identifiers
          MaxTask,   \* bound: tasks to count
          MaxAbort,  \* bound: crashes
          Source,    \* Name -> where `rtenv new` takes the declarations from
          Environ,   \* the variables of the calling shell, in order
          ChainLimit,\* int32_t chain[64]
          CoreMaxVar \* TPB_RTENV_MERGED_MAX_VAR

ASSUME RTEnvAssumption ==
    /\ NoProc \notin Proc
    /\ MaxId \in Nat \ {0} /\ MaxTask \in Nat /\ MaxAbort \in Nat
    /\ ChainLimit \in Nat \ {0} /\ CoreMaxVar \in Nat

Core == INSTANCE EnvVars WITH MaxVar <- CoreMaxVar

Root == 0                      \* TPB_RTENV_ROOT_INHERIT
EnvId == 1..MaxId
BaseNames == 0..MaxId          \* "base" is 0, "base_1" is 1, ...

VARIABLES
    rows,      \* the rows of runtime_environment.tpbe
    rec,       \* the records
    base,      \* base_id in config.json; Root while the file is empty
    lock,      \* who holds the fcntl() lock of each record
    pc,        \* where each process is in its call
    me,        \* the local variables of its call
    created,   \* creations begun
    tasks,     \* counts begun
    counted,   \* record counters patched, by environment
    overlap,   \* two creations overlapped
    clash,     \* a record was used by others while it was rewritten
    aborts     \* crashes so far

vars == <<rows, rec, base, lock, pc, me, created, tasks, counted, overlap, clash,
          aborts>>

(* The row of a new environment. *)
Row(id, name, inherit) ==
    [id |-> id, name |-> name, inherit |-> inherit, derive |-> Root, ntask |-> 0]

(* whole: the file has its contents; it exists once live.  delta: what the *)
(* environment itself declares.                                            *)
NoRecord == [live |-> FALSE, whole |-> FALSE, inherit |-> Root, links |-> <<>>,
             derive |-> Root, ntask |-> 0, delta |-> NoSpec]

(* The environment a call creates or counts for; old is the record it read. *)
NoCall == [id |-> 1, name |-> 0, parent |-> Root, setbase |-> FALSE, old |-> NoRecord,
           spec |-> NoSpec]

Creating == {"alloc", "check", "append"}
Stage == Creating \cup
         {"idle", "truncate", "write", "config", "config_write", "derive_read",
          "derive_truncate", "derive_write", "derive_row", "derive_record",
          "count_lock", "count_write", "count_row", "dead"}

(* A fresh workspace: config.json names base_id 1. *)
Init ==
    /\ rows = <<>>
    /\ rec = [i \in EnvId |-> NoRecord]
    /\ base = 1
    /\ lock = [i \in EnvId |-> NoProc]
    /\ pc = [p \in Proc |-> "idle"]
    /\ me = [p \in Proc |-> NoCall]
    /\ created = 0 /\ tasks = 0
    /\ counted = [i \in EnvId |-> 0]
    /\ overlap = FALSE /\ clash = FALSE /\ aborts = 0

RowIds == {rows[k].id : k \in DOMAIN rows}
RowNames == {rows[k].name : k \in DOMAIN rows}
Has(i) == i \in RowIds
FirstRow(i) == CHOOSE k \in DOMAIN rows :
                   rows[k].id = i /\ \A j \in DOMAIN rows : rows[j].id = i => k <= j

At(p, stage) == pc[p] = stage

(* The call goes on to a stage with its local variables, or returns. *)
GoWith(p, stage, locals) ==
    /\ pc' = [pc EXCEPT ![p] = stage]
    /\ me' = [me EXCEPT ![p] = IF stage = "idle" THEN NoCall ELSE locals]
Goto(p, stage) == GoWith(p, stage, me[p])

-----------------------------------------------------------------------------
(* Creation: tpbcli rtenv new, and tpb_rtenv_snapshot_build_env *)

Begin(p, call) ==
    /\ At(p, "idle") /\ created < MaxId
    /\ created' = created + 1
    /\ overlap' = (overlap \/ \E q \in Proc : pc[q] \in Creating)
    /\ GoWith(p, "alloc", call)
    /\ UNCHANGED <<rows, rec, base, lock, tasks, counted, clash, aborts>>

(* The rows a merge walks: the target and up to ChainLimit - 1 ancestors;   *)
(* the older ones are left out without a word.                              *)
ParentOf(i) == IF Has(i) THEN rows[FirstRow(i)].inherit ELSE Root
Chain(i) ==
    LET up[k \in 1..ChainLimit] ==
            IF k = 1 THEN i ELSE IF up[k - 1] = Root THEN Root ELSE ParentOf(up[k - 1])
    IN  SelectSeq(up, LAMBDA j : j # Root)

(* Mutant of Deltas: the chain is merged from the target up. *)
DeltasTargetFirst(i) == LET c == Chain(i) IN [k \in DOMAIN c |-> rec[c[k]].delta]

Deltas(i) == LET c == Chain(i) IN [k \in DOMAIN c |-> rec[c[Len(c) + 1 - k]].delta]

(* The merge fails on a record it cannot read. *)
Readable(i) == LET c == Chain(i) IN \A k \in DOMAIN c : rec[c[k]].whole

(* tpbcli_rtenv_merge_chain and tpb_rtenv_merge_chain are copies of each    *)
(* other but for the number of variables they hold.                        *)
MergeChain(i) == IF Readable(i) THEN MergeDeltas(Deltas(i)) ELSE Refused(NoSpec)
CoreMergeChain(i) ==
    IF Readable(i) THEN Core!MergeDeltas(Deltas(i)) ELSE Refused(NoSpec)

(* tpbcli_rtenv_write_active_template: everything the environment merges    *)
(* to, and the environment itself as the parent.                           *)
ActiveTemplate(i) == WriteTemplate([MergeChain(i) EXCEPT !.inherit = <<i>>])

(* What `rtenv new` creates: from options, or from the file that `rtenv new *)
(* -o` wrote with the parent active and the user added lines to.           *)
SpecOf(n, parent) ==
    CASE Source[n].kind = "options" -> ParseNewArgv(Source[n].options)
      [] OTHER -> IF Has(parent) /\ MergeChain(parent).ok
                  THEN ParseTemplateFile(ActiveTemplate(parent) \o Source[n].lines, NoSpec)
                  ELSE Refused(NoSpec)

(* Mutant of NewBegin: the --inherit argument is not looked up. *)
NewBeginUnchecked(p, n, parent) ==
    LET spec == SpecOf(n, parent) IN
    /\ At(p, "idle") /\ created < MaxId
    /\ spec.ok /\ spec.name # <<>>
    /\ Begin(p, [NoCall EXCEPT !.name = spec.name[1], !.parent = parent, !.spec = spec])

(* _sf_resolve_inherit: the parent is a listed environment, or the root;   *)
(* --inherit-from names it, or else it is the active environment.          *)
NewBegin(p, n, parent) ==
    LET spec == SpecOf(n, parent) IN
    /\ At(p, "idle") /\ created < MaxId
    /\ parent = Root \/ Has(parent)
    /\ spec.ok /\ spec.name # <<>>
    /\ Source[n].kind = "options" => spec.apps # <<>> \/ spec.vars # <<>>
    /\ Begin(p, [NoCall EXCEPT !.name = spec.name[1], !.parent = parent, !.spec = spec])

(* _sf_pick_build_env_name: the first of base, base_1, ... not in use.  The *)
(* snapshot is taken when the domain is empty or a new one is asked for.    *)
FreeBaseName == CHOOSE n \in BaseNames :
                    n \notin RowNames /\ \A m \in BaseNames \ RowNames : n <= m

(* The snapshot declares each variable of the caller, all to be ignored.   *)
SnapshotSpec ==
    [NoSpec EXCEPT !.vars = [i \in DOMAIN Environ |->
        Var(Environ[i].key, Environ[i].value, "ignore", "ignore")]]

SnapshotBegin(p, always_new) ==
    /\ always_new \/ rows = <<>>
    /\ Begin(p, [NoCall EXCEPT !.name = FreeBaseName, !.setbase = TRUE,
                               !.spec = SnapshotSpec])

(* tpb_raf_rtenv_alloc_next_id: the largest listed identifier plus one. *)
NextId == CHOOSE i \in 1..MaxId + 1 :
              (\A k \in DOMAIN rows : rows[k].id < i) /\ (i = 1 \/ Has(i - 1))

Alloc(p) ==
    /\ At(p, "alloc")
    /\ GoWith(p, "check", [me[p] EXCEPT !.id = NextId])
    /\ UNCHANGED <<rows, rec, base, lock, created, tasks, counted, overlap, clash, aborts>>

(* Mutant of CheckName: the record is written before the row. *)
CheckNameRecordFirst(p) ==
    /\ At(p, "check")
    /\ Goto(p, IF me[p].name \in RowNames THEN "idle" ELSE "truncate")
    /\ UNCHANGED <<rows, rec, base, lock, created, tasks, counted, overlap, clash, aborts>>

(* tpb_raf_entry_append_rtenv: TPBE_LIST_DUP when the name is listed. *)
CheckName(p) ==
    /\ At(p, "check")
    /\ Goto(p, IF me[p].name \in RowNames THEN "idle" ELSE "append")
    /\ UNCHANGED <<rows, rec, base, lock, created, tasks, counted, overlap, clash, aborts>>

AppendRow(p) ==
    /\ At(p, "append")
    /\ rows' = Append(rows, Row(me[p].id, me[p].name, me[p].parent))
    /\ Goto(p, "truncate")
    /\ UNCHANGED <<rec, base, lock, created, tasks, counted, overlap, clash, aborts>>

(* tpb_raf_record_write_rtenv: fopen("wb"), then the contents. *)
Truncate(i) == rec' = [rec EXCEPT ![i].live = TRUE, ![i].whole = FALSE]

RecordTruncate(p) ==
    /\ At(p, "truncate") /\ Truncate(me[p].id)
    /\ Goto(p, "write")
    /\ UNCHANGED <<rows, base, lock, created, tasks, counted, overlap, clash, aborts>>

RecordWrite(p) ==
    /\ At(p, "write")
    /\ rec' = [rec EXCEPT ![me[p].id] = [NoRecord EXCEPT !.live = TRUE, !.whole = TRUE,
                                                         !.inherit = me[p].parent,
                                                         !.delta = me[p].spec]]
    /\ Goto(p, CASE me[p].setbase -> "config"
                 [] ~me[p].setbase /\ me[p].parent # Root -> "derive_read"
                 [] OTHER -> "idle")
    /\ UNCHANGED <<rows, base, lock, created, tasks, counted, overlap, clash, aborts>>

(* tpb_raf_config_set_base_id: fopen("w"), then the new text. *)
ConfigTruncate(p) ==
    /\ At(p, "config") /\ base' = Root /\ Goto(p, "config_write")
    /\ UNCHANGED <<rows, rec, lock, created, tasks, counted, overlap, clash, aborts>>

ConfigWrite(p) ==
    /\ At(p, "config_write") /\ base' = me[p].id /\ Goto(p, "idle")
    /\ UNCHANGED <<rows, rec, lock, created, tasks, counted, overlap, clash, aborts>>

-----------------------------------------------------------------------------
(* tpb_raf_record_append_rtenv_derive: read, rewrite, patch row and record *)

Children(r) == {r.links[k] : k \in DOMAIN r.links}

Rewriting(i) == {p \in Proc : me[p].parent = i
                              /\ pc[p] \in {"derive_truncate", "derive_write"}}

DeriveRead(p) ==
    LET parent == me[p].parent IN
    /\ At(p, "derive_read")
    /\ GoWith(p, CASE ~rec[parent].whole -> "idle"
                   [] rec[parent].whole /\ me[p].id \in Children(rec[parent]) -> "derive_row"
                   [] OTHER -> "derive_truncate",
                 [me[p] EXCEPT !.old = rec[parent]])
    /\ clash' = (clash \/ ~rec[parent].whole)
    /\ UNCHANGED <<rows, rec, base, lock, created, tasks, counted, overlap, aborts>>

DeriveTruncate(p) ==
    /\ At(p, "derive_truncate") /\ Truncate(me[p].parent)
    /\ Goto(p, "derive_write")
    /\ UNCHANGED <<rows, base, lock, created, tasks, counted, overlap, clash, aborts>>

(* Mutant of DeriveWrite: the new child replaces the list of children. *)
DeriveWriteOnly(p) ==
    /\ At(p, "derive_write")
    /\ rec' = [rec EXCEPT ![me[p].parent] =
                   [me[p].old EXCEPT !.links = <<me[p].id>>, !.derive = me[p].id]]
    /\ clash' = (clash \/ Rewriting(me[p].parent) # {p})
    /\ Goto(p, "derive_row")
    /\ UNCHANGED <<rows, base, lock, created, tasks, counted, overlap, aborts>>

(* The copy goes back with the child added, counters and all. *)
DeriveWrite(p) ==
    /\ At(p, "derive_write")
    /\ rec' = [rec EXCEPT ![me[p].parent] =
                   [me[p].old EXCEPT !.links = Append(@, me[p].id), !.derive = me[p].id]]
    /\ clash' = (clash \/ Rewriting(me[p].parent) # {p})
    /\ Goto(p, "derive_row")
    /\ UNCHANGED <<rows, base, lock, created, tasks, counted, overlap, aborts>>

DeriveRow(p) ==
    /\ At(p, "derive_row")
    /\ rows' = [rows EXCEPT ![FirstRow(me[p].parent)].derive = me[p].id]
    /\ Goto(p, "derive_record")
    /\ UNCHANGED <<rec, base, lock, created, tasks, counted, overlap, clash, aborts>>

DeriveRecord(p) ==
    LET parent == me[p].parent IN
    /\ At(p, "derive_record")
    /\ rec' = IF rec[parent].whole THEN [rec EXCEPT ![parent].derive = me[p].id] ELSE rec
    /\ Goto(p, "idle")
    /\ UNCHANGED <<rows, base, lock, created, tasks, counted, overlap, clash, aborts>>

-----------------------------------------------------------------------------
(* tpb_rtenv_resolve_active_id, then tpb_raf_record_patch_rtenv_counters   *)

(* TPB_RTENV_ID if it is listed, else base_id of config.json, where an     *)
(* empty file reads as 1; the call fails when that has no row either.      *)
BaseId == IF base = Root THEN 1 ELSE base

ActiveId(rtenv_id) == IF Has(rtenv_id) THEN rtenv_id ELSE BaseId

CountBegin(p, rtenv_id) ==
    LET i == ActiveId(rtenv_id) IN
    /\ At(p, "idle") /\ Has(i) /\ tasks < MaxTask
    /\ tasks' = tasks + 1
    /\ GoWith(p, "count_lock", [me[p] EXCEPT !.id = i])
    /\ UNCHANGED <<rows, rec, base, lock, created, counted, overlap, clash, aborts>>

(* Mutant of CountLock: the counters are read without the lock. *)
CountLockDropped(p) ==
    LET i == me[p].id IN
    /\ At(p, "count_lock")
    /\ IF rec[i].whole THEN GoWith(p, "count_write", [me[p] EXCEPT !.old = rec[i]])
                       ELSE Goto(p, "idle")
    /\ UNCHANGED <<rows, rec, base, lock, created, tasks, counted, overlap, clash, aborts>>

(* fopen, fcntl(F_SETLKW), start magic, and the old value *)
CountLock(p) ==
    LET i == me[p].id IN
    /\ At(p, "count_lock") /\ lock[i] = NoProc
    /\ IF rec[i].whole
         THEN /\ lock' = [lock EXCEPT ![i] = p]
              /\ GoWith(p, "count_write", [me[p] EXCEPT !.old = rec[i]])
         ELSE Goto(p, "idle") /\ UNCHANGED lock
    /\ UNCHANGED <<rows, rec, base, created, tasks, counted, overlap, clash, aborts>>

(* What is written into an emptied file is lost when its contents come.    *)
CountWrite(p) ==
    LET i == me[p].id IN
    /\ At(p, "count_write")
    /\ rec' = IF rec[i].whole THEN [rec EXCEPT ![i].ntask = me[p].old.ntask + 1] ELSE rec
    /\ counted' = [counted EXCEPT ![i] = @ + 1]
    /\ clash' = (clash \/ Rewriting(i) # {} \/ ~rec[i].whole)
    /\ lock' = [lock EXCEPT ![i] = NoProc]
    /\ Goto(p, "count_row")
    /\ UNCHANGED <<rows, base, created, tasks, overlap, aborts>>

CountRow(p) ==
    /\ At(p, "count_row")
    /\ rows' = [rows EXCEPT ![FirstRow(me[p].id)].ntask = @ + 1]
    /\ Goto(p, "idle")
    /\ UNCHANGED <<rec, base, lock, created, tasks, counted, overlap, clash, aborts>>

-----------------------------------------------------------------------------
(* The commands that read; TPB_RTENV_ID is Root when it is not set.        *)

(* `rtenv load` and `rtenv show` take it as it is, and need a row for it.  *)
Selected(rtenv_id) ==
    LET i == IF rtenv_id # Root THEN rtenv_id ELSE BaseId IN IF Has(i) THEN i ELSE Root

(* `rtenv list` marks the active environment, or none. *)
ListActive(rtenv_id) ==
    LET i == IF rtenv_id # Root THEN rtenv_id ELSE BaseId IN IF Has(i) THEN i ELSE Root

Shell == [key \in {Environ[i].key : i \in DOMAIN Environ} |->
              Environ[CHOOSE i \in DOMAIN Environ : Environ[i].key = key].value]

-----------------------------------------------------------------------------
Crash(p) ==
    /\ pc[p] \notin {"idle", "dead"} /\ aborts < MaxAbort
    /\ aborts' = aborts + 1
    /\ lock' = [i \in EnvId |-> IF lock[i] = p THEN NoProc ELSE lock[i]]
    /\ Goto(p, "dead")
    /\ UNCHANGED <<rows, rec, base, created, tasks, counted, overlap, clash>>

Step(p) ==
    \/ Alloc(p) \/ CheckName(p) \/ AppendRow(p) \/ RecordTruncate(p) \/ RecordWrite(p)
    \/ ConfigTruncate(p) \/ ConfigWrite(p)
    \/ DeriveRead(p) \/ DeriveTruncate(p) \/ DeriveWrite(p) \/ DeriveRow(p)
    \/ DeriveRecord(p) \/ CountLock(p) \/ CountWrite(p) \/ CountRow(p)

Next ==
    \E p \in Proc :
        \/ \E n \in Name, parent \in EnvId \cup {Root} : NewBegin(p, n, parent)
        \/ \E always_new \in BOOLEAN : SnapshotBegin(p, always_new)
        \/ \E rtenv_id \in EnvId : CountBegin(p, rtenv_id)
        \/ Step(p)
        \/ Crash(p)

Spec == Init /\ [][Next]_vars

-----------------------------------------------------------------------------
(* Properties *)

(* Every environment inherits from one with a smaller identifier, so the   *)
(* walk of tpb_rtenv_merge_chain ends, however creations interleave: a     *)
(* parent is listed before its child's identifier is taken.                *)
InheritDecreases ==
    /\ \A k \in DOMAIN rows : rows[k].inherit < rows[k].id
    /\ \A i \in EnvId : rec[i].inherit < i

(* A record, or a base_id other than the default, never names an           *)
(* environment without a row: the row comes first, the record second, the  *)
(* configuration last, also when a process dies in between.                *)
RowFirst ==
    /\ \A i \in EnvId : rec[i].live => Has(i)
    /\ base \notin {Root, 1} => Has(base) /\ rec[base].live
    /\ \A k \in DOMAIN rows : rows[k].inherit # Root => Has(rows[k].inherit)

Quiet == \A p \in Proc : pc[p] = "idle"

(* Once every process is back, none died and no two met at one record, an  *)
(* environment is listed in the record of its parent, and the parent's row *)
(* and record name one of its children.                                    *)
FamilyLinked ==
    Quiet /\ ~overlap /\ ~clash =>
        \A k \in DOMAIN rows : rows[k].inherit # Root =>
            LET parent == rec[rows[k].inherit]
                row == rows[FirstRow(rows[k].inherit)] IN
            {rows[k].id, parent.derive, row.derive} \subseteq Children(parent)

(* The counter in a record is exact, whatever processes count at the same  *)
(* time, unless the record was rewritten under them; the row's counter     *)
(* follows it.                                                             *)
CountsExact ==
    ~clash /\ ~overlap => \A i \in EnvId :
        /\ rec[i].whole => rec[i].ntask = counted[i]
        /\ Has(i) => rows[FirstRow(i)].ntask <= counted[i]
        /\ Has(i) /\ Quiet => rows[FirstRow(i)].ntask = counted[i]

(* The declaration of a key by the environment nearest to i in its chain.  *)
Nearest(i, key) ==
    LET c == Chain(i)
        vars_of(a) == rec[c[a[1]]].delta.vars
        at == {a \in (DOMAIN c) \X (1..MaxVar) :
                  a[2] \in DOMAIN vars_of(a) /\ vars_of(a)[a[2]].key = key}
        best == CHOOSE a \in at : \A b \in at : a[1] < b[1] \/ (a[1] = b[1] /\ a[2] >= b[2])
    IN  IF at = {} THEN <<>> ELSE <<vars_of(best)[best[2]]>>

(* After `eval "$(tpbcli rtenv load)"` the tasks of that shell are counted  *)
(* for the environment that was loaded, `rtenv list` shows it as active,    *)
(* and every variable is what the nearest environment of the chain declares *)
(* for it, together with what the shell had where that is to be kept.  The  *)
(* same value given by --kenvs gives a kernel the same variable; and when   *)
(* every variable declared "fail" is also overwritten, no task is refused.  *)
LoadGivesNearest ==
    /\ \A rtenv_id \in EnvId \cup {Root} :
           LET i == Selected(rtenv_id) IN i # Root => ActiveId(i) = i /\ ListActive(i) = i
    /\ \A i \in RowIds :
           LET merged == MergeChain(i)  shell == Load(Shell, merged)
               core == CoreMergeChain(i) IN
           merged.ok /\ LoadOk(merged) =>
               /\ \A key \in DOMAIN shell :
                     LET had == Cur(Shell, key)  v == Nearest(i, key) IN
                     \/ (v = <<>> \/ v[1].on_set = "ignore") /\ shell[key] = had
                     \/ v[1].on_set = "overwrite" /\ shell[key] = v[1].value
                     \/ had = <<>> /\ shell[key] = v[1].value
                     \/ v[1].on_set = "prepend" /\ shell[key] = v[1].value \o <<Colon>> \o had
                     \/ v[1].on_set = "append" /\ shell[key] = had \o <<Colon>> \o v[1].value
               /\ \A v \in ToSet(merged.vars) :
                     LET had == Cur(Shell, v.key) IN
                     v.on_set # "ignore" /\ (had = <<>> \/ Last(had) # Colon) =>
                         Core!ApplyOnset(Shell, core, v.key, v.value) = <<shell[v.key]>>
               /\ LET fails == {k \in DOMAIN merged.vars : merged.vars[k].on_get = "fail"} IN
                  fails # {} /\ (\A k \in fails : merged.vars[k].on_set = "overwrite")
                      => Core!CaptureEnviron(shell, core).ok

(* A text without its empty segments. *)
Squeezed(text) ==
    LET kept(k) == \/ text[k] # Colon
                   \/ /\ \E j \in 1..k : text[j] # Colon
                      /\ k < Len(text) /\ text[k + 1] # Colon
    IN  [j \in 1..Cardinality({k \in DOMAIN text : kept(k)}) |->
            text[CHOOSE k \in DOMAIN text :
                     kept(k) /\ Cardinality({l \in 1..k : kept(l)}) = j]]

(* What the lines that a user added to a template declare. *)
Added(n) == ParseTemplateFile(Source[n].lines, NoSpec)

(* An environment made from the template of the active one (rtenv new -o,   *)
(* then -f) declares what its parent merges to, but for the variables the   *)
(* user added: every variable with its modes and, except for empty          *)
(* segments, its value, unless that holds a quote or more segments than     *)
(* fit; every application, unless it has a note and no version.             *)
CopyDeclaresTheSame ==
    \A k \in DOMAIN rows :
        LET i == rows[k].id  parent == rows[k].inherit
            was == MergeChain(parent)  is == MergeChain(i)
        IN
        /\ rows[k].name \in Name /\ Source[rows[k].name].kind = "active"
        /\ ~overlap /\ Readable(i) /\ Readable(parent) /\ is.ok /\ was.ok
        => /\ \A v \in {v \in ToSet(was.vars) : MergedFind(Added(rows[k].name), v.key) = <<>>} :
                 \E w \in ToSet(is.vars) :
                     /\ w = [v EXCEPT !.value = w.value]
                     /\ \/ w.value = Squeezed(v.value)
                        \/ Quotes \cap ToSet(v.value) # {}
                        \/ Cardinality({l \in DOMAIN Squeezed(v.value) :
                                           Squeezed(v.value)[l] = Colon}) > MaxParts - 4
           /\ \A a \in ToSet(was.apps) :
                 a \in ToSet(is.apps) \/ (a.version = <<>> /\ a.note # <<>>)

(* "name must be unique": no two environments carry the same name. *)
NamesUnique ==
    \A j, k \in DOMAIN rows : rows[j].name = rows[k].name => j = k
=============================================================================
