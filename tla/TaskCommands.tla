---------------------------- MODULE TaskCommands ----------------------------
(***************************************************************************)
(* `tpbcli task ls`, `get-result` and `export` run by several processes in *)
(* one workspace while tasks are recorded. `ls` replaces the RIDMAP file   *)
(* through a temporary file; the others read it, and `export` picks a      *)
(* directory under the output root and writes a pair of files per record.  *)
(* A process can crash between any two steps, and a write can fail.        *)
(***************************************************************************)
EXTENDS TaskReport, TaskCsv

CONSTANTS
  Cmds,           \* the processes, one command each (and its pid)
  TextOf,         \* TaskIds -> the texts of the record: environment, columns, fields
  Lines,          \* the command lines that are given
  MaxSuffix,      \* directories tried for a task: base, _1 ... (3 in the code)
  SeenMax,        \* members remembered to leave out repeated ones (32 in the code)
  MaxFail,        \* bound on failed writes
  InitStates,     \* the workspaces the commands start from
  Garbage         \* what an index past the end of the map reads

VARIABLES
  ridmap,         \* the RIDMAP file, None when there is none
  tmp,            \* command -> its temporary RIDMAP file, None when there is none
  dirs,           \* <<root, suffix>> -> the files in that export directory
  cmd,            \* command -> its state
  nfail,          \* failed writes so far
  listed,         \* history: every listing an `ls` has shown
  overlapped      \* history: directories two running exports have picked

vars == <<storeVars, ridmap, tmp, dirs, cmd, nfail, listed, overlapped>>

(* A list of TaskIDs that a capsule k can hold: every member once, and not *)
(* the capsule.                                                            *)
MemberList(k, ms) ==
  /\ ms \in Seq(TaskIds)
  /\ \A i \in DOMAIN ms : ms[i] # k /\ \A j \in DOMAIN ms : i # j => ms[i] # ms[j]

(* Tasks that were recorded had an environment that could be captured. *)
ASSUME TextAssumption == \A id \in TaskIds : Capturable(TextOf[id].env)

(* The workspaces to start from: rows and members of tasks that are tasks, *)
(* export directories with what the user keeps there.                      *)
ASSUME TaskAssumption ==
  /\ None \notin Cmds /\ None # "ok"
  /\ \A k \in DOMAIN Joiners : \A i \in DOMAIN Joiners[k] : Joiners[k][i] # k
  /\ \A s \in InitStates :
       /\ s.files \subseteq TaskIds /\ s.index \in Seq(TaskIds)
       /\ \A k \in DOMAIN s.member : MemberList(k, s.member[k])
       /\ \A d \in DOMAIN s.dirs : \A f \in s.dirs[d] :
            f = [kind |-> "user", id |-> f.id, pid |-> f.pid]

Idle ==
  [pc |-> "idle", op |-> None, opts |-> None, rids |-> <<>>, ids |-> <<>>,
   seen |-> <<>>, works |-> <<>>, dir |-> None, todo |-> <<>>, ok |-> {},
   wanted |-> {}, failed |-> FALSE, status |-> None, report |-> None]

Running(c) == cmd[c].pc \notin {"idle", "done", "crashed"}

(* Command c goes on at pc with the fields of s. *)
Step(c, s) == cmd' = [cmd EXCEPT ![c] = s]

At(c, pc) == cmd[c].pc = pc

Done(p, status) == [p EXCEPT !.pc = "done", !.status = status]

-----------------------------------------------------------------------------
(* task ls *)

StartLs(opts) ==
  LET shown == Listing(opts)
  IN  IF shown = <<>> THEN Done([Idle EXCEPT !.op = "ls"], "ok")
      ELSE [Idle EXCEPT !.op = "ls", !.pc = "map tmp", !.ids = shown]

(* Mutant of MapTmp: the lines go straight to the RIDMAP file. *)
MapTmpInPlace(c) ==
  /\ At(c, "map tmp")
  /\ ridmap' = SubSeq(cmd[c].ids, 1, Len(cmd[c].ids) - 1)
  /\ tmp' = [tmp EXCEPT ![c] = <<>>]
  /\ Step(c, [cmd[c] EXCEPT !.pc = "map write"])
  /\ UNCHANGED <<storeVars, dirs, nfail, listed, overlapped>>

(* The temporary file exists, with some of the lines flushed. *)
MapTmp(c) ==
  /\ At(c, "map tmp")
  /\ tmp' = [tmp EXCEPT ![c] = <<>>]
  /\ Step(c, [cmd[c] EXCEPT !.pc = "map write"])
  /\ UNCHANGED <<storeVars, ridmap, dirs, nfail, listed, overlapped>>

(* fflush, fsync and fclose. *)
MapWrite(c) ==
  /\ At(c, "map write")
  /\ tmp' = [tmp EXCEPT ![c] = cmd[c].ids]
  /\ Step(c, [cmd[c] EXCEPT !.pc = "map rename"])
  /\ UNCHANGED <<storeVars, ridmap, dirs, nfail, listed, overlapped>>

MapRename(c) ==
  /\ At(c, "map rename")
  /\ ridmap' = tmp[c]
  /\ tmp' = [tmp EXCEPT ![c] = None]
  /\ Step(c, Done(cmd[c], "ok"))
  /\ UNCHANGED <<storeVars, dirs, nfail, listed, overlapped>>

MapFail(c) ==
  /\ cmd[c].pc \in {"map tmp", "map write", "map rename"}
  /\ nfail < MaxFail /\ nfail' = nfail + 1
  /\ tmp' = [tmp EXCEPT ![c] = None]
  /\ Step(c, Done(cmd[c], "error"))
  /\ UNCHANGED <<storeVars, ridmap, dirs, listed, overlapped>>

-----------------------------------------------------------------------------
(* Selections of get-result and export. *)

Start(op, opts) ==
  IF op = "gr" /\ ~ValidateMetaNames(opts.meta) THEN Done([Idle EXCEPT !.op = op], "error")
  ELSE [Idle EXCEPT !.op = op, !.opts = opts,
          !.pc = CASE opts.sel.kind = "rid" -> "parse rids"
                   [] opts.sel.kind = "id"  -> "resolve ids"
                   [] OTHER                 -> "read map"]

(* What tpbcli_task may make of the lines, computed once. *)
Outcomes == UNION {ParseArgs(line) : line \in Lines}

(* tpbcli_task: a line is read and its command begins. *)
Invoke(c, o) ==
  LET ls == o.res = "run" /\ o.op = "ls"
  IN  /\ At(c, "idle")
      /\ Step(c, CASE o.res = "help"    -> Done(Idle, "help")
                   [] o.res = "refused" -> Done(Idle, "error")
                   [] ls                -> StartLs(o.opts)
                   [] OTHER             -> Start(o.op, o.opts))
      /\ listed' = IF ls THEN listed \cup {Listing(o.opts)} ELSE listed
      /\ UNCHANGED <<storeVars, ridmap, tmp, dirs, nfail, overlapped>>

(* A RIDMAP that does not exist reads as an empty one. *)
RidmapRead == IF ridmap = None THEN <<>> ELSE ridmap

(* The specification is checked against the map as it is now ... *)
ParseRids(c) ==
  LET rids == ParseRidList(cmd[c].opts.sel.spec, RidmapRead)
  IN  /\ At(c, "parse rids")
      /\ Step(c, IF rids = None THEN Done(cmd[c], "error")
                 ELSE [cmd[c] EXCEPT !.pc = "index map", !.rids = rids,
                                     !.seen = RidmapRead])
      /\ UNCHANGED <<storeVars, ridmap, tmp, dirs, nfail, listed, overlapped>>

(* ... and the rids index the map as it is when it is read again. Past its *)
(* end is whatever the heap holds: the earlier copy of the map, or bytes   *)
(* that are no task ID.                                                    *)
IndexMap(c) ==
  LET map == RidmapRead
      rid(i) == cmd[c].rids[i] + 1
  IN  /\ At(c, "index map")
      /\ \E junk \in {TRUE, FALSE} :
           Step(c, [cmd[c] EXCEPT !.pc = "selected",
                     !.ids = [i \in DOMAIN cmd[c].rids |->
                                IF rid(i) <= Len(map) THEN map[rid(i)]
                                ELSE IF junk THEN Garbage
                                ELSE cmd[c].seen[rid(i)]],
                     !.seen = <<>>])
      /\ UNCHANGED <<storeVars, ridmap, tmp, dirs, nfail, listed, overlapped>>

ReadMap(c) ==
  /\ At(c, "read map")
  /\ Step(c, IF RidmapRead = <<>> THEN Done(cmd[c], "error")
             ELSE [cmd[c] EXCEPT !.pc = "selected", !.ids = RidmapRead])
  /\ UNCHANGED <<storeVars, ridmap, tmp, dirs, nfail, listed, overlapped>>

ResolvePrefixes(c) ==
  LET spec == cmd[c].opts.sel.spec
      ids  == IF cmd[c].op = "export" THEN ResolveIds(spec, 4, 40)
              ELSE ResolveIds(spec, 6, 20)
  IN  /\ At(c, "resolve ids")
      /\ Step(c, IF ids = None THEN Done(cmd[c], "error")
                 ELSE [cmd[c] EXCEPT !.pc = "selected", !.ids = ids])
      /\ UNCHANGED <<storeVars, ridmap, tmp, dirs, nfail, listed, overlapped>>

-----------------------------------------------------------------------------
(* task get-result *)

Report(c) ==
  LET p == cmd[c]
      refs == [i \in DOMAIN p.ids |-> IF p.opts.sel.kind = "rid" THEN <<"r", p.rids[i]>>
                                      ELSE <<"i", i - 1>>]
  IN  /\ At(c, "selected") /\ p.op = "gr"
      /\ \E tasks \in {BuildLogicalTasks(p.ids, refs)} :
         \E r \in {GetResult(tasks, p.opts)} :
           Step(c, [Done(p, r.status) EXCEPT !.report = r])
      /\ UNCHANGED <<storeVars, ridmap, tmp, dirs, nfail, listed, overlapped>>

-----------------------------------------------------------------------------
(* task export *)

(* The work of one selected task: its entry task, or the record itself     *)
(* alone when it is kept; None when a record on the way is unreadable.     *)
TraceOne(id, toEntry) ==
  IF toEntry
  THEN [root |-> FollowDerive(id), single |-> FALSE]
  ELSE IF id \in TaskIds /\ Readable(id)
  THEN [root |-> id, single |-> Attr[id].derive # None]
  ELSE [root |-> None, single |-> FALSE]

(* Without an option the user is asked about each task that has an entry;  *)
(* yes is the set of those answered with y (none when stdin is no terminal).*)
ToEntry(id, trace, yes) ==
  \/ trace = "entry"
  \/ trace = "ask" /\ id \in yes

BuildWorks(c) ==
  LET p == cmd[c]
  IN  /\ At(c, "selected") /\ p.op = "export"
      /\ \E yes \in IF p.opts.trace = "ask"
                    THEN SUBSET {id \in Range(p.ids) \cap TaskIds :
                                   Readable(id) /\ Attr[id].derive # None}
                    ELSE {{}} :
           LET works == Unique([i \in DOMAIN p.ids |->
                          TraceOne(p.ids[i], ToEntry(p.ids[i], p.opts.trace, yes))])
           IN  Step(c, IF \E i \in DOMAIN works : works[i].root = None
                       THEN Done(p, "error")
                       ELSE [p EXCEPT !.pc = "work", !.works = works])
      /\ UNCHANGED <<storeVars, ridmap, tmp, dirs, nfail, listed, overlapped>>

(* The works left after this one, or the end. *)
NextWork(p) == [p EXCEPT !.works = Tail(@), !.pc = "work", !.todo = <<>>,
                         !.dir = None]

(* End of the command, or the first candidate of the next work. Member     *)
(* filters are refused with a record that is kept alone.                   *)
BeginWork(c) ==
  LET p == cmd[c]
  IN  /\ At(c, "work")
      /\ Step(c, IF p.works = <<>>
                 THEN Done(p, IF p.failed THEN "error" ELSE "ok")
                 ELSE IF p.opts.filters # <<>> /\ Head(p.works).single
                 THEN [NextWork(p) EXCEPT !.failed = TRUE]
                 ELSE [p EXCEPT !.pc = "stat",
                                !.dir = <<Head(p.works).root, 0>>])
      /\ UNCHANGED <<storeVars, ridmap, tmp, dirs, nfail, listed, overlapped>>

(* History: another running export writes to the directory picked now. *)
Picked(c, d) ==
  overlapped' = IF \E o \in Cmds \ {c} : Running(o) /\ cmd[o].dir = d /\ ~At(o, "stat")
                THEN overlapped \cup {d} ELSE overlapped

(* stat of a candidate: missing, an empty directory, or in use. *)
PickStat(c) ==
  LET p == cmd[c]
  IN  /\ At(c, "stat")
      /\ \/ /\ p.dir \notin DOMAIN dirs
            /\ Step(c, [p EXCEPT !.pc = "mkdir"])
            /\ UNCHANGED overlapped
         \/ /\ p.dir \in DOMAIN dirs /\ dirs[p.dir] = {}
            /\ Step(c, [p EXCEPT !.pc = "root"])
            /\ Picked(c, p.dir)
         \/ /\ p.dir \in DOMAIN dirs /\ dirs[p.dir] # {}
            /\ Step(c, IF p.dir[2] < MaxSuffix
                       THEN [p EXCEPT !.dir[2] = @ + 1]
                       ELSE [NextWork(p) EXCEPT !.failed = TRUE])
            /\ UNCHANGED overlapped
      /\ UNCHANGED <<storeVars, ridmap, tmp, dirs, nfail, listed>>

(* mkdir of a directory that has come to exist since the stat is no error. *)
PickMkdir(c) ==
  LET p == cmd[c]
  IN  /\ At(c, "mkdir")
      /\ dirs' = [d \in DOMAIN dirs \cup {p.dir} |->
                    IF d \in DOMAIN dirs THEN dirs[d] ELSE {}]
      /\ Step(c, [p EXCEPT !.pc = "root"])
      /\ Picked(c, p.dir)
      /\ UNCHANGED <<storeVars, ridmap, tmp, nfail, listed>>

(* Member id at position m is matched by every member filter. *)
Passes(opts, m, id) ==
  \A f \in Range(opts.filters) :
    IF f.key = "subrank" THEN m - 1 \in f.ranks ELSE f.tids \cap Attr[id].tids # {}

(* Member m is exported: it passes and is not one seen before. A member is *)
(* remembered the first time it is exported, as long as there is room.     *)
Wants(opts, ms, m) ==
  LET first(k) == /\ Readable(ms[k]) /\ Passes(opts, k, ms[k])
                  /\ \A j \in 1..(k - 1) : ms[j] = ms[k] => ~Passes(opts, j, ms[j])
      seen(k) == first(k) /\ Cardinality({j \in 1..(k - 1) : first(j)}) < SeenMax
  IN  Passes(opts, m, ms[m]) /\ \A j \in 1..(m - 1) : ms[j] = ms[m] => ~seen(j)

(* The root record is read: a capsule is followed by its members.          *)
ReadRoot(c) ==
  LET p == cmd[c]
      w == Head(p.works)
      capsule == ~w.single /\ ConfirmCapsule(w.root)
      ms == IF capsule THEN ReadCapsuleMembers(w.root) ELSE <<>>
  IN  /\ At(c, "root")
      /\ Step(c,
           IF p.opts.filters # <<>> /\ ~capsule
           THEN [NextWork(p) EXCEPT !.failed = TRUE]
           ELSE [p EXCEPT
                  !.pc = "record",
                  !.todo = <<[id |-> w.root, root |-> TRUE, pass |-> TRUE]>> \o
                    [m \in DOMAIN ms |->
                       [id |-> ms[m], root |-> FALSE, pass |-> Wants(p.opts, ms, m)]],
                  !.wanted = @ \cup {<<p.dir, w.root>>} \cup
                    {<<p.dir, ms[m]>> : m \in {k \in DOMAIN ms : Wants(p.opts, ms, k)}}])
      /\ UNCHANGED <<storeVars, ridmap, tmp, dirs, nfail, listed, overlapped>>

(* After the record at the head of todo: a root that failed ends the work. *)
AfterRecord(p, good) ==
  IF Head(p.todo).root /\ ~good THEN [NextWork(p) EXCEPT !.failed = TRUE]
  ELSE [p EXCEPT !.pc = "record", !.todo = Tail(@), !.failed = @ \/ ~good,
                 !.ok = IF good THEN @ \cup {<<p.dir, Head(p.todo).id>>} ELSE @]

(* The next record: none is left, it cannot be read, it is filtered out or *)
(* its pair of files is begun.                                             *)
ReadRecord(c) ==
  LET p == cmd[c]
      t == Head(p.todo)
  IN  /\ At(c, "record")
      /\ Step(c, IF p.todo = <<>> THEN NextWork(p)
                 ELSE IF ~Readable(t.id) THEN AfterRecord(p, FALSE)
                 ELSE IF ~t.pass
                 THEN [p EXCEPT !.todo = Tail(@)]
                 ELSE [p EXCEPT !.pc = "meta tmp"])
      /\ UNCHANGED <<storeVars, ridmap, tmp, dirs, nfail, listed, overlapped>>

File(kind, id, pid) == [kind |-> kind, id |-> id, pid |-> pid]
Meta(id) == File("meta", id, None)
Data(id) == File("data", id, None)

InDir(d, gone, new) == dirs' = [dirs EXCEPT ![d] = (@ \ gone) \cup new]

(* The records whose data file the writer refuses. *)
Unwritable == {id \in TaskIds : WriteData(TextOf[id]) = Refused}

(* One of the two files: the text goes to a temporary file ... *)
OpenTmp(c, pc, kind, next) ==
  LET p == cmd[c]
  IN  /\ At(c, pc)
      /\ InDir(p.dir, {}, {File(kind, Head(p.todo).id, c)})
      /\ Step(c, [p EXCEPT !.pc = next])
      /\ UNCHANGED <<storeVars, ridmap, tmp, nfail, listed, overlapped>>

MetaTmp(c) == OpenTmp(c, "meta tmp", "meta", "meta rename")
DataTmp(c) == OpenTmp(c, "data tmp", "data", "data rename")

(* ... which is renamed when it is complete. *)
MetaRename(c) ==
  LET p == cmd[c] id == Head(p.todo).id
  IN  /\ At(c, "meta rename")
      /\ InDir(p.dir, {File("meta", id, c)}, {Meta(id)})
      /\ Step(c, [p EXCEPT !.pc = "data tmp"])
      /\ UNCHANGED <<storeVars, ridmap, tmp, nfail, listed, overlapped>>

DataRename(c) ==
  LET p == cmd[c] id == Head(p.todo).id
  IN  /\ At(c, "data rename") /\ id \notin Unwritable
      /\ InDir(p.dir, {File("data", id, c)}, {Data(id)})
      /\ Step(c, AfterRecord(p, TRUE))
      /\ UNCHANGED <<storeVars, ridmap, tmp, nfail, listed, overlapped>>

(* A write that fails removes its temporary file; the record has failed. *)
MetaFail(c) ==
  LET p == cmd[c] id == Head(p.todo).id
  IN  /\ At(c, "meta rename")
      /\ nfail < MaxFail /\ nfail' = nfail + 1
      /\ InDir(p.dir, {File("meta", id, c)}, {})
      /\ Step(c, AfterRecord(p, FALSE))
      /\ UNCHANGED <<storeVars, ridmap, tmp, listed, overlapped>>

(* The data file fails on its text or on a write ... *)
DataFails(c) ==
  \/ Head(cmd[c].todo).id \in Unwritable /\ UNCHANGED nfail
  \/ nfail < MaxFail /\ nfail' = nfail + 1

(* Mutant of DataFail: the meta file of the record is left behind. *)
DataFailKeepMeta(c) ==
  LET p == cmd[c] id == Head(p.todo).id
  IN  /\ At(c, "data rename") /\ DataFails(c)
      /\ InDir(p.dir, {File("data", id, c)}, {})
      /\ Step(c, AfterRecord(p, FALSE))
      /\ UNCHANGED <<storeVars, ridmap, tmp, listed, overlapped>>

(* ... and the meta file of the record is removed with it. *)
DataFail(c) ==
  LET p == cmd[c] id == Head(p.todo).id
  IN  /\ At(c, "data rename") /\ DataFails(c)
      /\ InDir(p.dir, {File("data", id, c), Meta(id)}, {})
      /\ Step(c, AfterRecord(p, FALSE))
      /\ UNCHANGED <<storeVars, ridmap, tmp, listed, overlapped>>

-----------------------------------------------------------------------------
(* A process is killed: its files stay as they are. *)
Crash(c) ==
  /\ Running(c)
  /\ Step(c, [cmd[c] EXCEPT !.pc = "crashed"])
  /\ UNCHANGED <<storeVars, ridmap, tmp, dirs, nfail, listed, overlapped>>

Record ==
  /\ Recorder
  /\ UNCHANGED <<ridmap, tmp, dirs, cmd, nfail, listed, overlapped>>

Init ==
  /\ \E s \in InitStates :
       /\ files = s.files /\ index = s.index /\ member = s.member
       /\ ridmap = s.ridmap /\ dirs = s.dirs
       /\ listed = IF s.ridmap = None THEN {} ELSE {s.ridmap}
  /\ tmp = [c \in Cmds |-> None]
  /\ cmd = [c \in Cmds |-> Idle]
  /\ nfail = 0
  /\ overlapped = {}

Next ==
  \/ Record
  \/ \E c \in Cmds :
       \/ \E o \in Outcomes : Invoke(c, o)
       \/ MapTmp(c) \/ MapWrite(c) \/ MapRename(c) \/ MapFail(c)
       \/ ParseRids(c) \/ IndexMap(c) \/ ReadMap(c) \/ ResolvePrefixes(c)
       \/ Report(c)
       \/ BuildWorks(c) \/ BeginWork(c) \/ PickStat(c) \/ PickMkdir(c)
       \/ ReadRoot(c) \/ ReadRecord(c)
       \/ MetaTmp(c) \/ MetaRename(c) \/ MetaFail(c)
       \/ DataTmp(c) \/ DataRename(c) \/ DataFail(c)
       \/ Crash(c)

Spec == Init /\ [][Next]_vars

-----------------------------------------------------------------------------
(* The RIDMAP file is always one whole listing that an `ls` has shown,     *)
(* whatever crashes, fails or runs at the same time: a rid never counts    *)
(* into a cut or mixed list.                                               *)
MapIsListing == ridmap = None \/ ridmap \in listed

(* The rids of one command are all taken from one listing: false of the    *)
(* code, which checks them against the map and then reads the map again.   *)
RidsOfOneListing ==
  \A c \in Cmds :
    cmd[c].rids # <<>> /\ cmd[c].ids # <<>> =>
      \E l \in listed : \A i \in DOMAIN cmd[c].rids :
        cmd[c].rids[i] < Len(l) /\ cmd[c].ids[i] = l[cmd[c].rids[i] + 1]

(* The records a directory holds a file of that kind for. *)
Holds(d, kind) == {f.id : f \in {g \in dirs[d] : g.kind = kind /\ g.pid = None}}

(* An export directory that only one running export at a time has used     *)
(* holds a meta file and a data file for exactly the records that were     *)
(* exported, apart from the pair a process is (or died) working on; and an *)
(* export that ends with success has exported every record it was asked    *)
(* for. No later export disturbs it.                                       *)
PairsComplete ==
  LET alone == DOMAIN dirs \ overlapped
      working(d) == {Head(cmd[c].todo).id :
                       c \in {o \in Cmds : /\ cmd[o].dir = d /\ cmd[o].todo # <<>>
                                           /\ cmd[o].pc # "done"}}
      exported(d) == {id \in TaskIds : \E c \in Cmds : <<d, id>> \in cmd[c].ok}
  IN  /\ \A d \in alone :
           /\ Holds(d, "data") \cup working(d) = exported(d) \cup working(d)
           /\ Holds(d, "meta") \cup working(d) = exported(d) \cup working(d)
      /\ \A c \in Cmds :
           cmd[c].op = "export" /\ cmd[c].status = "ok" => cmd[c].wanted = cmd[c].ok

(* get-result says what it leaves out. A pooled row holds samples of one   *)
(* unit; every member whose samples are not in it is counted by a warning, *)
(* of the row or, when it cannot be read, of the task; a row without any   *)
(* samples has a warning (one about a repeated header or another unit does *)
(* not say of which task); and in the report of names the ranges, when the *)
(* buffer holds them, name the members that hold the name, no more and no  *)
(* fewer.                                                                  *)
SaysWhatItLeavesOut ==
  \A c \in {o \in Cmds : cmd[o].report # None} :
    LET r == cmd[c].report
        warned(i, name, kinds) ==
          \E w \in r.warns : /\ w.task = i /\ w.name = name /\ w.kind \in kinds
                             /\ w.used # 0 => w.used < w.of
    IN  /\ \A row \in {x \in r.rows : x.subrank = 0} :
             LET t == r.tasks[row.task]
             IN  /\ \A m \in row.used : Output(t.members[m], row.name).unit = row.unit
                 /\ row.used = {} =>
                      \/ warned(row.task, row.name, {"missing"})
                      \/ warned(None, row.name, {"unit", "duplicate"})
                 /\ row.used # {} /\ t.readable # row.used =>
                      warned(row.task, row.name, {"used"})
                 /\ t.readable # DOMAIN t.members => warned(row.task, None, {"meta"})
        /\ r.names # None =>
             \A i \in DOMAIN r.tasks : \A name \in DOMAIN r.names.private[i] :
               LET g == r.names.private[i][name]
               IN  g.runs # {} /\ g.shown =>
                     UNION {run[1]..run[2] : run \in g.runs} =
                       {m \in r.tasks[i].readable :
                          Cardinality(OutputsNamed(r.tasks[i].members[m], name)) = 1}

(* "used <usable>/<total members> members" (tpbcli_task.md 7.5): false of  *)
(* the code, which counts the used members out of those it could read. The *)
(* others are counted by the warning of the task.                          *)
UsedOfAllMembers ==
  \A c \in {o \in Cmds : cmd[o].report # None} :
    \A w \in {x \in cmd[c].report.warns : x.kind = "used"} :
      w.of = Len(cmd[c].report.tasks[w.task].members)

(* The texts of every record, computed once. *)
AllReadBack == \A id \in TaskIds : ReadsBack(TextOf[id])

(* The files an export has put in place read back, row by row, as the      *)
(* values of the record, the environment that was captured and the fields  *)
(* of the meta file included; for texts without three commas in a row (for *)
(* those see MetaHasTwoColumns).                                           *)
ExportReadsBack ==
  \A d \in DOMAIN dirs : Holds(d, "data") # {} => AllReadBack

(* "A blank is put between every two adjacent commas of a string", "the    *)
(* meta file has two columns" (tpbcli_task.md 8.6 and 8.7): a reader that  *)
(* splits the rows of a meta file at ",," finds a field and a value. False *)
(* of the code, whose escape leaves the third of three commas next to the  *)
(* second; the names of the unused dimensions of a header are such a text. *)
MetaHasTwoColumns ==
  \A d \in DOMAIN dirs : \A id \in Holds(d, "meta") : TwoColumns(TextOf[id])
=============================================================================
