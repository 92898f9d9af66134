-------------------------------- MODULE Batch -------------------------------
(***************************************************************************)
(* Test batches: tpbcli run and tpbcli benchmark (the front ends), the     *)
(* kernel each of them forks per handle, and the records they leave in the *)
(* workspace they share (tpb-autorecord.c, tpb_driver_run_all, tpbcli-run, *)
(* tpbcli-benchmark).                                                      *)
(*                                                                         *)
(* A front end writes an empty tbatch record, runs its handles one by one, *)
(* then lists task.tpbe, copies the entry points of its own batch into the *)
(* tbatch record, writes the counters and publishes a row in tbatch.tpbe.  *)
(* Kernels append their own rows to task.tpbe.  The files follow RafEntry; *)
(* here an append to task.tpbe keeps its two halves, because a list by     *)
(* another process fails between them.                                     *)
(***************************************************************************)
EXTENDS Naturals, Sequences, FiniteSets, Functions

CONSTANTS Front,     \* front ends; each runs one batch, so also TBatchIDs
          NoFront,   \* "nobody is appending to task.tpbe"
          Kernel,    \* KernelIDs
          Mpi,       \* the kernels among them that run as MPI ranks
          Job,       \* run or benchmark, and the handles' kernels, by front end
          NUnit,     \* ranks of an MPI kernel
          MaxFail    \* bound: failures, kills and clock corrections

ASSUME BatchAssumption ==
    /\ NoFront \notin Front /\ Mpi \subseteq Kernel
    /\ Job \in [Front -> [kind : {"run", "benchmark"}, plan : Seq(Kernel)]]
    /\ \A f \in Front : Job[f].plan # <<>>
    /\ NUnit \in Nat \ {0}
    /\ MaxFail \in Nat

Unit == 0..NUnit - 1
Capsule == NUnit           \* stands for the unit number of a capsule task

VARIABLES
    fe,       \* the state of each front end
    ch,       \* the state of the kernel it has forked
    index,    \* the rows of task.tpbe
    writer,   \* whose kernel is inside an append to task.tpbe, or NoFront
    broken,   \* task.tpbe has lost its end magic
    record,   \* the tbatch records
    entries,  \* the rows of tbatch.tpbe
    env,      \* the counters of the runtime environment, record and row
    clock,    \* the wall clock, as far as it was set back
    raced,    \* a list of task.tpbe failed because of another process
    fails     \* failures and kills so far

vars == <<fe, ch, index, writer, broken, record, entries, env,
          clock, raced, fails>>

Counters == [ntask |-> 0, ntbatch |-> 0]

(* The record tpb_raf_record_write_tbatch writes for a new batch: no task, *)
(* and two headers, TaskID and KernelID, with nothing in them.             *)
Skeleton == [live |-> TRUE, ids |-> <<>>, ntask |-> 0, nkernel |-> 0,
             dim0 |-> 0, note |-> 0]

Init ==
    /\ fe = [f \in Front |-> [pc |-> "new", h |-> 1, utc |-> 0, snap |-> <<>>,
                              pos |-> 0, ntask |-> 0, nkernel |-> 0]]
    /\ ch = [f \in Front |-> [pc |-> "none", exit |-> "ok", todo |-> {},
                              cur |-> 0, utc |-> 0, ok |-> FALSE]]
    /\ index = <<>> /\ writer = NoFront /\ broken = FALSE
    /\ record = [f \in Front |-> [Skeleton EXCEPT !.live = FALSE]]
    /\ entries = <<>>
    /\ env = [rec |-> Counters, row |-> Counters]
    /\ clock = MaxFail /\ raced = FALSE /\ fails = 0

Fail == fails < MaxFail /\ fails' = fails + 1

At(f, pc) == fe[f].pc = pc
Go(f, pc) == fe' = [fe EXCEPT ![f].pc = pc]

ChildAt(f, pc) == ch[f].pc = pc
ChildGo(f, pc) == ch' = [ch EXCEPT ![f].pc = pc]

TheKernel(f) == Job[f].plan[fe[f].h]
TaskId(f, u) == <<f, fe[f].h, u>>

(* tpb_raf_entry_list_task reads a whole index, or fails when an append is *)
(* under way or went through between its stat and its read.                *)
ListOk == ~broken /\ writer = NoFront
ListMayFail(f) == broken \/ writer # NoFront \/ \E g \in Front \ {f} : ~ChildAt(g, "none")

-----------------------------------------------------------------------------
(* tpb_record_begin_batch *)

Begin(f) ==
    /\ At(f, "new")
    /\ fe' = [fe EXCEPT ![f].pc = "spawn", ![f].utc = clock]
    /\ record' = [record EXCEPT ![f] = Skeleton]
    /\ UNCHANGED <<ch, index, writer, broken, entries, env, clock, raced, fails>>

BeginFail(f) ==
    /\ At(f, "new") /\ Fail /\ Go(f, "failed")
    /\ UNCHANGED <<ch, index, writer, broken, record, entries, env, clock, raced>>

(* What the front end does with an error of tpb_driver_run_all: run drops  *)
(* the batch unless the kernel only failed its verification.               *)
OnError(f, exit) ==
    IF Job[f].kind = "benchmark" \/ exit = "verify" THEN "scan" ELSE "failed"

(* tpb_run_pli *)
Spawn(f) ==
    /\ At(f, "spawn") /\ ChildAt(f, "none")
    /\ Go(f, "wait")
    /\ ch' = [ch EXCEPT ![f] = [pc |-> "run", exit |-> "ok", todo |-> {},
                                cur |-> 0, utc |-> 0, ok |-> FALSE]]
    /\ UNCHANGED <<index, writer, broken, record, entries, env, clock, raced, fails>>

(* Inside a batch a kernel without a record is refused; fork may fail. *)
SpawnFail(f) ==
    /\ At(f, "spawn") /\ Fail /\ Go(f, OnError(f, "fail"))
    /\ UNCHANGED <<ch, index, writer, broken, record, entries, env, clock, raced>>

(* waitpid(); tpb_driver_run_all stops at the first error. *)
Reap(f) ==
    /\ At(f, "wait") /\ ChildAt(f, "exit")
    /\ ChildGo(f, "none")
    /\ fe' = [fe EXCEPT
                ![f].pc = IF ch[f].exit # "ok" THEN OnError(f, ch[f].exit)
                          ELSE IF fe[f].h < Len(Job[f].plan) THEN "spawn" ELSE "scan",
                ![f].h = IF ch[f].exit = "ok" /\ @ < Len(Job[f].plan) THEN @ + 1 ELSE @]
    /\ UNCHANGED <<index, writer, broken, record, entries, env, clock, raced, fails>>

-----------------------------------------------------------------------------
(* The kernel process, up to and including tpb_k_write_task *)

RunOk(f) ==
    /\ ChildAt(f, "run")
    /\ ch' = [ch EXCEPT ![f].pc = "write",
                        ![f].todo = IF TheKernel(f) \in Mpi THEN Unit ELSE {0}]
    /\ UNCHANGED <<fe, index, writer, broken, record, entries, env,
                   clock, raced, fails>>

(* A kernel that fails leaves no task; an MPI rank records its failure. *)
RunFail(f, exit, units) ==
    /\ ChildAt(f, "run") /\ Fail
    /\ exit = "verify" => TheKernel(f) \notin Mpi
    /\ units # {} => TheKernel(f) \in Mpi
    /\ ch' = [ch EXCEPT ![f].pc = "write", ![f].exit = exit, ![f].todo = units]
    /\ UNCHANGED <<fe, index, writer, broken, record, entries, env, clock, raced>>

(* tpb_record_write_task: time stamp, identifier and .tpbr file. *)
WriteRecord(f, u) ==
    /\ ChildAt(f, "write") /\ u \in ch[f].todo
    /\ ch' = [ch EXCEPT ![f].pc = "append", ![f].cur = u, ![f].utc = clock,
                        ![f].todo = @ \ {u}]
    /\ UNCHANGED <<fe, index, writer, broken, record, entries, env,
                   clock, raced, fails>>

WriteRecordFail(f, u) ==
    /\ ChildAt(f, "write") /\ u \in ch[f].todo /\ Fail
    /\ ch' = [ch EXCEPT ![f].todo = @ \ {u}]
    /\ UNCHANGED <<fe, index, writer, broken, record, entries, env, clock, raced>>

AfterAppend(f) == IF ch[f].cur = Capsule THEN "exit" ELSE "write"

AppendBegin(f) ==
    /\ ChildAt(f, "append") /\ writer = NoFront /\ ~broken
    /\ writer' = f /\ ChildGo(f, "append_end")
    /\ UNCHANGED <<fe, index, broken, record, entries, env, clock, raced, fails>>

AppendRefuse(f) ==
    /\ ChildAt(f, "append") /\ broken
    /\ ChildGo(f, AfterAppend(f))
    /\ UNCHANGED <<fe, index, writer, broken, record, entries, env,
                   clock, raced, fails>>

NewRow(f) == [id |-> TaskId(f, ch[f].cur), batch |-> f, kernel |-> TheKernel(f),
              utc |-> ch[f].utc, linked |-> FALSE]

(* A capsule is not counted in the environment; its members are next.      *)
AppendEnd(f) ==
    /\ ChildAt(f, "append_end")
    /\ index' = Append(index, NewRow(f)) /\ writer' = NoFront
    /\ ch' = [ch EXCEPT ![f].pc = IF ch[f].cur = Capsule THEN "link" ELSE "env_record",
                        ![f].todo = IF ch[f].cur = Capsule THEN Unit ELSE @]
    /\ UNCHANGED <<fe, broken, record, entries, env, clock, raced, fails>>

(* A write error, or the kernel is killed: the index is left torn. *)
AppendFail(f, killed) ==
    /\ ChildAt(f, "append_end") /\ Fail
    /\ broken' = TRUE /\ writer' = NoFront
    /\ ch' = [ch EXCEPT ![f].pc = IF killed THEN "exit" ELSE AfterAppend(f),
                        ![f].exit = IF killed THEN "fail" ELSE @]
    /\ UNCHANGED <<fe, index, record, entries, env, clock, raced>>

(* tpb_raf_record_patch_rtenv_counters(1, 0): the record, then the row. *)
CountTask(f) ==
    /\ ChildAt(f, "env_record")
    /\ env' = [env EXCEPT !.rec.ntask = @ + 1]
    /\ ChildGo(f, "env_row")
    /\ UNCHANGED <<fe, index, writer, broken, record, entries, clock, raced, fails>>

CountTaskRow(f) ==
    /\ ChildAt(f, "env_row")
    /\ env' = [env EXCEPT !.row.ntask = @ + 1]
    /\ ch' = [ch EXCEPT ![f].pc = "write", ![f].ok = @ \/ ch[f].cur = 0]
    /\ UNCHANGED <<fe, index, writer, broken, record, entries, clock, raced, fails>>

CountTaskFail(f) ==
    /\ ch[f].pc \in {"env_record", "env_row"} /\ Fail /\ ChildGo(f, "write")
    /\ UNCHANGED <<fe, index, writer, broken, record, entries, env, clock, raced>>

UtcOf(id) == (CHOOSE r \in {index[k] : k \in DOMAIN index} : r.id = id).utc

(* All tasks are written; a plain kernel returns 0 whatever came of it.    *)
(* Rank 0 creates a capsule if its own task went well, stamped with the    *)
(* time of that task.                                                      *)
WantsCapsule(f) == TheKernel(f) \in Mpi /\ ch[f].exit = "ok" /\ ch[f].ok

Written(f) ==
    /\ ChildAt(f, "write") /\ ch[f].todo = {} /\ ~WantsCapsule(f)
    /\ ChildGo(f, "exit")
    /\ UNCHANGED <<fe, index, writer, broken, record, entries, env,
                   clock, raced, fails>>

CreateCapsule(f) ==
    /\ ChildAt(f, "write") /\ ch[f].todo = {} /\ WantsCapsule(f)
    /\ ch' = [ch EXCEPT ![f].pc = "append", ![f].cur = Capsule,
                        ![f].utc = UtcOf(TaskId(f, 0))]
    /\ UNCHANGED <<fe, index, writer, broken, record, entries, env,
                   clock, raced, fails>>

CreateCapsuleFail(f) ==
    /\ ChildAt(f, "write") /\ ch[f].todo = {} /\ WantsCapsule(f)
    /\ Fail /\ ChildGo(f, "exit")
    /\ UNCHANGED <<fe, index, writer, broken, record, entries, env, clock, raced>>

(* tpb_k_task_set_derive_to of every rank *)
Link(f, u) ==
    /\ ChildAt(f, "link") /\ u \in ch[f].todo /\ ListOk
    /\ index' = [k \in DOMAIN index |->
                    IF index[k].id = TaskId(f, u) THEN [index[k] EXCEPT !.linked = TRUE]
                                                  ELSE index[k]]
    /\ ch' = [ch EXCEPT ![f].todo = @ \ {u}]
    /\ UNCHANGED <<fe, writer, broken, record, entries, env, clock, raced, fails>>

LinkFail(f, u) ==
    /\ ChildAt(f, "link") /\ u \in ch[f].todo /\ ListMayFail(f)
    /\ ch' = [ch EXCEPT ![f].todo = @ \ {u}]
    /\ raced' = TRUE
    /\ UNCHANGED <<fe, index, writer, broken, record, entries, env, clock, fails>>

(* Mutant of Linked: the ranks end without having set derive_to. *)
LinkedEarly(f) ==
    /\ ChildAt(f, "link") /\ ChildGo(f, "exit")
    /\ UNCHANGED <<fe, index, writer, broken, record, entries, env,
                   clock, raced, fails>>

Linked(f) ==
    /\ ChildAt(f, "link") /\ ch[f].todo = {} /\ ChildGo(f, "exit")
    /\ UNCHANGED <<fe, index, writer, broken, record, entries, env,
                   clock, raced, fails>>

-----------------------------------------------------------------------------
(* tpb_record_end_batch *)

Scan(f) ==
    /\ At(f, "scan") /\ ListOk
    /\ fe' = [fe EXCEPT ![f].pc = "collect", ![f].snap = index, ![f].pos = 1]
    /\ UNCHANGED <<ch, index, writer, broken, record, entries, env,
                   clock, raced, fails>>

ScanFail(f) ==
    /\ At(f, "scan") /\ ListMayFail(f)
    /\ Go(f, "failed") /\ raced' = TRUE
    /\ UNCHANGED <<ch, index, writer, broken, record, entries, env, clock, fails>>

(* The entry points of a batch: not older than it, its own, not a member   *)
(* of a capsule.                                                           *)
EntryPoint(f, row) == row.utc >= fe[f].utc /\ row.batch = f /\ ~row.linked

(* TPB_RAF_TBATCH_HDR_DIM0_OFF, and the field of the serialized header     *)
(* that lies there: scalars 32, name 256, tag 256, note 2048, dimsizes.    *)
HdrDim0Off == 2336
FieldAt(off) == IF off < 32 + 256 + 256 + 2048 THEN "note" ELSE "dim0"

(* tpb_raf_record_append_tbatch on the front end's own record *)
Collected(f, row) ==
    [record EXCEPT ![f].ids = Append(@, row.id),
                   ![f][FieldAt(HdrDim0Off)] = Len(record[f].ids) + 1]

(* Mutant of Collect: every task counts as another kernel. *)
CollectKernels(f) ==
    LET e == fe[f]
        row == e.snap[e.pos] IN
    /\ At(f, "collect") /\ e.pos <= Len(e.snap)
    /\ IF EntryPoint(f, row)
         THEN /\ record' = Collected(f, row)
              /\ fe' = [fe EXCEPT ![f].pos = @ + 1, ![f].ntask = @ + 1, ![f].nkernel = @ + 1]
         ELSE /\ fe' = [fe EXCEPT ![f].pos = @ + 1]
              /\ UNCHANGED record
    /\ UNCHANGED <<ch, index, writer, broken, entries, env, clock, raced, fails>>

(* Mutant of Collect: the tasks are told apart by time alone. *)
CollectByTime(f) ==
    LET e == fe[f]
        row == e.snap[e.pos] IN
    /\ At(f, "collect") /\ e.pos <= Len(e.snap)
    /\ IF row.utc >= e.utc /\ ~row.linked
         THEN /\ record' = Collected(f, row)
              /\ fe' = [fe EXCEPT ![f].pos = @ + 1, ![f].ntask = @ + 1]
         ELSE /\ fe' = [fe EXCEPT ![f].pos = @ + 1]
              /\ UNCHANGED record
    /\ UNCHANGED <<ch, index, writer, broken, entries, env, clock, raced, fails>>

Collect(f) ==
    LET e == fe[f]
        row == e.snap[e.pos]
        first == \A j \in 1..e.pos - 1 :
                     ~(EntryPoint(f, e.snap[j]) /\ e.snap[j].kernel = row.kernel) IN
    /\ At(f, "collect") /\ e.pos <= Len(e.snap)
    /\ IF EntryPoint(f, row)
         THEN /\ record' = Collected(f, row)
              /\ fe' = [fe EXCEPT ![f].pos = @ + 1, ![f].ntask = @ + 1,
                                  ![f].nkernel = IF first THEN @ + 1 ELSE @]
         ELSE /\ fe' = [fe EXCEPT ![f].pos = @ + 1]
              /\ UNCHANGED record
    /\ UNCHANGED <<ch, index, writer, broken, entries, env, clock, raced, fails>>

(* tpb_raf_record_patch_tbatch_counters *)
PatchCounters(f) ==
    /\ At(f, "collect") /\ fe[f].pos > Len(fe[f].snap)
    /\ record' = [record EXCEPT ![f].ntask = fe[f].ntask, ![f].nkernel = fe[f].nkernel]
    /\ Go(f, "env_record")
    /\ UNCHANGED <<ch, index, writer, broken, entries, env, clock, raced, fails>>

(* tpb_raf_record_patch_rtenv_counters(0, 1) *)
CountBatch(f) ==
    /\ At(f, "env_record") /\ Go(f, "env_row")
    /\ env' = [env EXCEPT !.rec.ntbatch = @ + 1]
    /\ UNCHANGED <<ch, index, writer, broken, record, entries, clock, raced, fails>>

CountBatchRow(f) ==
    /\ At(f, "env_row") /\ Go(f, "entry")
    /\ env' = [env EXCEPT !.row.ntbatch = @ + 1]
    /\ UNCHANGED <<ch, index, writer, broken, record, entries, clock, raced, fails>>

Publish(f) ==
    /\ At(f, "entry") /\ Go(f, "done")
    /\ entries' = Append(entries, [batch |-> f, ntask |-> fe[f].ntask,
                                   nkernel |-> fe[f].nkernel])
    /\ UNCHANGED <<ch, index, writer, broken, record, env, clock, raced, fails>>

(* A step of tpb_record_end_batch fails; the earlier ones stay. *)
EndFail(f) ==
    /\ fe[f].pc \in {"collect", "env_record", "env_row", "entry"} /\ Fail
    /\ Go(f, "failed")
    /\ UNCHANGED <<ch, index, writer, broken, record, entries, env, clock, raced>>

-----------------------------------------------------------------------------
(* kill -9 of the front end: the kernel it forked goes on alone. *)
Killed(f) ==
    /\ fe[f].pc \notin {"new", "done", "failed", "dead"} /\ Fail /\ Go(f, "dead")
    /\ UNCHANGED <<ch, index, writer, broken, record, entries, env, clock, raced>>

(* The clock is set back behind the start of the batches.  Its normal      *)
(* forward motion changes no comparison that EntryPoint makes.             *)
SetClockBack ==
    /\ Fail /\ clock' = clock - 1
    /\ UNCHANGED <<fe, ch, index, writer, broken, record, entries, env, raced>>

FrontStep(f) ==
    \/ Spawn(f) \/ Reap(f) \/ Scan(f) \/ Collect(f) \/ PatchCounters(f)
    \/ CountBatch(f) \/ CountBatchRow(f) \/ Publish(f)

ChildStep(f) ==
    \/ RunOk(f) \/ \E u \in Unit : WriteRecord(f, u) \/ Link(f, u)
    \/ AppendBegin(f) \/ AppendRefuse(f) \/ AppendEnd(f)
    \/ CountTask(f) \/ CountTaskRow(f) \/ Written(f)
    \/ CreateCapsule(f) \/ Linked(f)

Next ==
    \/ \E f \in Front :
           \/ Begin(f) \/ BeginFail(f) \/ FrontStep(f) \/ ChildStep(f)
           \/ SpawnFail(f) \/ ScanFail(f) \/ EndFail(f) \/ Killed(f)
           \/ CountTaskFail(f) \/ CreateCapsuleFail(f)
           \/ \E exit \in {"verify", "fail"}, units \in SUBSET Unit : RunFail(f, exit, units)
           \/ \E u \in Unit : WriteRecordFail(f, u) \/ LinkFail(f, u)
           \/ \E killed \in BOOLEAN : AppendFail(f, killed)
    \/ SetClockBack

Spec == Init /\ [][Next]_vars

-----------------------------------------------------------------------------
(* Properties *)

FrontPc == {"new", "spawn", "wait", "scan", "collect", "env_record", "env_row",
            "entry", "done", "failed", "dead"}
ChildPc == {"none", "run", "write", "append", "append_end", "env_record",
            "env_row", "link", "exit"}

TypeOK ==
    /\ \A f \in Front :
           /\ fe[f].pc \in FrontPc /\ fe[f].h \in DOMAIN Job[f].plan
           /\ ch[f].pc \in ChildPc /\ ch[f].todo \subseteq Unit
           /\ ch[f].exit \in {"ok", "verify", "fail"}
           /\ ch[f].cur \in Unit \cup {Capsule}
    /\ writer \in Front \cup {NoFront}
    /\ {broken, raced} \subseteq BOOLEAN
    /\ clock \in 0..MaxFail /\ fails \in 0..MaxFail

KernelOf(id) == Job[id[1]].plan[id[2]]

(* A row of tbatch.tpbe never promises more or less than the batch record  *)
(* holds: the numbers of tasks and of different kernels in the row, in the *)
(* record and in its list agree, whichever step of the batch failed.       *)
PublishedAgrees ==
    \A e \in Range(entries) :
        LET r == record[e.batch] IN
        /\ r.live /\ e.ntask = r.ntask /\ e.nkernel = r.nkernel
        /\ r.ntask = Len(r.ids)
        /\ r.nkernel = Cardinality({KernelOf(id) : id \in Range(r.ids)})

(* A published batch lists every entry point of its own in the index,      *)
(* once, and nothing else: no task of the other batch, no capsule member.  *)
ListsItsEntryPoints ==
    \A f \in Front : At(f, "done") =>
        /\ Range(record[f].ids) =
               {r.id : r \in {q \in Range(index) : EntryPoint(f, q)}}
        /\ Cardinality(Range(record[f].ids)) = Len(record[f].ids)

(* When nothing failed, the batch lists one entry point per handle, in the *)
(* order of the handles: the task of a plain kernel, the capsule of an MPI *)
(* one.  It takes waiting for each kernel, the links of the capsule and a  *)
(* clock that never went back to get there.                                *)
OnePerHandle ==
    \A f \in Front : At(f, "done") /\ fails = 0 /\ ~raced =>
        record[f].ids = [h \in DOMAIN Job[f].plan |->
            <<f, h, IF Job[f].plan[h] \in Mpi THEN Capsule ELSE 0>>]

(* "Each slot in dimsizes stores the number of elements in that dimension".*)
DimsizesCount ==
    \A f \in Front : At(f, "done") => record[f].dim0 = Len(record[f].ids)
=============================================================================
