----------------------------- MODULE MpiCapsule -----------------------------
(***************************************************************************)
(* One run of the MPI kernel stream_mpi (tpbk_stream_mpi.c), from MPI_Init *)
(* to MPI_Finalize: the coordinated start of the library, the run, and     *)
(* _sf_mpik_write_task, in which every rank writes its task record, rank 0 *)
(* creates the capsule, every rank links itself to it and rank 0 appends   *)
(* the others.  tpb-autorecord.c provides the calls.                       *)
(*                                                                         *)
(* A rank is at a stage, and the model remembers the stages it went        *)
(* through.  MPI_Barrier and MPI_Allreduce let it pass when every rank has *)
(* entered the same call, MPI_Bcast when rank 0 has, MPI_Gather lets rank  *)
(* 0 pass when all have and the others at once: a rank that skips a        *)
(* collective leaves the others waiting in it.  An error inside MPI itself *)
(* aborts the job (MPI_ERRORS_ARE_FATAL).                                  *)
(***************************************************************************)
EXTENDS Naturals, Sequences

CONSTANTS NRank,    \* MPI_Comm_size
          MaxFail   \* bound: failed calls in one behaviour

ASSUME MpiCapsuleAssumption == NRank \in Nat \ {0} /\ MaxFail \in Nat

Rank == 0..NRank - 1
ZeroId == 0
TaskId(r) == r + 1      \* the TaskRecordID rank r generates
Others == NRank         \* any other process of the workspace

(* In the order of the code. *)
Working == {"init_root", "init_bcast", "init", "init_reduce", "setup", "run",
            "write", "row", "barrier", "create", "create_row", "bcast",
            "derive", "derive_reduce", "alloc", "gather", "append",
            "append_bcast", "end_barrier"}
Over == {"done", "quit", "failed", "aborted"}

VARIABLES
    pc,        \* the stage of each rank
    passed,    \* the stages it has completed
    ok,        \* the verdict each rank carries (final_err = TPBE_SUCCESS)
    setup,     \* timer, registration and arguments are good (same on all)
    id,        \* my_task_id of each rank
    records,   \* ranks whose task .tpbr exists
    rows,      \* ranks with a row in task.tpbe
    busy,      \* who is in the middle of an append to task.tpbe
    linked,    \* ranks whose derive_to points to the capsule
    capsule,   \* the identifiers the capsule record lists
    capok,     \* what rank 0 broadcast after the creation
    agg,       \* append_agg on rank 0
    object,       \* the capsule's shared-memory object exists
    fails      \* failed calls so far

mpiVars == <<pc, passed, ok, setup, id, records, rows, busy, linked, capsule,
             capok, agg, object, fails>>

MpiInit ==
    /\ pc = [r \in Rank |-> "init_root"]
    /\ passed = [r \in Rank |-> {}]
    /\ ok = [r \in Rank |-> TRUE]
    /\ setup \in BOOLEAN
    /\ id = [r \in Rank |-> ZeroId]
    /\ records = {} /\ rows = {} /\ busy = {} /\ linked = {}
    /\ capsule = <<>> /\ capok = TRUE /\ agg = TRUE
    /\ object = FALSE /\ fails = 0

Stands(r, s) == pc[r] = s
Stop(r, s) == pc' = [pc EXCEPT ![r] = s] /\ UNCHANGED passed
GoTo(r, s) == /\ pc' = [pc EXCEPT ![r] = s]
              /\ passed' = [passed EXCEPT ![r] = @ \cup {pc[r]}]
Verdict(r, v) == ok' = [ok EXCEPT ![r] = v]

(* A call either succeeds (v) or uses up one of the failures. *)
Call(v) == \/ v /\ UNCHANGED fails
           \/ ~v /\ fails < MaxFail /\ fails' = fails + 1

Reached(q, s) == Stands(q, s) \/ s \in passed[q]
All(s) == \A q \in Rank : Reached(q, s)

-----------------------------------------------------------------------------
(* _sf_mpik_corelib_init: rank 0 first, then the others, then agreement. *)

InitRoot(r, v) ==
    /\ Stands(r, "init_root")
    /\ IF r = 0 THEN Call(v) /\ Verdict(0, v) ELSE v /\ UNCHANGED <<fails, ok>>
    /\ GoTo(r, "init_bcast")
    /\ UNCHANGED <<setup, id, records, rows, busy, linked, capsule, capok, agg, object>>

(* Every rank learns how rank 0 fared, and gives up if it failed. *)
InitBcast(r) ==
    /\ Stands(r, "init_bcast") /\ Reached(0, "init_bcast")
    /\ Verdict(r, ok[0])
    /\ GoTo(r, IF ok[0] THEN "init" ELSE "quit")
    /\ UNCHANGED <<setup, id, records, rows, busy, linked, capsule, capok, agg, object, fails>>

InitLocal(r, v) ==
    /\ Stands(r, "init")
    /\ IF r = 0 THEN v /\ UNCHANGED <<fails, ok>> ELSE Call(v) /\ Verdict(r, v)
    /\ GoTo(r, "init_reduce")
    /\ UNCHANGED <<setup, id, records, rows, busy, linked, capsule, capok, agg, object>>

(* MPI_Allreduce(MAX) of the error codes: all go on or all give up. *)
InitReduce(r) ==
    /\ Stands(r, "init_reduce") /\ All("init_reduce")
    /\ GoTo(r, IF \A q \in Rank : ok[q] THEN "setup" ELSE "quit")
    /\ UNCHANGED <<ok, setup, id, records, rows, busy, linked, capsule, capok, agg, object, fails>>

(* MPI_Allreduce(MAX) of gather_alloc_fail: without rank 0's array of pids *)
(* all give up.  The gather of the pids and the barrier then cannot fail.  *)
InitAllocFail ==
    /\ \A q \in Rank : Stands(q, "init_reduce") /\ ok[q]
    /\ Call(FALSE)
    /\ ok' = [q \in Rank |-> FALSE]
    /\ pc' = [q \in Rank |-> "quit"]
    /\ UNCHANGED <<passed, setup, id, records, rows, busy, linked, capsule, capok, agg, object>>

-----------------------------------------------------------------------------
(* tpbk_stream_mpi_entry up to the recording *)

(* Every rank sees the same timer, registration and argument strings. *)
Setup(r) ==
    /\ Stands(r, "setup")
    /\ Verdict(r, setup)
    /\ GoTo(r, IF setup THEN "run" ELSE "quit")
    /\ UNCHANGED <<setup, id, records, rows, busy, linked, capsule, capok, agg, object, fails>>

(* run_stream_mpi: the ranks meet in its barriers and gathers. *)
Run(r) ==
    /\ Stands(r, "run") /\ All("run")
    /\ GoTo(r, "write")
    /\ UNCHANGED <<ok, setup, id, records, rows, busy, linked, capsule, capok, agg, object, fails>>

(* An output cannot be allocated on one rank: it records the failure alone *)
(* and calls MPI_Finalize while the others wait in a barrier.              *)
RunFail(r, written) ==
    /\ Stands(r, "run") /\ \A q \in Rank : "run" \notin passed[q]
    /\ Call(FALSE) /\ Verdict(r, FALSE) /\ Stop(r, "failed")
    /\ records' = IF written THEN records \cup {r} ELSE records
    /\ rows' = IF written THEN rows \cup {r} ELSE rows
    /\ UNCHANGED <<setup, id, busy, linked, capsule, capok, agg, object>>

(* The arrays cannot be allocated: MPI_Abort ends every rank. *)
RunAbort(r) ==
    /\ Stands(r, "run") /\ Call(FALSE)
    /\ pc' = [q \in Rank |-> "aborted"]
    /\ UNCHANGED <<passed, ok, setup, id, records, rows, busy, linked, capsule, capok, agg, object>>

-----------------------------------------------------------------------------
(* _sf_mpik_write_task *)

(* tpb_k_write_task, first half: the record, and the identifier handed out.*)
(* A failure before that leaves my_task_id zero.                           *)
WriteRecord(r, v) ==
    /\ Stands(r, "write") /\ Call(v)
    /\ IF v THEN /\ id' = [id EXCEPT ![r] = TaskId(r)]
                 /\ records' = records \cup {r}
                 /\ busy' = busy \cup {r} /\ GoTo(r, "row") /\ UNCHANGED ok
            ELSE /\ Verdict(r, FALSE) /\ GoTo(r, "barrier")
                 /\ UNCHANGED <<id, records, busy>>
    /\ UNCHANGED <<setup, rows, linked, capsule, capok, agg, object>>

(* Second half: the index row, then the counters of the environment. *)
WriteRow(r, row, count) ==
    /\ Stands(r, "row") /\ Call(row /\ count)
    /\ rows' = IF row THEN rows \cup {r} ELSE rows
    /\ busy' = busy \ {r}
    /\ Verdict(r, row /\ count) /\ GoTo(r, "barrier")
    /\ UNCHANGED <<setup, id, records, linked, capsule, capok, agg, object>>

(* Mutant of Barrier: the ranks do not wait for each other. *)
BarrierDropped(r) ==
    /\ Stands(r, "barrier")
    /\ GoTo(r, IF r = 0 THEN "create" ELSE "bcast")
    /\ UNCHANGED <<ok, setup, id, records, rows, busy, linked, capsule, capok, agg, object, fails>>

Barrier(r) ==
    /\ Stands(r, "barrier") /\ All("barrier")
    /\ GoTo(r, IF r = 0 THEN "create" ELSE "bcast")
    /\ UNCHANGED <<ok, setup, id, records, rows, busy, linked, capsule, capok, agg, object, fails>>

(* Rank 0, and only if its own task was written. *)
CreateRecord(v) ==
    /\ Stands(0, "create") /\ (ok[0] \/ ~v)
    /\ IF ok[0] THEN Call(v) ELSE UNCHANGED fails
    /\ capok' = v
    /\ capsule' = IF v THEN <<id[0]>> ELSE capsule
    /\ busy' = IF v THEN busy \cup {0} ELSE busy
    /\ GoTo(0, IF v THEN "create_row" ELSE "bcast")
    /\ UNCHANGED <<ok, setup, id, records, rows, linked, agg, object>>

(* The capsule's index row, then the shared-memory object. *)
CreateRow(v) ==
    /\ Stands(0, "create_row") /\ Call(v)
    /\ capok' = v
    /\ object' = v
    /\ busy' = busy \ {0}
    /\ GoTo(0, "bcast")
    /\ UNCHANGED <<ok, setup, id, records, rows, linked, capsule, agg>>

(* MPI_Bcast of the capsule id and of cap_err. *)
Bcast(r) ==
    /\ Stands(r, "bcast") /\ Reached(0, "bcast")
    /\ Verdict(r, capok)
    /\ GoTo(r, IF capok THEN "derive" ELSE "end_barrier")
    /\ UNCHANGED <<setup, id, records, rows, busy, linked, capsule, capok, agg, object, fails>>

(* tpb_k_task_set_derive_to needs the record and, in a list of the index   *)
(* that no append disturbs, the row.                                       *)
Linkable(r) == r \in records /\ r \in rows /\ busy = {}

(* Mutant of Derive: a rank that fails returns before the reduction. *)
DeriveReturns(r, v) ==
    /\ Stands(r, "derive")
    /\ IF Linkable(r) THEN Call(v) ELSE ~v /\ UNCHANGED fails
    /\ linked' = IF v THEN linked \cup {r} ELSE linked
    /\ Verdict(r, v) /\ GoTo(r, IF v THEN "derive_reduce" ELSE "end_barrier")
    /\ UNCHANGED <<setup, id, records, rows, busy, capsule, capok, agg, object>>

Derive(r, v) ==
    /\ Stands(r, "derive")
    /\ IF Linkable(r) THEN Call(v) ELSE ~v /\ UNCHANGED fails
    /\ linked' = IF v THEN linked \cup {r} ELSE linked
    /\ Verdict(r, v) /\ GoTo(r, "derive_reduce")
    /\ UNCHANGED <<setup, id, records, rows, busy, capsule, capok, agg, object>>

(* Mutant of DeriveReduce: every rank judges by its own link. *)
DeriveReduceLocal(r) ==
    /\ Stands(r, "derive_reduce") /\ All("derive_reduce")
    /\ Verdict(r, r \in linked)
    /\ GoTo(r, IF NRank >= 2 THEN "alloc" ELSE "end_barrier")
    /\ UNCHANGED <<setup, id, records, rows, busy, linked, capsule, capok, agg, object, fails>>

(* MPI_Allreduce(MAX) of derive_err; capsule members only with 2+ ranks.   *)
(* A rank's own derive_err stays readable in linked.                       *)
DeriveReduce(r) ==
    /\ Stands(r, "derive_reduce") /\ All("derive_reduce")
    /\ Verdict(r, linked = Rank)
    /\ GoTo(r, IF NRank >= 2 THEN "alloc" ELSE "end_barrier")
    /\ UNCHANGED <<setup, id, records, rows, busy, linked, capsule, capok, agg, object, fails>>

(* MPI_Allreduce(MIN) of rank0_alloc_ok: rank 0's calloc decides for all.  *)
Alloc(r) ==
    /\ Stands(r, "alloc") /\ All("alloc")
    /\ GoTo(r, "gather")
    /\ UNCHANGED <<ok, setup, id, records, rows, busy, linked, capsule, capok, agg, object, fails>>

AllocFail ==
    /\ \A q \in Rank : Stands(q, "alloc")
    /\ Call(FALSE)
    /\ ok' = [q \in Rank |-> FALSE]
    /\ pc' = [q \in Rank |-> "end_barrier"]
    /\ passed' = [q \in Rank |-> passed[q] \cup {"alloc"}]
    /\ UNCHANGED <<setup, id, records, rows, busy, linked, capsule, capok, agg, object>>

Gather(r) ==
    /\ Stands(r, "gather") /\ (r = 0 => All("gather"))
    /\ GoTo(r, IF r = 0 THEN "append" ELSE "append_bcast")
    /\ UNCHANGED <<ok, setup, id, records, rows, busy, linked, capsule, capok, agg, object, fails>>

(* Rank 0 appends ranks 1, 2, ... and stops at the first error. *)
AppendOne(v) ==
    /\ Stands(0, "append") /\ agg /\ Len(capsule) < NRank
    /\ Call(v)
    /\ capsule' = IF v THEN Append(capsule, id[Len(capsule)]) ELSE capsule
    /\ agg' = v
    /\ UNCHANGED <<pc, passed, ok, setup, id, records, rows, busy, linked, capok, object>>

AppendStop ==
    /\ Stands(0, "append") /\ (~agg \/ Len(capsule) = NRank)
    /\ GoTo(0, "append_bcast")
    /\ UNCHANGED <<ok, setup, id, records, rows, busy, linked, capsule, capok, agg, object, fails>>

(* Mutant of AppendBcast: the outcome stays with rank 0. *)
AppendBcastLocal(r) ==
    /\ Stands(r, "append_bcast") /\ Reached(0, "append_bcast")
    /\ Verdict(r, ok[r] /\ (r = 0 => agg))
    /\ GoTo(r, "end_barrier")
    /\ UNCHANGED <<setup, id, records, rows, busy, linked, capsule, capok, agg, object, fails>>

AppendBcast(r) ==
    /\ Stands(r, "append_bcast") /\ Reached(0, "append_bcast")
    /\ Verdict(r, ok[r] /\ agg)
    /\ GoTo(r, "end_barrier")
    /\ UNCHANGED <<setup, id, records, rows, busy, linked, capsule, capok, agg, object, fails>>

(* Back in the entry: a barrier, and rank 0 removes the shared memory.     *)
EndBarrier(r) ==
    /\ Stands(r, "end_barrier") /\ All("end_barrier")
    /\ object' = (object /\ ~(r = 0 /\ ok[0]))
    /\ GoTo(r, "done")
    /\ UNCHANGED <<ok, setup, id, records, rows, busy, linked, capsule, capok, agg, fails>>

-----------------------------------------------------------------------------
(* Another process of the workspace appends to task.tpbe meanwhile. *)
OthersAppend ==
    /\ busy' = IF Others \in busy THEN busy \ {Others} ELSE busy \cup {Others}
    /\ IF Others \in busy THEN UNCHANGED fails
                          ELSE fails < MaxFail /\ fails' = fails + 1
    /\ UNCHANGED <<pc, passed, ok, setup, id, records, rows, linked, capsule, capok, agg, object>>

RankStep(r) ==
    \/ \E v \in BOOLEAN : InitRoot(r, v) \/ InitLocal(r, v)
    \/ InitBcast(r) \/ InitReduce(r) \/ Setup(r) \/ Run(r)
    \/ \E v \in BOOLEAN : WriteRecord(r, v) \/ Derive(r, v)
    \/ \E row, count \in BOOLEAN : WriteRow(r, row, count)
    \/ Barrier(r) \/ Bcast(r) \/ DeriveReduce(r) \/ Alloc(r) \/ Gather(r)
    \/ r = 0 /\ \E v \in BOOLEAN : CreateRecord(v) \/ CreateRow(v) \/ AppendOne(v)
    \/ r = 0 /\ AppendStop
    \/ AppendBcast(r) \/ EndBarrier(r)

MpiNext ==
    \/ \E r \in Rank : \/ RankStep(r) \/ RunAbort(r)
                      \/ \E written \in BOOLEAN : RunFail(r, written)
    \/ InitAllocFail \/ AllocFail
    \/ OthersAppend

MpiSpec == MpiInit /\ [][MpiNext]_mpiVars

-----------------------------------------------------------------------------
(* Properties *)

MpiTypeOK ==
    /\ pc \in [Rank -> Working \cup Over]
    /\ passed \in [Rank -> SUBSET Working]
    /\ ok \in [Rank -> BOOLEAN] /\ setup \in BOOLEAN
    /\ id \in [Rank -> 0..NRank]
    /\ records \subseteq Rank /\ rows \subseteq Rank /\ linked \subseteq Rank
    /\ busy \subseteq Rank \cup {Others}
    /\ capsule \in Seq(0..NRank) /\ Len(capsule) <= NRank
    /\ capok \in BOOLEAN /\ agg \in BOOLEAN /\ object \in BOOLEAN
    /\ fails \in 0..MaxFail

Finalized == {"end_barrier", "done"}

(* All ranks that finish _sf_mpik_write_task return the same verdict: the  *)
(* broadcasts and reductions cover every step that can fail on one rank.   *)
VerdictAgreed ==
    \A q, r \in Rank : {pc[q], pc[r]} \subseteq Finalized => ok[q] = ok[r]

(* "MPI Task recorded ... included n tasks": success means that the        *)
(* capsule lists every rank's task, in rank order, and that every rank's   *)
(* row links to it.  A rank whose record failed is never counted in.       *)
SuccessIsComplete ==
    \A r \in Rank : pc[r] \in Finalized /\ ok[r] =>
        /\ Len(capsule) = NRank
        /\ \A q \in Rank : capsule[q + 1] = TaskId(q)
        /\ linked = Rank

(* Without a failed call and without appends of other processes the ranks  *)
(* succeed: no rank lists task.tpbe while another rank appends to it.      *)
NoSpuriousFailure ==
    fails = 0 /\ setup => \A r \in Rank : ok[r]

(* Unless a rank fails inside run_stream_mpi, a job that has begun comes   *)
(* to its end on every rank, whichever of the recording calls fail: no     *)
(* rank skips a collective that another one waits in.                      *)
RanksEnd ==
    [](\A r \in Rank : pc[r] # "failed") =>
        (\E r \in Rank : pc[r] # "init_root") ~> (\A r \in Rank : pc[r] \in Over)
=============================================================================
