----------------------------- MODULE CapsuleJob -----------------------------
(***************************************************************************)
(* Runs of a multi-process kernel outside MPI, which collect their task    *)
(* records in a capsule: the leader calls tpb_k_create_capsule_task, the   *)
(* others learn its identifier with tpb_k_sync_capsule_task through POSIX  *)
(* shared memory and append themselves (tpb-autorecord.c).                 *)
(*                                                                         *)
(* The shared-memory name holds only the first 8 hex digits of the kernel  *)
(* and the handle index, so every run of the kernel uses the same name.    *)
(* Runs may follow each other, overlap, or leave the object behind.        *)
(***************************************************************************)
EXTENDS CapsuleFile

CONSTANTS NJob, NUnit   \* runs of the kernel; processes in each of them

(* Process <<j, 0>> is the leader of run j, and capsule j is its capsule;  *)
(* a process is also the identifier of its task.                           *)
Job == 1..NJob
Leader(j) == <<j, 0>>
Units(j) == {<<j, u>> : u \in 0..NUnit - 1}
Followers(j) == Units(j) \ {Leader(j)}

ASSUME CapsuleJobAssumption ==
    /\ NJob \in Nat \ {0} /\ NUnit \in Nat \ {0}
    /\ Cap = Job /\ Task = Proc
    /\ Proc = UNION {Units(j) : j \in Job}

VARIABLES
    shm,      \* shared-memory objects ever created
    name,     \* the object the name stands for; 0 when it is unlinked
    jpc,      \* where each process is in the capsule calls
    fd,       \* the object a process has open
    got,      \* the capsule its tpb_k_sync_capsule_task returned, or 0
    disturbed \* runs overlapped, or a leader failed

jobVars == <<shm, name, jpc, fd, got, disturbed>>
allVars == <<file, lock, wpc, wcap, wtask, wn, tried, acked, before, out, aborts,
             shm, name, jpc, fd, got, disturbed>>

Ended == {"done", "failed", "bus", "dead"}

JobInit ==
    /\ Init
    /\ shm = <<>> /\ name = 0
    /\ jpc = [p \in Proc |-> "new"]
    /\ fd = [p \in Proc |-> 0] /\ got = [p \in Proc |-> 0]
    /\ disturbed = FALSE

At(p, stage, next) == jpc[p] = stage /\ jpc' = [jpc EXCEPT ![p] = next]

(* The front end starts the processes of a run. *)
Start(j) ==
    /\ \A p \in Units(j) : jpc[p] = "new"
    /\ j > 1 => jpc[Leader(j - 1)] # "new"
    /\ jpc' = [p \in Proc |-> IF p \in Units(j) THEN "start" ELSE jpc[p]]
    /\ disturbed' = (disturbed \/ \E p \in Proc : jpc[p] \notin Ended \cup {"new"})
    /\ UNCHANGED <<shm, name, fd, got>> /\ UNCHANGED fileVars

-----------------------------------------------------------------------------
(* tpb_k_create_capsule_task: the record and its index row, then the       *)
(* shared-memory object.                                                   *)

LeaderCreate(j) ==
    /\ At(Leader(j), "start", "unlink")
    /\ Create(Leader(j), j, Leader(j))
    /\ UNCHANGED <<shm, name, fd, got, disturbed>>

LeaderUnlink(j) ==
    /\ At(Leader(j), "unlink", "open")
    /\ name' = 0
    /\ UNCHANGED <<shm, fd, got, disturbed>> /\ UNCHANGED fileVars

(* shm_open(O_CREAT) without O_EXCL *)
LeaderOpen(j) ==
    /\ At(Leader(j), "open", "truncate")
    /\ shm' = IF name = 0 THEN Append(shm, [sized |-> FALSE, flag |-> 0, id |-> 0])
                          ELSE shm
    /\ name' = IF name = 0 THEN Len(shm) + 1 ELSE name
    /\ fd' = [fd EXCEPT ![Leader(j)] = name']
    /\ UNCHANGED <<got, disturbed>> /\ UNCHANGED fileVars

Store(j, o) == shm' = [shm EXCEPT ![fd[Leader(j)]] = o]
Mapped(j) == shm[fd[Leader(j)]]

LeaderTruncate(j) ==
    /\ At(Leader(j), "truncate", "zero")
    /\ Store(j, [Mapped(j) EXCEPT !.sized = TRUE])
    /\ UNCHANGED <<name, fd, got, disturbed>> /\ UNCHANGED fileVars

LeaderZero(j) ==
    /\ At(Leader(j), "zero", "id")
    /\ Store(j, [Mapped(j) EXCEPT !.flag = 0, !.id = 0])
    /\ UNCHANGED <<name, fd, got, disturbed>> /\ UNCHANGED fileVars

LeaderId(j) ==
    /\ At(Leader(j), "id", "flag")
    /\ Store(j, [Mapped(j) EXCEPT !.id = j])
    /\ UNCHANGED <<name, fd, got, disturbed>> /\ UNCHANGED fileVars

(* Mutant of LeaderFlag: the ready flag is never set. *)
LeaderFlagForgotten(j) ==
    /\ At(Leader(j), "flag", "wait")
    /\ UNCHANGED <<shm, name, fd, got, disturbed>> /\ UNCHANGED fileVars

LeaderFlag(j) ==
    /\ At(Leader(j), "flag", "wait")
    /\ Store(j, [Mapped(j) EXCEPT !.flag = 1])
    /\ UNCHANGED <<name, fd, got, disturbed>> /\ UNCHANGED fileVars

(* A step of the call fails: the record, its row, shm_open(), ftruncate()  *)
(* or mmap(). After shm_open() the name is removed again.                  *)
LeaderFail(j) ==
    /\ jpc[Leader(j)] \in {"start", "unlink", "open", "truncate", "zero"}
    /\ disturbed' = TRUE
    /\ name' = IF jpc[Leader(j)] \in {"truncate", "zero"} THEN 0 ELSE name
    /\ jpc' = [jpc EXCEPT ![Leader(j)] = "failed"]
    /\ UNCHANGED <<shm, fd, got>> /\ UNCHANGED fileVars

(* Mutant of LeaderFinish: the name of the object is not removed. *)
LeaderFinishKeeps(j) ==
    /\ At(Leader(j), "wait", "done")
    /\ \A p \in Followers(j) : jpc[p] \in Ended
    /\ UNCHANGED <<shm, name, fd, got, disturbed>> /\ UNCHANGED fileVars

(* tpb_k_unlink_capsule_sync_shm. The call itself waits for nobody: that   *)
(* the others have ended is the barrier before it in its only caller       *)
(* (tpbk_stream_mpi.c:1314).                                               *)
LeaderFinish(j) ==
    /\ At(Leader(j), "wait", "done")
    /\ \A p \in Followers(j) : jpc[p] \in Ended
    /\ name' = 0
    /\ UNCHANGED <<shm, fd, got, disturbed>> /\ UNCHANGED fileVars

-----------------------------------------------------------------------------
(* tpb_k_sync_capsule_task and tpb_k_append_capsule_task *)

(* The loop ends as soon as shm_open() finds the name. *)
SyncOpen(p) ==
    /\ name # 0 /\ At(p, "start", "poll")
    /\ fd' = [fd EXCEPT ![p] = name]
    /\ UNCHANGED <<shm, name, got, disturbed>> /\ UNCHANGED fileVars

(* p[0] of a mapping longer than the object raises SIGBUS. *)
SyncBus(p) ==
    /\ At(p, "poll", "bus") /\ ~shm[fd[p]].sized
    /\ UNCHANGED <<shm, name, fd, got, disturbed>> /\ UNCHANGED fileVars

SyncReady(p) ==
    /\ At(p, "poll", "append") /\ shm[fd[p]].sized /\ shm[fd[p]].flag = 1
    /\ got' = [got EXCEPT ![p] = shm[fd[p]].id]
    /\ UNCHANGED <<shm, name, fd, disturbed>> /\ UNCHANGED fileVars

(* Mutant of FollowerAppend: the append is begun without the file lock. *)
FollowerAppendUnlocked(p) ==
    /\ At(p, "append", "appending")
    /\ got[p] \in Cap
    /\ wcap' = [wcap EXCEPT ![p] = got[p]]
    /\ wtask' = [wtask EXCEPT ![p] = p]
    /\ tried' = tried \cup {<<got[p], p>>}
    /\ Goto(p, "check")
    /\ UNCHANGED <<file, lock, wn, acked, before, out, aborts>>
    /\ UNCHANGED <<shm, name, fd, got, disturbed>>

FollowerAppend(p) ==
    /\ At(p, "append", "appending")
    /\ got[p] \in Cap
    /\ AppendOpen(p, got[p], p)
    /\ UNCHANGED <<shm, name, fd, got, disturbed>>

(* The identifier is zero: no such record, TPBE_FILE_IO_FAIL. *)
FollowerAppendFails(p) ==
    /\ At(p, "append", "failed") /\ got[p] \notin Cap
    /\ UNCHANGED <<shm, name, fd, got, disturbed>> /\ UNCHANGED fileVars

FollowerDone(p) ==
    /\ At(p, "appending", "done") /\ wpc[p] = "idle"
    /\ UNCHANGED <<shm, name, fd, got, disturbed>> /\ UNCHANGED fileVars

(* kill -9: the shared-memory object stays behind. *)
Killed(p) ==
    /\ jpc[p] \notin Ended \cup {"new"}
    /\ Crash(p)
    /\ jpc' = [jpc EXCEPT ![p] = "dead"]
    /\ UNCHANGED <<shm, name, fd, got, disturbed>>

LeaderStep(j) ==
    \/ LeaderCreate(j) \/ LeaderUnlink(j) \/ LeaderOpen(j) \/ LeaderTruncate(j)
    \/ LeaderZero(j) \/ LeaderId(j) \/ LeaderFlag(j) \/ LeaderFinish(j)

FollowerStep(p) ==
    \/ SyncOpen(p) \/ SyncBus(p) \/ SyncReady(p) \/ FollowerAppend(p)
    \/ FollowerAppendFails(p) \/ FollowerDone(p)

JobNext ==
    \/ \E j \in Job :
           \/ Start(j) \/ LeaderStep(j) \/ LeaderFail(j)
           \/ \E p \in Followers(j) : FollowerStep(p)
           \/ \E p \in Units(j) : Killed(p)
    \/ \E p \in Proc : (Work(p) \/ AppendIOError(p)) /\ UNCHANGED jobVars

JobSpec == JobInit /\ [][JobNext]_allVars

(* Every process keeps running until it blocks; appends get their lock.    *)
JobFairness ==
    /\ \A j \in Job : WF_allVars(LeaderStep(j))
    /\ \A p \in Proc : WF_allVars(FollowerStep(p))
    /\ \A p \in Proc : WF_allVars(Work(p) /\ UNCHANGED jobVars)

-----------------------------------------------------------------------------
(* Properties *)

(* The job only touches the capsule through the record's operations, so    *)
(* what CapsuleFile promises, and what is proved of it, holds here.        *)
ImplementsCapsuleFile == Spec

Undisturbed == aborts = 0 /\ ~disturbed

(* tpb_k_sync_capsule_task gives a process the capsule of its own leader   *)
(* when runs do not overlap and none was killed or failed before.          *)
SyncOwn ==
    Undisturbed => \A j \in Job : \A p \in Followers(j) : got[p] \in {0, j}

(* An undisturbed run that got through leaves a capsule with exactly its   *)
(* processes, each once, the leader first (the ones that died of SIGBUS in *)
(* tpb_k_sync_capsule_task excepted).                                      *)
CapsuleComplete ==
    Undisturbed =>
        \A j \in Job : jpc[Leader(j)] = "done" =>
            LET f == file[j]
                in == {p \in Units(j) : jpc[p] = "done"} IN
            /\ Len(f.ids) = f.datasize
            /\ f.ids[1] = Leader(j)
            /\ Members(f) = in
            /\ \A k, l \in DOMAIN f.ids : f.ids[k] = f.ids[l] => k = l

(* Undisturbed runs come to their end: no process polls or waits forever.  *)
JobEnds ==
    []Undisturbed => \A p \in Proc : jpc[p] = "start" ~> jpc[p] \in Ended

(* "Blocks until the leader sets the ready flag": a process leaves         *)
(* tpb_k_sync_capsule_task only after its own leader published the capsule.*)
SyncBlocksUntilReady ==
    \A j \in Job : \A p \in Followers(j) :
        jpc[p] \in {"append", "appending", "done", "bus"} =>
            jpc[Leader(j)] \in {"wait", "done", "dead"}
=============================================================================
