------------------------------ MODULE RafEntry ------------------------------
(***************************************************************************)
(* The L1 index file of one rafdb domain (for example task.tpbe), shared   *)
(* by every process of a workspace: tpbcli front ends and kernel           *)
(* processes.  rafdb-l1-entry.c appends rows under flock() and lists them  *)
(* without a lock; tpb_k_task_set_derive_to (tpb-autorecord.c) patches one *)
(* row in place under flock() after an unlocked list found its position.   *)
(*                                                                         *)
(* The file is start magic, rows, end magic.  An append overwrites the end *)
(* magic with the row and then writes the magic again; stdio may hand the  *)
(* two to the kernel in separate write() calls, so between them the file   *)
(* is "torn": it has no end magic and its size is no whole number of rows. *)
(***************************************************************************)
EXTENDS Naturals, Sequences, FiniteSets

CONSTANTS Proc,      \* processes that use the workspace
          Id,        \* record identifiers; a SHA-1 value is used once
          NoId,      \* the all-zero identifier
          NoProc,    \* "nobody holds the lock"
          MaxAbort   \* bound: crashes and I/O errors in one behaviour

ASSUME RafEntryAssumption ==
    /\ NoId \notin Id
    /\ NoProc \notin Proc
    /\ MaxAbort \in Nat

VARIABLES
    st,      \* "absent", "empty" (size 0), "ok" or "torn"
    rows,    \* the complete rows of the file
    holder,  \* the process that holds flock(LOCK_EX), or NoProc
    pc,      \* where each process is in its current call
    arg,     \* the record the call is about; NoId for a plain list
    size,    \* rows the lister's stat() saw, or the row the patcher found
    used,    \* identifiers generated so far
    tolink,  \* identifiers a process generated and has not tried to link
    acked,   \* appends that returned TPBE_SUCCESS
    before,  \* acked when the process called stat() in its last list
    out,     \* the identifiers its last successful list returned
    aborts   \* crashes and I/O errors so far

vars == <<st, rows, holder, pc, arg, size, used, tolink, acked, before, out,
          aborts>>

Row == [id : Id, derive : Id \cup {NoId}]

Stage == {"idle", "append_lock", "append_check", "append_end",
          "list_read", "patch_lock", "patch_write", "dead"}

Init ==
    /\ st = "absent" /\ rows = <<>> /\ holder = NoProc
    /\ pc = [p \in Proc |-> "idle"]
    /\ arg = [p \in Proc |-> NoId]
    /\ size = [p \in Proc |-> 0]
    /\ used = {} /\ acked = {}
    /\ tolink = [p \in Proc |-> {}]
    /\ before = [p \in Proc |-> {}]
    /\ out = [p \in Proc |-> {}]
    /\ aborts = 0

Goto(p, stage) == pc' = [pc EXCEPT ![p] = stage]

(* Closing the descriptor, or dying, gives the lock back. *)
Unlock(p) == holder' = IF holder = p THEN NoProc ELSE holder

RowIds(rs) == {rs[k].id : k \in DOMAIN rs}

-----------------------------------------------------------------------------
(* _tpb_raf_l1_entry_append *)

(* Mutant of AppendOpen: the hash of two records may be the same. *)
AppendOpenReuse(p, i) ==
    /\ pc[p] = "idle"
    /\ st' = IF st = "absent" THEN "empty" ELSE st
    /\ arg' = [arg EXCEPT ![p] = i]
    /\ used' = used \cup {i}
    /\ tolink' = [tolink EXCEPT ![p] = @ \cup {i}]
    /\ Goto(p, "append_lock")
    /\ UNCHANGED <<rows, holder, size, acked, before, out, aborts>>

(* open(O_RDWR | O_CREAT) *)
AppendOpen(p, i) ==
    /\ pc[p] = "idle" /\ i \notin used
    /\ st' = IF st = "absent" THEN "empty" ELSE st
    /\ arg' = [arg EXCEPT ![p] = i]
    /\ used' = used \cup {i}
    /\ tolink' = [tolink EXCEPT ![p] = @ \cup {i}]
    /\ Goto(p, "append_lock")
    /\ UNCHANGED <<rows, holder, size, acked, before, out, aborts>>

(* Mutant of AppendLock: the result of a non-blocking flock() is ignored. *)
AppendLockIgnored(p) ==
    /\ pc[p] = "append_lock"
    /\ holder' = p
    /\ Goto(p, "append_check")
    /\ UNCHANGED <<st, rows, arg, size, used, tolink, acked, before, out, aborts>>

(* flock(LOCK_EX) *)
AppendLock(p) ==
    /\ pc[p] = "append_lock" /\ holder = NoProc
    /\ holder' = p
    /\ Goto(p, "append_check")
    /\ UNCHANGED <<st, rows, arg, size, used, tolink, acked, before, out, aborts>>

NewRow(i) == [id |-> i, derive |-> NoId]

(* st_size == 0: both magics and the row fit one stdio buffer. *)
AppendFirst(p) ==
    /\ pc[p] = "append_check" /\ st = "empty"
    /\ st' = "ok"
    /\ rows' = Append(rows, NewRow(arg[p]))
    /\ acked' = acked \cup {arg[p]}
    /\ Unlock(p) /\ Goto(p, "idle")
    /\ UNCHANGED <<arg, size, used, tolink, before, out, aborts>>

(* The last 8 bytes are not the end magic: TPBE_FILE_IO_FAIL. *)
AppendRefuse(p) ==
    /\ pc[p] = "append_check" /\ st = "torn"
    /\ Unlock(p) /\ Goto(p, "idle")
    /\ UNCHANGED <<st, rows, arg, size, used, tolink, acked, before, out, aborts>>

(* The row is written over the end magic. *)
AppendRow(p) ==
    /\ pc[p] = "append_check" /\ st = "ok"
    /\ st' = "torn"
    /\ Goto(p, "append_end")
    /\ UNCHANGED <<rows, holder, arg, size, used, tolink, acked, before, out, aborts>>

(* The end magic follows; fclose() releases the lock. *)
AppendEnd(p) ==
    /\ pc[p] = "append_end"
    /\ st' = "ok"
    /\ rows' = Append(rows, NewRow(arg[p]))
    /\ acked' = acked \cup {arg[p]}
    /\ Unlock(p) /\ Goto(p, "idle")
    /\ UNCHANGED <<arg, size, used, tolink, before, out, aborts>>

(* Mutant of AppendIOError: the result of fclose() is ignored. *)
AppendIOErrorIgnored(p) ==
    /\ pc[p] \in {"append_check", "append_end"}
    /\ aborts < MaxAbort
    /\ st' \in IF pc[p] = "append_check" /\ st # "torn" THEN {st, "torn"} ELSE {st}
    /\ acked' = acked \cup {arg[p]}
    /\ Unlock(p) /\ Goto(p, "idle")
    /\ aborts' = aborts + 1
    /\ UNCHANGED <<rows, arg, size, used, tolink, before, out>>

(* fwrite() or fclose() fails (disk full): what was written stays. *)
AppendIOError(p) ==
    /\ pc[p] \in {"append_check", "append_end"}
    /\ aborts < MaxAbort
    /\ st' \in IF pc[p] = "append_check" /\ st # "torn" THEN {st, "torn"} ELSE {st}
    /\ Unlock(p) /\ Goto(p, "idle")
    /\ aborts' = aborts + 1
    /\ UNCHANGED <<rows, arg, size, used, tolink, acked, before, out>>

-----------------------------------------------------------------------------
(* _tpb_raf_l1_entry_list, for a reader (i = NoId) or as the first half of *)
(* tpb_k_task_set_derive_to, which a process calls once for its own task.  *)

ListStat(p, i) ==
    /\ pc[p] = "idle" /\ i \in tolink[p] \cup {NoId}
    /\ tolink' = [tolink EXCEPT ![p] = @ \ {i}]
    /\ arg' = [arg EXCEPT ![p] = i]
    /\ before' = [before EXCEPT ![p] = acked]
    /\ size' = [size EXCEPT ![p] = IF st = "ok" THEN Len(rows) ELSE 0]
    /\ out' = [out EXCEPT ![p] = {}]
    /\ IF st = "ok" THEN Goto(p, "list_read")
                    ELSE UNCHANGED pc  \* no file: no rows; not whole: fail
    /\ UNCHANGED <<st, rows, holder, used, acked, aborts>>

(* The read is good when the end magic is still where stat() put it. *)
ListGood(p) == st = "ok" /\ Len(rows) = size[p]

(* Mutant of ListReadOk: the last row is left out. *)
ListReadShort(p) ==
    /\ pc[p] = "list_read" /\ arg[p] = NoId /\ ListGood(p)
    /\ out' = [out EXCEPT ![p] = RowIds(SubSeq(rows, 1, Len(rows) - 1))]
    /\ Goto(p, "idle")
    /\ UNCHANGED <<st, rows, holder, arg, size, used, tolink, acked, before, aborts>>

ListReadOk(p) ==
    /\ pc[p] = "list_read" /\ arg[p] = NoId /\ ListGood(p)
    /\ out' = [out EXCEPT ![p] = RowIds(rows)]
    /\ Goto(p, "idle")
    /\ UNCHANGED <<st, rows, holder, arg, size, used, tolink, acked, before, aborts>>

(* The rows grew, or are being written: TPBE_FILE_IO_FAIL. *)
ListReadFail(p) ==
    /\ pc[p] = "list_read" /\ ~ListGood(p)
    /\ Goto(p, "idle")
    /\ UNCHANGED <<st, rows, holder, arg, size, used, tolink, acked, before, out, aborts>>

(* First row of the task; found positions are used after the list. *)
FirstRow(i) ==
    CHOOSE k \in DOMAIN rows :
        rows[k].id = i /\ \A j \in DOMAIN rows : rows[j].id = i => k <= j

(* Mutant of PatchFind: the caller's row is taken to be the newest one. *)
PatchFindNewest(p) ==
    /\ pc[p] = "list_read" /\ arg[p] # NoId /\ ListGood(p)
    /\ size' = [size EXCEPT ![p] = Len(rows)]
    /\ Goto(p, "patch_lock")
    /\ UNCHANGED <<st, rows, holder, arg, used, tolink, acked, before, out, aborts>>

PatchFind(p) ==
    /\ pc[p] = "list_read" /\ arg[p] # NoId /\ ListGood(p)
    /\ IF arg[p] \in RowIds(rows)
         THEN /\ size' = [size EXCEPT ![p] = FirstRow(arg[p])]
              /\ Goto(p, "patch_lock")
         ELSE /\ UNCHANGED size
              /\ Goto(p, "idle")
    /\ UNCHANGED <<st, rows, holder, arg, used, tolink, acked, before, out, aborts>>

PatchLock(p) ==
    /\ pc[p] = "patch_lock" /\ holder = NoProc
    /\ holder' = p
    /\ Goto(p, "patch_write")
    /\ UNCHANGED <<st, rows, arg, size, used, tolink, acked, before, out, aborts>>

(* Mutant of PatchWrite: the descriptor stays open and locked. *)
PatchWriteLeak(p) ==
    /\ pc[p] = "patch_write"
    /\ rows' = [rows EXCEPT ![size[p]].derive = arg[p]]
    /\ Goto(p, "idle")
    /\ UNCHANGED <<st, holder, arg, size, used, tolink, acked, before, out, aborts>>

(* fseek to the row's derive_to, write, fflush, unlock. *)
PatchWrite(p) ==
    /\ pc[p] = "patch_write"
    /\ rows' = [rows EXCEPT ![size[p]].derive = arg[p]]
    /\ Unlock(p) /\ Goto(p, "idle")
    /\ UNCHANGED <<st, arg, size, used, tolink, acked, before, out, aborts>>

-----------------------------------------------------------------------------
(* A process is killed inside a call; the kernel drops its lock. *)
Crash(p) ==
    /\ pc[p] \notin {"idle", "dead"}
    /\ aborts < MaxAbort
    /\ Unlock(p) /\ Goto(p, "dead")
    /\ aborts' = aborts + 1
    /\ UNCHANGED <<st, rows, arg, size, used, tolink, acked, before, out>>

Progress(p) ==
    \/ AppendLock(p) \/ AppendFirst(p) \/ AppendRefuse(p)
    \/ AppendRow(p) \/ AppendEnd(p)
    \/ ListReadOk(p) \/ ListReadFail(p)
    \/ PatchFind(p) \/ PatchLock(p) \/ PatchWrite(p)

Next ==
    \E p \in Proc :
        \/ \E i \in Id : AppendOpen(p, i)
        \/ \E i \in Id \cup {NoId} : ListStat(p, i)
        \/ Progress(p)
        \/ AppendIOError(p)
        \/ Crash(p)

Spec == Init /\ [][Next]_vars

(* A call that was begun keeps running: nothing in it waits but flock(). *)
FairSpec == Spec /\ \A p \in Proc : WF_vars(Progress(p))

-----------------------------------------------------------------------------
(* Properties *)

TypeOK ==
    /\ st \in {"absent", "empty", "ok", "torn"}
    /\ rows \in Seq(Row)
    /\ holder \in Proc \cup {NoProc}
    /\ pc \in [Proc -> Stage]
    /\ arg \in [Proc -> Id \cup {NoId}]
    /\ size \in [Proc -> Nat]
    /\ used \subseteq Id /\ acked \subseteq Id
    /\ tolink \in [Proc -> SUBSET Id]
    /\ before \in [Proc -> SUBSET Id]
    /\ out \in [Proc -> SUBSET Id]
    /\ aborts \in Nat

(* However appends, lists and patches of several processes interleave, the *)
(* index lacks its end magic only while the one process that holds the     *)
(* lock is between its two writes, or after a process died or failed       *)
(* there: _tpb_raf_l1_entry_append never damages the file by itself.       *)
IndexWhole ==
    st = "torn" => \/ \E p \in Proc : holder = p /\ pc[p] = "append_end"
                   \/ aborts > 0

(* An append that returned TPBE_SUCCESS stays in the index, in exactly one *)
(* row, through every later append, patch, I/O error and crash.            *)
AckedOnce ==
    \A i \in acked : Cardinality({k \in DOMAIN rows : rows[k].id = i}) = 1

(* A list that succeeds shows every append acknowledged before it began,   *)
(* although _tpb_raf_l1_entry_list takes no lock between stat and fread.   *)
ListSeesAcked ==
    \A p \in Proc : out[p] # {} => before[p] \subseteq out[p]

(* tpb_k_task_set_derive_to finds a row without the lock and writes it     *)
(* later under the lock; the link still lands in its own row.              *)
LinkInOwnRow ==
    \A k \in DOMAIN rows : rows[k].derive \in {NoId, rows[k].id}

(* No step removes or reorders rows: positions found earlier stay valid.   *)
RowsStay ==
    [][/\ Len(rows') >= Len(rows)
       /\ \A k \in DOMAIN rows : rows'[k].id = rows[k].id]_rows

(* The index implements the append-only list its users rely on. *)
Log == INSTANCE EntryLog WITH log <- rows
RefinesEntryLog == Log!Spec

(* Every append or patch that waits for flock() gets through: the holder   *)
(* of the lock always lets go of it, by finishing, failing or dying.       *)
LockWaitEnds ==
    \A p \in Proc :
        pc[p] \in {"append_lock", "patch_lock"} ~> pc[p] \in {"idle", "dead"}
=============================================================================
