---------------------------- MODULE CapsuleFile -----------------------------
(***************************************************************************)
(* A task capsule record (<id>.tpbr of the task domain) and the processes  *)
(* that append to it: tpb_raf_record_append_task_capsule of                *)
(* rafdb-l3-task-taglink.c and the reader tpb_raf_record_read_task.        *)
(*                                                                         *)
(* The record lists the TaskRecordIDs of the processes or threads of one   *)
(* kernel run.  It says how many there are in four places: the position of *)
(* the end magic, the record's datasize, and the TaskID header's data_size *)
(* and dimsizes[0].  An append runs under a whole-file fcntl() lock with   *)
(* stdio buffering off, so its five writes reach the file one by one; a    *)
(* reader takes no lock and a writer can die between any two of them.      *)
(* Sizes are counted in identifiers (20 bytes each).                       *)
(***************************************************************************)
EXTENDS Naturals, Sequences

CONSTANTS Proc,      \* processes that append or read
          Cap,       \* capsule records, by TaskCapsuleRecordID
          Task,      \* TaskRecordIDs
          NoProc,    \* "nobody holds the lock"
          MaxAbort   \* bound: crashes and I/O errors in one behaviour

ASSUME CapsuleFileAssumption ==
    NoProc \notin Proc /\ Cap # {} /\ Task # {} /\ MaxAbort \in Nat

VARIABLES
    file,    \* the capsule records
    lock,    \* who holds the fcntl() write lock of each
    wpc,     \* where each process is in its append or read
    wcap,    \* the capsule the call is about
    wtask,   \* the identifier it appends
    wn,      \* the number of identifiers it computed (append) or read
    tried,   \* appends and creations begun: <<capsule, identifier>>
    acked,   \* appends that returned TPBE_SUCCESS: <<capsule, identifier>>
    before,  \* acked when the process began its last read
    out,     \* what its last call returned, if that was a good read
    aborts   \* crashes and I/O errors so far

fileVars == <<file, lock, wpc, wcap, wtask, wn, tried, acked, before, out, aborts>>

NoEnd == 0  \* the end magic has been overwritten

(* ids: the data section; end: how many identifiers precede the end magic. *)
Record == [live : BOOLEAN, ids : Seq(Task), end : Nat, datasize : Nat,
           hdrsize : Nat, dim0 : Nat]

Absent == [live |-> FALSE, ids |-> <<>>, end |-> 0, datasize |-> 0,
           hdrsize |-> 0, dim0 |-> 0]

(* tpb_raf_record_create_task_capsule writes the record with the leader's  *)
(* identifier; its path becomes known to others only afterwards.           *)
Fresh(t) == [live |-> TRUE, ids |-> <<t>>, end |-> 1, datasize |-> 1,
             hdrsize |-> 1, dim0 |-> 1]

WriteStage == {"check", "magic", "datasize", "hdrsize", "dim0"}
Stage == WriteStage \cup {"idle", "lock", "read", "dead"}

Init ==
    /\ file = [c \in Cap |-> Absent]
    /\ lock = [c \in Cap |-> NoProc]
    /\ wpc = [p \in Proc |-> "idle"]
    /\ wcap = [p \in Proc |-> CHOOSE c \in Cap : TRUE]
    /\ wtask = [p \in Proc |-> CHOOSE t \in Task : TRUE]
    /\ wn = [p \in Proc |-> 0]
    /\ tried = {} /\ acked = {}
    /\ before = [p \in Proc |-> {}]
    /\ out = [p \in Proc |-> <<>>]
    /\ aborts = 0

Goto(p, stage) == wpc' = [wpc EXCEPT ![p] = stage]

(* F_UNLCK, closing the file, or the death of the process. *)
Release(p) == lock' = [c \in Cap |-> IF lock[c] = p THEN NoProc ELSE lock[c]]

Create(p, c, t) ==
    /\ wpc[p] = "idle" /\ ~file[c].live
    /\ file' = [file EXCEPT ![c] = Fresh(t)]
    /\ tried' = tried \cup {<<c, t>>}
    /\ UNCHANGED <<lock, wpc, wcap, wtask, wn, acked, before, out, aborts>>

-----------------------------------------------------------------------------
(* tpb_raf_record_append_task_capsule *)

(* A unit appends its own task once.  fopen("r+b") fails when the record   *)
(* does not exist.                                                         *)
AppendOpen(p, c, t) ==
    /\ wpc[p] = "idle" /\ file[c].live /\ <<c, t>> \notin tried
    /\ tried' = tried \cup {<<c, t>>}
    /\ wcap' = [wcap EXCEPT ![p] = c]
    /\ wtask' = [wtask EXCEPT ![p] = t]
    /\ out' = [out EXCEPT ![p] = <<>>]
    /\ Goto(p, "lock")
    /\ UNCHANGED <<file, lock, wn, acked, before, aborts>>

(* Mutant of AppendLock: the lock covers another range of the file. *)
AppendLockElsewhere(p) ==
    /\ wpc[p] = "lock"
    /\ lock' = [lock EXCEPT ![wcap[p]] = p]
    /\ Goto(p, "check")
    /\ UNCHANGED <<file, wcap, wtask, wn, tried, acked, before, out, aborts>>

(* fcntl(F_SETLKW) *)
AppendLock(p) ==
    /\ wpc[p] = "lock" /\ lock[wcap[p]] = NoProc
    /\ lock' = [lock EXCEPT ![wcap[p]] = p]
    /\ Goto(p, "check")
    /\ UNCHANGED <<file, wcap, wtask, wn, tried, acked, before, out, aborts>>

(* The end magic must be where datasize says. *)
Appendable(f) == f.end = f.datasize

AppendRefuse(p) ==
    /\ wpc[p] = "check" /\ ~Appendable(file[wcap[p]])
    /\ Release(p) /\ Goto(p, "idle")
    /\ UNCHANGED <<file, wcap, wtask, wn, tried, acked, before, out, aborts>>

(* Mutant of AppendId: the write position is one identifier too low. *)
AppendIdTooLow(p) ==
    LET f == file[wcap[p]] IN
    /\ wpc[p] = "check" /\ Appendable(f)
    /\ wn' = [wn EXCEPT ![p] = f.datasize + 1]
    /\ file' = [file EXCEPT ![wcap[p]] =
                    [f EXCEPT !.ids = Append(SubSeq(f.ids, 1, f.datasize - 1), wtask[p]),
                              !.end = NoEnd]]
    /\ Goto(p, "magic")
    /\ UNCHANGED <<lock, wcap, wtask, tried, acked, before, out, aborts>>

(* The identifier is written over the end magic. *)
AppendId(p) ==
    LET f == file[wcap[p]] IN
    /\ wpc[p] = "check" /\ Appendable(f)
    /\ wn' = [wn EXCEPT ![p] = f.datasize + 1]
    /\ file' = [file EXCEPT ![wcap[p]] =
                    [f EXCEPT !.ids = Append(SubSeq(f.ids, 1, f.datasize), wtask[p]),
                              !.end = NoEnd]]
    /\ Goto(p, "magic")
    /\ UNCHANGED <<lock, wcap, wtask, tried, acked, before, out, aborts>>

AppendMagic(p) ==
    /\ wpc[p] = "magic"
    /\ file' = [file EXCEPT ![wcap[p]].end = wn[p]]
    /\ Goto(p, "datasize")
    /\ UNCHANGED <<lock, wcap, wtask, wn, tried, acked, before, out, aborts>>

(* Mutant of AppendDatasize: the record's own datasize is forgotten. *)
AppendDatasizeForgotten(p) ==
    /\ wpc[p] = "datasize"
    /\ Goto(p, "hdrsize")
    /\ UNCHANGED <<file, lock, wcap, wtask, wn, tried, acked, before, out, aborts>>

AppendDatasize(p) ==
    /\ wpc[p] = "datasize"
    /\ file' = [file EXCEPT ![wcap[p]].datasize = wn[p]]
    /\ Goto(p, "hdrsize")
    /\ UNCHANGED <<lock, wcap, wtask, wn, tried, acked, before, out, aborts>>

AppendHdrsize(p) ==
    /\ wpc[p] = "hdrsize"
    /\ file' = [file EXCEPT ![wcap[p]].hdrsize = wn[p]]
    /\ Goto(p, "dim0")
    /\ UNCHANGED <<lock, wcap, wtask, wn, tried, acked, before, out, aborts>>

(* The last write; then unlock, close and TPBE_SUCCESS. *)
AppendDim0(p) ==
    /\ wpc[p] = "dim0"
    /\ file' = [file EXCEPT ![wcap[p]].dim0 = wn[p]]
    /\ acked' = acked \cup {<<wcap[p], wtask[p]>>}
    /\ Release(p) /\ Goto(p, "idle")
    /\ UNCHANGED <<wcap, wtask, wn, tried, before, out, aborts>>

(* fail_unlock: a write failed, what was written before stays. *)
AppendIOError(p) ==
    /\ wpc[p] \in WriteStage /\ aborts < MaxAbort
    /\ aborts' = aborts + 1
    /\ Release(p) /\ Goto(p, "idle")
    /\ UNCHANGED <<file, wcap, wtask, wn, tried, acked, before, out>>

-----------------------------------------------------------------------------
(* tpb_raf_record_read_task on a capsule: datasize first, data and end     *)
(* magic later, without a lock.                                            *)

ReadMeta(p, c) ==
    /\ wpc[p] = "idle" /\ file[c].live
    /\ wcap' = [wcap EXCEPT ![p] = c]
    /\ wn' = [wn EXCEPT ![p] = file[c].datasize]
    /\ before' = [before EXCEPT ![p] = acked]
    /\ out' = [out EXCEPT ![p] = <<>>]
    /\ Goto(p, "read")
    /\ UNCHANGED <<file, lock, wtask, tried, acked, aborts>>

(* The end magic must follow the datasize that was read before. *)
ReadBody(p) ==
    LET f == file[wcap[p]] IN
    /\ wpc[p] = "read"
    /\ out' = [out EXCEPT ![p] = IF f.end = wn[p] THEN SubSeq(f.ids, 1, wn[p])
                                                  ELSE <<>>]
    /\ Goto(p, "idle")
    /\ UNCHANGED <<file, lock, wcap, wtask, wn, tried, acked, before, aborts>>

-----------------------------------------------------------------------------
(* The process is killed; the kernel releases its locks. *)
Crash(p) ==
    /\ wpc[p] # "dead" /\ aborts < MaxAbort
    /\ aborts' = aborts + 1
    /\ Release(p) /\ Goto(p, "dead")
    /\ UNCHANGED <<file, wcap, wtask, wn, tried, acked, before, out>>

Work(p) ==
    \/ AppendLock(p) \/ AppendRefuse(p) \/ AppendId(p) \/ AppendMagic(p)
    \/ AppendDatasize(p) \/ AppendHdrsize(p) \/ AppendDim0(p) \/ ReadBody(p)

Next ==
    \E p \in Proc :
        \/ \E c \in Cap : \/ ReadMeta(p, c)
                          \/ \E t \in Task : Create(p, c, t) \/ AppendOpen(p, c, t)
        \/ Work(p) \/ AppendIOError(p) \/ Crash(p)

Spec == Init /\ [][Next]_fileVars

-----------------------------------------------------------------------------
(* Properties *)

TypeOK ==
    /\ file \in [Cap -> Record]
    /\ lock \in [Cap -> Proc \cup {NoProc}]
    /\ wpc \in [Proc -> Stage]
    /\ wcap \in [Proc -> Cap]
    /\ wtask \in [Proc -> Task]
    /\ wn \in [Proc -> Nat]
    /\ tried \subseteq Cap \X Task /\ acked \subseteq Cap \X Task
    /\ before \in [Proc -> SUBSET (Cap \X Task)]
    /\ out \in [Proc -> Seq(Task)]
    /\ aborts \in Nat

Members(f) == {f.ids[k] : k \in 1..f.datasize}

(* Whatever order the appends of several processes and their crashes take, *)
(* an identifier whose append returned TPBE_SUCCESS stays inside the data  *)
(* section that datasize delimits: no later append writes over it.         *)
AckedStay ==
    \A c \in Cap, t \in Task : <<c, t>> \in acked => t \in Members(file[c])

(* A read that succeeds without the lock returns a state the list really   *)
(* had: whole, and with every append acknowledged before the read began.   *)
ReadWhole ==
    \A p \in Proc : out[p] # <<>> =>
        /\ out[p] = SubSeq(file[wcap[p]].ids, 1, Len(out[p]))
        /\ \A x \in before[p] : x[1] = wcap[p] =>
               \E k \in DOMAIN out[p] : out[p][k] = x[2]

(* When an append returns TPBE_SUCCESS the four counts agree, also after   *)
(* an earlier append died between its writes: the survivor repairs what it *)
(* can still append to.                                                    *)
AckedWhole ==
    [][\A p \in Proc : wpc[p] = "dim0" /\ wpc'[p] = "idle" /\ aborts' = aborts =>
           LET f == file'[wcap[p]] IN
           /\ f.end = Len(f.ids) /\ f.datasize = Len(f.ids)
           /\ f.hdrsize = Len(f.ids) /\ f.dim0 = Len(f.ids)]_fileVars
=============================================================================
