--------------------------- MODULE CapsuleProofs ----------------------------
(***************************************************************************)
(* Proofs about capsules.  The first half is about CapsuleFile, for any    *)
(* processes, capsules and identifiers and any number of crashes and I/O   *)
(* errors: an acknowledged identifier is never lost, a lock-free read      *)
(* returns a list the record really had, and an acknowledged append leaves *)
(* the four counts in agreement.                                           *)
(*                                                                         *)
(* The second half is about CapsuleJob: runs of a multi-process kernel     *)
(* implement the capsule record they share, for any number of runs and     *)
(* processes, so the first half holds in them, also when runs overlap,     *)
(* pick up each other's shared memory, or lose processes.  In runs that    *)
(* follow each other and lose nobody, every process learns the capsule of  *)
(* its own leader, and the capsule lists exactly the processes of its run. *)
(***************************************************************************)
EXTENDS CapsuleJob, TLAPS

-----------------------------------------------------------------------------
(* The inductive invariant *)

(* fcntl(): exactly the process that is writing a capsule holds its lock.  *)
LockHeld ==
    \A p \in Proc, c \in Cap :
        lock[c] = p <=> wpc[p] \in WriteStage /\ wcap[p] = c

(* A capsule on disk: as many identifiers as datasize says and the end     *)
(* magic behind them, or one more that an append has not yet accounted for.*)
Shape(f) ==
    /\ f.datasize >= 1
    /\ \/ Len(f.ids) = f.datasize /\ f.end = f.datasize
       \/ Len(f.ids) = f.datasize + 1 /\ f.end \in {NoEnd, f.datasize + 1}

Shapes == \A c \in Cap : file[c].live => Shape(file[c])

(* How far the writer of a capsule has got. *)
WriterAt(p, f) ==
    /\ f.live
    /\ wpc[p] # "check" =>
           wn[p] = Len(f.ids) /\ wn[p] >= 1 /\ f.ids[wn[p]] = wtask[p]
    /\ wpc[p] = "magic" => f.datasize = wn[p] - 1 /\ f.end = NoEnd
    /\ wpc[p] = "datasize" => f.datasize = wn[p] - 1 /\ f.end = wn[p]
    /\ wpc[p] \in {"hdrsize", "dim0"} => f.datasize = wn[p] /\ f.end = wn[p]
    /\ wpc[p] = "dim0" => f.hdrsize = wn[p]

Writer(p) ==
    /\ wpc[p] = "lock" => file[wcap[p]].live
    /\ wpc[p] \in WriteStage => WriterAt(p, file[wcap[p]])

(* t is among the first n identifiers. *)
Within(f, n, t) == \E k \in 1..n : f.ids[k] = t

Acknowledged ==
    \A c \in Cap, t \in Task : <<c, t>> \in acked =>
        file[c].live /\ Within(file[c], file[c].datasize, t)

(* A reader knows a datasize that covers all it must show. *)
Reader(p) ==
    LET f == file[wcap[p]] IN
    wpc[p] = "read" =>
        /\ f.live /\ wn[p] >= 1 /\ wn[p] <= f.datasize /\ out[p] = <<>>
        /\ \A t \in Task : <<wcap[p], t>> \in before[p] => Within(f, wn[p], t)

(* What a read returned is still the beginning of the list. *)
Result(p) ==
    LET f == file[wcap[p]] IN
    out[p] # <<>> =>
        /\ f.live /\ Len(out[p]) <= f.datasize
        /\ \A k \in 1..Len(out[p]) : out[p][k] = f.ids[k]
        /\ \A t \in Task : <<wcap[p], t>> \in before[p] => Within(f, Len(out[p]), t)

Each == \A p \in Proc : Writer(p) /\ Reader(p) /\ Result(p)

IInv == TypeOK /\ LockHeld /\ Shapes /\ Acknowledged /\ Each

-----------------------------------------------------------------------------
(* What the steps do to a capsule *)

(* A step keeps what datasize covers: nothing acknowledged is touched.     *)
Kept ==
    \A c \in Cap : file[c].live =>
        /\ file'[c].live /\ file'[c].datasize >= file[c].datasize
        /\ \A k \in 1..file[c].datasize : file'[c].ids[k] = file[c].ids[k]

(* The identifiers of a capsule after AppendId has written its own.        *)
LEMMA Extended ==
    ASSUME NEW ids \in Seq(Task), NEW t \in Task, NEW n \in 0..Len(ids)
    PROVE  LET new == Append(SubSeq(ids, 1, n), t) IN
           /\ new \in Seq(Task) /\ Len(new) = n + 1 /\ new[n + 1] = t
           /\ \A k \in 1..n : new[k] = ids[k]
<1>1. /\ SubSeq(ids, 1, n) \in Seq(Task)
      /\ Len(SubSeq(ids, 1, n)) = n
      /\ \A k \in 1..n : SubSeq(ids, 1, n)[k] = ids[k]
  OBVIOUS
<1>2. QED
  BY <1>1

(* A step that keeps the capsules keeps what was acknowledged before it.   *)
LEMMA KeptAcknowledged ==
    ASSUME IInv, TypeOK', Kept, acked' = acked
    PROVE  Acknowledged'
<1> SUFFICES ASSUME NEW c \in Cap, NEW t \in Task, <<c, t>> \in acked
             PROVE  file'[c].live /\ Within(file'[c], file'[c].datasize, t)
  BY DEF Acknowledged
<1>1. file[c].live /\ Within(file[c], file[c].datasize, t)
  BY DEF IInv, Acknowledged
<1>2. PICK k \in 1..file[c].datasize : file[c].ids[k] = t
  BY <1>1 DEF Within
<1>3. file[c].datasize \in Nat /\ file'[c].datasize \in Nat
  BY DEF IInv, TypeOK, Record
<1>4. file'[c].ids[k] = t /\ k \in 1..file'[c].datasize
  BY <1>1, <1>2, <1>3 DEF Kept
<1>5. QED
  BY <1>1, <1>4 DEF Kept, Within

(* A process that does nothing itself keeps its view of the capsules.      *)
LEMMA KeptReader ==
    ASSUME IInv, TypeOK', Kept, NEW q \in Proc,
           wpc'[q] = wpc[q], wcap'[q] = wcap[q], wn'[q] = wn[q],
           out'[q] = out[q], before'[q] = before[q]
    PROVE  Reader(q)'
<1> SUFFICES ASSUME wpc[q] = "read"
             PROVE  LET f == file'[wcap[q]] IN
                    /\ f.live /\ wn[q] >= 1 /\ wn[q] <= f.datasize /\ out[q] = <<>>
                    /\ \A t \in Task : <<wcap[q], t>> \in before[q] => Within(f, wn[q], t)
  BY DEF Reader
<1>1. LET f == file[wcap[q]] IN
      /\ f.live /\ wn[q] >= 1 /\ wn[q] <= f.datasize /\ out[q] = <<>>
      /\ \A t \in Task : <<wcap[q], t>> \in before[q] => Within(f, wn[q], t)
  BY DEF IInv, Each, Reader
<1>2. /\ wcap[q] \in Cap /\ wn[q] \in Nat
      /\ file[wcap[q]].datasize \in Nat /\ file'[wcap[q]].datasize \in Nat
  BY DEF IInv, TypeOK, Record
<1>3. \A k \in 1..wn[q] : file'[wcap[q]].ids[k] = file[wcap[q]].ids[k]
  BY <1>1, <1>2 DEF Kept
<1>4. QED
  BY <1>1, <1>2, <1>3 DEF Kept, Within

(* What a finished read returned stays a beginning of the list.            *)
LEMMA KeptResult ==
    ASSUME IInv, TypeOK', Kept, NEW q \in Proc,
           wcap'[q] = wcap[q], out'[q] = out[q], before'[q] = before[q]
    PROVE  Result(q)'
<1> SUFFICES ASSUME out[q] # <<>>
             PROVE  LET f == file'[wcap[q]] IN
                    /\ f.live /\ Len(out[q]) <= f.datasize
                    /\ \A k \in 1..Len(out[q]) : out[q][k] = f.ids[k]
                    /\ \A t \in Task : <<wcap[q], t>> \in before[q] =>
                                           Within(f, Len(out[q]), t)
  BY DEF Result
<1>1. LET f == file[wcap[q]] IN
      /\ f.live /\ Len(out[q]) <= f.datasize
      /\ \A k \in 1..Len(out[q]) : out[q][k] = f.ids[k]
      /\ \A t \in Task : <<wcap[q], t>> \in before[q] => Within(f, Len(out[q]), t)
  BY DEF IInv, Each, Result
<1>2. /\ wcap[q] \in Cap /\ Len(out[q]) \in Nat
      /\ file[wcap[q]].datasize \in Nat /\ file'[wcap[q]].datasize \in Nat
  BY DEF IInv, TypeOK, Record
<1>3. \A k \in 1..Len(out[q]) : file'[wcap[q]].ids[k] = file[wcap[q]].ids[k]
  BY <1>1, <1>2 DEF Kept
<1>4. QED
  BY <1>1, <1>2, <1>3, SMTT(20) DEF Kept, Within

-----------------------------------------------------------------------------
(* One lemma per action: the invariant is preserved. *)

(* An append begins on a capsule that exists. *)
LEMMA AppendOpenKeeps ==
    ASSUME IInv, NEW p \in Proc, NEW c \in Cap, NEW t \in Task, AppendOpen(p, c, t)
    PROVE  IInv'
<1>1. TypeOK'
  BY CapsuleFileAssumption DEF IInv, TypeOK, AppendOpen, Goto, Stage, WriteStage
<1>2. Kept
  BY DEF IInv, TypeOK, AppendOpen, Goto, Record, Kept
<1>3. LockHeld'
  BY CapsuleFileAssumption DEF IInv, TypeOK, AppendOpen, Goto, LockHeld, WriteStage
<1>4. Shapes'
  BY DEF IInv, TypeOK, AppendOpen, Goto, Shapes
<1>5. Acknowledged'
  BY <1>1, <1>2, KeptAcknowledged DEF AppendOpen, Goto
<1>6. ASSUME NEW q \in Proc PROVE Writer(q)'
  BY DEF IInv, TypeOK, AppendOpen, Goto, Each, Writer, WriterAt, WriteStage
<1>7. ASSUME NEW q \in Proc PROVE Reader(q)'
  <2>1. CASE q = p
    BY <1>1, <2>1 DEF IInv, TypeOK, AppendOpen, Goto, Reader
  <2>2. CASE q # p
    BY <1>1, <1>2, <2>2, KeptReader DEF IInv, TypeOK, AppendOpen, Goto
  <2>3. QED
    BY <2>1, <2>2
<1>8. ASSUME NEW q \in Proc PROVE Result(q)'
  <2>1. CASE q = p
    BY <2>1 DEF IInv, TypeOK, AppendOpen, Goto, Result
  <2>2. CASE q # p
    BY <1>1, <1>2, <2>2, KeptResult DEF IInv, TypeOK, AppendOpen, Goto
  <2>3. QED
    BY <2>1, <2>2
<1>9. QED
  BY <1>1, <1>3, <1>4, <1>5, <1>6, <1>7, <1>8 DEF IInv, Each

(* fcntl() is granted when nobody holds the lock. *)
LEMMA AppendLockKeeps ==
    ASSUME IInv, NEW p \in Proc, AppendLock(p)
    PROVE  IInv'
<1>1. TypeOK'
  BY CapsuleFileAssumption DEF IInv, TypeOK, AppendLock, Goto, Stage, WriteStage
<1>2. Kept
  BY DEF IInv, TypeOK, AppendLock, Goto, Record, Kept
<1>3. LockHeld'
  BY CapsuleFileAssumption DEF IInv, TypeOK, AppendLock, Goto, LockHeld, WriteStage
<1>4. Shapes'
  BY DEF IInv, TypeOK, AppendLock, Goto, Shapes
<1>5. Acknowledged'
  BY <1>1, <1>2, KeptAcknowledged DEF AppendLock, Goto
<1>6. ASSUME NEW q \in Proc PROVE Writer(q)'
  BY DEF IInv, TypeOK, AppendLock, Goto, Each, Writer, WriterAt, WriteStage
<1>7. ASSUME NEW q \in Proc PROVE Reader(q)'
  <2>1. CASE q = p
    BY <1>1, <2>1 DEF IInv, TypeOK, AppendLock, Goto, Reader
  <2>2. CASE q # p
    BY <1>1, <1>2, <2>2, KeptReader DEF IInv, TypeOK, AppendLock, Goto
  <2>3. QED
    BY <2>1, <2>2
<1>8. ASSUME NEW q \in Proc PROVE Result(q)'
  BY <1>1, <1>2, KeptResult DEF IInv, TypeOK, AppendLock, Goto
<1>9. QED
  BY <1>1, <1>3, <1>4, <1>5, <1>6, <1>7, <1>8 DEF IInv, Each

(* A capsule whose end magic is not in place stays as it is. *)
LEMMA AppendRefuseKeeps ==
    ASSUME IInv, NEW p \in Proc, AppendRefuse(p)
    PROVE  IInv'
<1>1. TypeOK'
  BY CapsuleFileAssumption DEF IInv, TypeOK, AppendRefuse, Goto, Release, Stage, WriteStage
<1>2. Kept
  BY DEF IInv, TypeOK, AppendRefuse, Goto, Release, Record, Kept
<1>3. LockHeld'
  BY CapsuleFileAssumption DEF IInv, TypeOK, AppendRefuse, Goto, Release, LockHeld, WriteStage
<1>4. Shapes'
  BY DEF IInv, TypeOK, AppendRefuse, Goto, Release, Shapes
<1>5. Acknowledged'
  BY <1>1, <1>2, KeptAcknowledged DEF AppendRefuse, Goto, Release
<1>6. ASSUME NEW q \in Proc PROVE Writer(q)'
  BY DEF IInv, TypeOK, AppendRefuse, Goto, Release, Each, Writer, WriterAt, WriteStage
<1>7. ASSUME NEW q \in Proc PROVE Reader(q)'
  <2>1. CASE q = p
    BY <1>1, <2>1 DEF IInv, TypeOK, AppendRefuse, Goto, Release, Reader
  <2>2. CASE q # p
    BY <1>1, <1>2, <2>2, KeptReader DEF IInv, TypeOK, AppendRefuse, Goto, Release
  <2>3. QED
    BY <2>1, <2>2
<1>8. ASSUME NEW q \in Proc PROVE Result(q)'
  BY <1>1, <1>2, KeptResult DEF IInv, TypeOK, AppendRefuse, Goto, Release
<1>9. QED
  BY <1>1, <1>3, <1>4, <1>5, <1>6, <1>7, <1>8 DEF IInv, Each

(* What was written before an error stays. *)
LEMMA AppendIOErrorKeeps ==
    ASSUME IInv, NEW p \in Proc, AppendIOError(p)
    PROVE  IInv'
<1>1. TypeOK'
  BY CapsuleFileAssumption DEF IInv, TypeOK, AppendIOError, Goto, Release, Stage, WriteStage
<1>2. Kept
  BY DEF IInv, TypeOK, AppendIOError, Goto, Release, Record, Kept
<1>3. LockHeld'
  BY CapsuleFileAssumption DEF IInv, TypeOK, AppendIOError, Goto, Release, LockHeld, WriteStage
<1>4. Shapes'
  BY DEF IInv, TypeOK, AppendIOError, Goto, Release, Shapes
<1>5. Acknowledged'
  BY <1>1, <1>2, KeptAcknowledged DEF AppendIOError, Goto, Release
<1>6. ASSUME NEW q \in Proc PROVE Writer(q)'
  BY DEF IInv, TypeOK, AppendIOError, Goto, Release, Each, Writer, WriterAt, WriteStage
<1>7. ASSUME NEW q \in Proc PROVE Reader(q)'
  <2>1. CASE q = p
    BY <1>1, <2>1 DEF IInv, TypeOK, AppendIOError, Goto, Release, Reader
  <2>2. CASE q # p
    BY <1>1, <1>2, <2>2, KeptReader DEF IInv, TypeOK, AppendIOError, Goto, Release
  <2>3. QED
    BY <2>1, <2>2
<1>8. ASSUME NEW q \in Proc PROVE Result(q)'
  BY <1>1, <1>2, KeptResult DEF IInv, TypeOK, AppendIOError, Goto, Release
<1>9. QED
  BY <1>1, <1>3, <1>4, <1>5, <1>6, <1>7, <1>8 DEF IInv, Each

(* The same when the process dies. *)
LEMMA CrashKeeps ==
    ASSUME IInv, NEW p \in Proc, Crash(p)
    PROVE  IInv'
<1>1. TypeOK'
  BY CapsuleFileAssumption DEF IInv, TypeOK, Crash, Goto, Release, Stage, WriteStage
<1>2. Kept
  BY DEF IInv, TypeOK, Crash, Goto, Release, Record, Kept
<1>3. LockHeld'
  BY CapsuleFileAssumption DEF IInv, TypeOK, Crash, Goto, Release, LockHeld, WriteStage
<1>4. Shapes'
  BY DEF IInv, TypeOK, Crash, Goto, Release, Shapes
<1>5. Acknowledged'
  BY <1>1, <1>2, KeptAcknowledged DEF Crash, Goto, Release
<1>6. ASSUME NEW q \in Proc PROVE Writer(q)'
  BY DEF IInv, TypeOK, Crash, Goto, Release, Each, Writer, WriterAt, WriteStage
<1>7. ASSUME NEW q \in Proc PROVE Reader(q)'
  <2>1. CASE q = p
    BY <1>1, <2>1 DEF IInv, TypeOK, Crash, Goto, Release, Reader
  <2>2. CASE q # p
    BY <1>1, <1>2, <2>2, KeptReader DEF IInv, TypeOK, Crash, Goto, Release
  <2>3. QED
    BY <2>1, <2>2
<1>8. ASSUME NEW q \in Proc PROVE Result(q)'
  BY <1>1, <1>2, KeptResult DEF IInv, TypeOK, Crash, Goto, Release
<1>9. QED
  BY <1>1, <1>3, <1>4, <1>5, <1>6, <1>7, <1>8 DEF IInv, Each

(* A new capsule holds the identifier of the leader. *)
LEMMA CreateKeeps ==
    ASSUME IInv, NEW p \in Proc, NEW c \in Cap, NEW t \in Task, Create(p, c, t)
    PROVE  IInv'
<1>1. TypeOK'
  <2>1. Fresh(t) \in Record
    BY DEF Fresh, Record
  <2>2. QED
    BY <2>1 DEF IInv, TypeOK, Create
<1>2. Kept
  BY SMTT(20) DEF IInv, TypeOK, Create, Record, Kept
<1>3. LockHeld'
  BY CapsuleFileAssumption DEF IInv, TypeOK, Create, LockHeld, WriteStage
<1>4. Shapes'
  BY DEF IInv, TypeOK, Create, Shapes, Shape, Fresh
<1>5. Acknowledged'
  BY <1>1, <1>2, KeptAcknowledged DEF Create
<1>6. ASSUME NEW q \in Proc PROVE Writer(q)'
  BY DEF IInv, TypeOK, Create, Each, Writer, WriterAt, WriteStage
<1>7. ASSUME NEW q \in Proc PROVE Reader(q)'
  <2>1. CASE q = p
    BY <1>1, <2>1 DEF IInv, TypeOK, Create, Reader
  <2>2. CASE q # p
    BY <1>1, <1>2, <2>2, KeptReader DEF IInv, TypeOK, Create
  <2>3. QED
    BY <2>1, <2>2
<1>8. ASSUME NEW q \in Proc PROVE Result(q)'
  BY <1>1, <1>2, KeptResult DEF IInv, TypeOK, Create
<1>9. QED
  BY <1>1, <1>3, <1>4, <1>5, <1>6, <1>7, <1>8 DEF IInv, Each

(* The end magic is put behind the new identifier. *)
LEMMA AppendMagicKeeps ==
    ASSUME IInv, NEW p \in Proc, AppendMagic(p)
    PROVE  IInv'
<1>1. TypeOK'
  BY DEF IInv, TypeOK, AppendMagic, Goto, Stage, WriteStage, Record
<1>2. Kept
  <2>1. file[wcap[p]].live /\ Shape(file[wcap[p]]) /\ WriterAt(p, file[wcap[p]])
    BY DEF IInv, TypeOK, AppendMagic, Goto, Each, Writer, Shapes, WriteStage, WriterAt
  <2>2. file[wcap[p]].datasize \in Nat /\ wn[p] \in Nat
    BY DEF IInv, TypeOK, Record
  <2>3. /\ file'[wcap[p]].live /\ file'[wcap[p]].datasize >= file[wcap[p]].datasize
        /\ file'[wcap[p]].ids = file[wcap[p]].ids
    BY <2>1, <2>2 DEF IInv, TypeOK, AppendMagic, Goto, Record, WriterAt
  <2>4. \A c \in Cap : c # wcap[p] => file'[c] = file[c]
    BY DEF IInv, TypeOK, AppendMagic, Goto
  <2>5. \A c \in Cap : file[c].datasize \in Nat
    BY DEF IInv, TypeOK, Record
  <2>6. QED
    BY <2>3, <2>4, <2>5 DEF Kept
<1>3. LockHeld'
  BY CapsuleFileAssumption DEF IInv, TypeOK, AppendMagic, Goto, LockHeld, WriteStage
<1>4. Shapes'
  <2>1. file[wcap[p]].live /\ WriterAt(p, file[wcap[p]])
    BY DEF IInv, TypeOK, AppendMagic, Goto, Each, Writer, WriteStage, WriterAt
  <2>2. QED
    BY <1>1, <2>1 DEF IInv, TypeOK, AppendMagic, Goto, Record, Shapes, Shape, WriterAt, NoEnd
<1>5. Acknowledged'
  BY <1>1, <1>2, KeptAcknowledged DEF AppendMagic, Goto
<1>6. ASSUME NEW q \in Proc PROVE Writer(q)'
  <2>1. CASE q = p
    BY <2>1 DEF IInv, TypeOK, AppendMagic, Goto, Record, Each, Writer, WriterAt, WriteStage
  <2>2. CASE q # p
    <3>1. wpc[q] \in WriteStage => wcap[q] # wcap[p]
      BY <2>2 DEF IInv, TypeOK, AppendMagic, Goto, LockHeld, WriteStage
    <3>2. wpc'[q] = "lock" => file'[wcap'[q]].live
      BY <1>2, <2>2 DEF IInv, TypeOK, AppendMagic, Goto, Each, Writer, Kept
    <3>3. QED
      BY <2>2, <3>1, <3>2 DEF IInv, TypeOK, AppendMagic, Goto, Each, Writer, WriterAt
  <2>3. QED
    BY <2>1, <2>2
<1>7. ASSUME NEW q \in Proc PROVE Reader(q)'
  <2>1. CASE q = p
    BY <1>1, <2>1 DEF IInv, TypeOK, AppendMagic, Goto, Reader
  <2>2. CASE q # p
    BY <1>1, <1>2, <2>2, KeptReader DEF IInv, TypeOK, AppendMagic, Goto
  <2>3. QED
    BY <2>1, <2>2
<1>8. ASSUME NEW q \in Proc PROVE Result(q)'
  BY <1>1, <1>2, KeptResult DEF IInv, TypeOK, AppendMagic, Goto
<1>9. QED
  BY <1>1, <1>3, <1>4, <1>5, <1>6, <1>7, <1>8 DEF IInv, Each

(* From here on the new identifier counts. *)
LEMMA AppendDatasizeKeeps ==
    ASSUME IInv, NEW p \in Proc, AppendDatasize(p)
    PROVE  IInv'
<1>1. TypeOK'
  BY DEF IInv, TypeOK, AppendDatasize, Goto, Stage, WriteStage, Record
<1>2. Kept
  <2>1. file[wcap[p]].live /\ Shape(file[wcap[p]]) /\ WriterAt(p, file[wcap[p]])
    BY DEF IInv, TypeOK, AppendDatasize, Goto, Each, Writer, Shapes, WriteStage, WriterAt
  <2>2. file[wcap[p]].datasize \in Nat /\ wn[p] \in Nat
    BY DEF IInv, TypeOK, Record
  <2>3. /\ file'[wcap[p]].live /\ file'[wcap[p]].datasize >= file[wcap[p]].datasize
        /\ file'[wcap[p]].ids = file[wcap[p]].ids
    BY <2>1, <2>2 DEF IInv, TypeOK, AppendDatasize, Goto, Record, WriterAt
  <2>4. \A c \in Cap : c # wcap[p] => file'[c] = file[c]
    BY DEF IInv, TypeOK, AppendDatasize, Goto
  <2>5. \A c \in Cap : file[c].datasize \in Nat
    BY DEF IInv, TypeOK, Record
  <2>6. QED
    BY <2>3, <2>4, <2>5 DEF Kept
<1>3. LockHeld'
  BY CapsuleFileAssumption DEF IInv, TypeOK, AppendDatasize, Goto, LockHeld, WriteStage
<1>4. Shapes'
  <2>1. file[wcap[p]].live /\ WriterAt(p, file[wcap[p]])
    BY DEF IInv, TypeOK, AppendDatasize, Goto, Each, Writer, WriteStage, WriterAt
  <2>2. QED
    BY <1>1, <2>1 DEF IInv, TypeOK, AppendDatasize, Goto, Record, Shapes, Shape, WriterAt, NoEnd
<1>5. Acknowledged'
  BY <1>1, <1>2, KeptAcknowledged DEF AppendDatasize, Goto
<1>6. ASSUME NEW q \in Proc PROVE Writer(q)'
  <2>1. CASE q = p
    BY <2>1 DEF IInv, TypeOK, AppendDatasize, Goto, Record, Each, Writer, WriterAt, WriteStage
  <2>2. CASE q # p
    <3>1. wpc[q] \in WriteStage => wcap[q] # wcap[p]
      BY <2>2 DEF IInv, TypeOK, AppendDatasize, Goto, LockHeld, WriteStage
    <3>2. wpc'[q] = "lock" => file'[wcap'[q]].live
      BY <1>2, <2>2 DEF IInv, TypeOK, AppendDatasize, Goto, Each, Writer, Kept
    <3>3. QED
      BY <2>2, <3>1, <3>2 DEF IInv, TypeOK, AppendDatasize, Goto, Each, Writer, WriterAt
  <2>3. QED
    BY <2>1, <2>2
<1>7. ASSUME NEW q \in Proc PROVE Reader(q)'
  <2>1. CASE q = p
    BY <1>1, <2>1 DEF IInv, TypeOK, AppendDatasize, Goto, Reader
  <2>2. CASE q # p
    BY <1>1, <1>2, <2>2, KeptReader DEF IInv, TypeOK, AppendDatasize, Goto
  <2>3. QED
    BY <2>1, <2>2
<1>8. ASSUME NEW q \in Proc PROVE Result(q)'
  BY <1>1, <1>2, KeptResult DEF IInv, TypeOK, AppendDatasize, Goto
<1>9. QED
  BY <1>1, <1>3, <1>4, <1>5, <1>6, <1>7, <1>8 DEF IInv, Each

(* The header follows. *)
LEMMA AppendHdrsizeKeeps ==
    ASSUME IInv, NEW p \in Proc, AppendHdrsize(p)
    PROVE  IInv'
<1>1. TypeOK'
  BY DEF IInv, TypeOK, AppendHdrsize, Goto, Stage, WriteStage, Record
<1>2. Kept
  <2>1. file[wcap[p]].live /\ Shape(file[wcap[p]]) /\ WriterAt(p, file[wcap[p]])
    BY DEF IInv, TypeOK, AppendHdrsize, Goto, Each, Writer, Shapes, WriteStage, WriterAt
  <2>2. file[wcap[p]].datasize \in Nat /\ wn[p] \in Nat
    BY DEF IInv, TypeOK, Record
  <2>3. /\ file'[wcap[p]].live /\ file'[wcap[p]].datasize >= file[wcap[p]].datasize
        /\ file'[wcap[p]].ids = file[wcap[p]].ids
    BY <2>1, <2>2 DEF IInv, TypeOK, AppendHdrsize, Goto, Record, WriterAt
  <2>4. \A c \in Cap : c # wcap[p] => file'[c] = file[c]
    BY DEF IInv, TypeOK, AppendHdrsize, Goto
  <2>5. \A c \in Cap : file[c].datasize \in Nat
    BY DEF IInv, TypeOK, Record
  <2>6. QED
    BY <2>3, <2>4, <2>5 DEF Kept
<1>3. LockHeld'
  BY CapsuleFileAssumption DEF IInv, TypeOK, AppendHdrsize, Goto, LockHeld, WriteStage
<1>4. Shapes'
  <2>1. file[wcap[p]].live /\ WriterAt(p, file[wcap[p]])
    BY DEF IInv, TypeOK, AppendHdrsize, Goto, Each, Writer, WriteStage, WriterAt
  <2>2. QED
    BY <1>1, <2>1 DEF IInv, TypeOK, AppendHdrsize, Goto, Record, Shapes, Shape, WriterAt, NoEnd
<1>5. Acknowledged'
  BY <1>1, <1>2, KeptAcknowledged DEF AppendHdrsize, Goto
<1>6. ASSUME NEW q \in Proc PROVE Writer(q)'
  <2>1. CASE q = p
    BY <2>1 DEF IInv, TypeOK, AppendHdrsize, Goto, Record, Each, Writer, WriterAt, WriteStage
  <2>2. CASE q # p
    <3>1. wpc[q] \in WriteStage => wcap[q] # wcap[p]
      BY <2>2 DEF IInv, TypeOK, AppendHdrsize, Goto, LockHeld, WriteStage
    <3>2. wpc'[q] = "lock" => file'[wcap'[q]].live
      BY <1>2, <2>2 DEF IInv, TypeOK, AppendHdrsize, Goto, Each, Writer, Kept
    <3>3. QED
      BY <2>2, <3>1, <3>2 DEF IInv, TypeOK, AppendHdrsize, Goto, Each, Writer, WriterAt
  <2>3. QED
    BY <2>1, <2>2
<1>7. ASSUME NEW q \in Proc PROVE Reader(q)'
  <2>1. CASE q = p
    BY <1>1, <2>1 DEF IInv, TypeOK, AppendHdrsize, Goto, Reader
  <2>2. CASE q # p
    BY <1>1, <1>2, <2>2, KeptReader DEF IInv, TypeOK, AppendHdrsize, Goto
  <2>3. QED
    BY <2>1, <2>2
<1>8. ASSUME NEW q \in Proc PROVE Result(q)'
  BY <1>1, <1>2, KeptResult DEF IInv, TypeOK, AppendHdrsize, Goto
<1>9. QED
  BY <1>1, <1>3, <1>4, <1>5, <1>6, <1>7, <1>8 DEF IInv, Each

(* The last write: the append is acknowledged. *)
LEMMA AppendDim0Keeps ==
    ASSUME IInv, NEW p \in Proc, AppendDim0(p)
    PROVE  IInv'
<1>1. TypeOK'
  <2>1. [file[wcap[p]] EXCEPT !.dim0 = wn[p]] \in Record
    <3>1. file[wcap[p]] \in Record /\ wn[p] \in Nat
      BY DEF IInv, TypeOK
    <3>2. QED
      BY <3>1 DEF Record
  <2>2. file' \in [Cap -> Record]
    BY <2>1 DEF IInv, TypeOK, AppendDim0
  <2>3. <<wcap[p], wtask[p]>> \in Cap \X Task
    BY DEF IInv, TypeOK
  <2>4. lock' \in [Cap -> Proc \cup {NoProc}] /\ wpc' \in [Proc -> Stage]
    BY DEF IInv, TypeOK, AppendDim0, Goto, Release, Stage
  <2>5. QED
    BY <2>2, <2>3, <2>4 DEF IInv, TypeOK, AppendDim0
<1>2. Kept
  <2>1. /\ file'[wcap[p]].live = file[wcap[p]].live
        /\ file'[wcap[p]].datasize = file[wcap[p]].datasize
        /\ file'[wcap[p]].ids = file[wcap[p]].ids
    BY DEF IInv, TypeOK, AppendDim0, Goto, Release, Record
  <2>2. \A c \in Cap : c # wcap[p] => file'[c] = file[c]
    BY DEF IInv, TypeOK, AppendDim0, Goto, Release
  <2>3. \A c \in Cap : file[c].datasize \in Nat
    BY DEF IInv, TypeOK, Record
  <2>4. QED
    BY <2>1, <2>2, <2>3 DEF Kept
<1>3. LockHeld'
  BY CapsuleFileAssumption DEF IInv, TypeOK, AppendDim0, Goto, Release, LockHeld, WriteStage
<1>4. Shapes'
  BY DEF IInv, TypeOK, AppendDim0, Goto, Release, Record, Shapes, Shape
<1>5. Acknowledged'
  <2>1. LET f == file[wcap[p]] IN
        f.live /\ f.datasize = wn[p] /\ wn[p] >= 1 /\ f.ids[wn[p]] = wtask[p]
    BY DEF IInv, TypeOK, AppendDim0, Goto, Release, Each, Writer, WriterAt, WriteStage
  <2>2. wn[p] \in Nat /\ wcap[p] \in Cap /\ wtask[p] \in Task
    BY DEF IInv, TypeOK
  <2>3. /\ file'[wcap[p]].live /\ file'[wcap[p]].datasize = wn[p]
        /\ file'[wcap[p]].ids[wn[p]] = wtask[p]
    BY <2>1, <2>2 DEF IInv, TypeOK, AppendDim0, Goto, Release, Record
  <2>4. \A c \in Cap, t \in Task : <<c, t>> \in acked =>
            file'[c].live /\ Within(file'[c], file'[c].datasize, t)
    <3> SUFFICES ASSUME NEW c \in Cap, NEW t \in Task, <<c, t>> \in acked
                 PROVE  file'[c].live /\ Within(file'[c], file'[c].datasize, t)
      OBVIOUS
    <3>1. file[c].live /\ Within(file[c], file[c].datasize, t)
      BY DEF IInv, Acknowledged
    <3>2. file'[c].datasize = file[c].datasize /\ file'[c].ids = file[c].ids
      BY DEF IInv, TypeOK, AppendDim0, Goto, Release, Record
    <3>3. QED
      BY <1>2, <3>1, <3>2 DEF Kept, Within
  <2>5. Within(file'[wcap[p]], file'[wcap[p]].datasize, wtask[p])
    BY <2>1, <2>2, <2>3 DEF Within
  <2>6. acked' = acked \cup {<<wcap[p], wtask[p]>>}
    BY DEF AppendDim0
  <2>7. QED
    BY <2>3, <2>4, <2>5, <2>6 DEF Acknowledged
<1>6. ASSUME NEW q \in Proc PROVE Writer(q)'
  <2>1. CASE q = p
    BY <2>1 DEF IInv, TypeOK, AppendDim0, Goto, Release, Writer, WriteStage
  <2>2. CASE q # p
    <3>1. wpc[q] \in WriteStage => wcap[q] # wcap[p]
      BY <2>2 DEF IInv, TypeOK, AppendDim0, Goto, Release, LockHeld, WriteStage
    <3>2. wpc'[q] = "lock" => file'[wcap'[q]].live
      BY <1>2, <2>2 DEF IInv, TypeOK, AppendDim0, Goto, Release, Each, Writer, Kept
    <3>3. QED
      BY <2>2, <3>1, <3>2 DEF IInv, TypeOK, AppendDim0, Goto, Release, Each, Writer, WriterAt
  <2>3. QED
    BY <2>1, <2>2
<1>7. ASSUME NEW q \in Proc PROVE Reader(q)'
  <2>1. CASE q = p
    BY <1>1, <2>1 DEF IInv, TypeOK, AppendDim0, Goto, Release, Reader
  <2>2. CASE q # p
    BY <1>1, <1>2, <2>2, KeptReader DEF IInv, TypeOK, AppendDim0, Goto, Release
  <2>3. QED
    BY <2>1, <2>2
<1>8. ASSUME NEW q \in Proc PROVE Result(q)'
  BY <1>1, <1>2, KeptResult DEF IInv, TypeOK, AppendDim0, Goto, Release
<1>9. QED
  BY <1>1, <1>3, <1>4, <1>5, <1>6, <1>7, <1>8 DEF IInv, Each

(* The identifier goes where the end magic was, behind all that datasize   *)
(* covers.                                                                 *)
LEMMA AppendIdKeeps ==
    ASSUME IInv, NEW p \in Proc, AppendId(p)
    PROVE  IInv'
<1>1. TypeOK'
  <2> DEFINE f == file[wcap[p]]
             ids == Append(SubSeq(f.ids, 1, f.datasize), wtask[p])
  <2>1. f.ids \in Seq(Task) /\ f.datasize \in Nat /\ wtask[p] \in Task
    BY DEF IInv, TypeOK, Record
  <2>2. f.live /\ f.datasize <= Len(f.ids)
    <3>1. f.live
      BY DEF IInv, TypeOK, AppendId, Goto, Each, Writer, WriterAt, WriteStage
    <3>2. Shape(f)
      BY <3>1 DEF IInv, TypeOK, Shapes
    <3>3. QED
      BY <2>1, <3>1, <3>2 DEF Shape
  <2>3. ids \in Seq(Task)
    BY <2>1, <2>2, Extended
  <2>4. [f EXCEPT !.ids = ids, !.end = NoEnd] \in Record
    <3>1. f \in Record
      BY DEF IInv, TypeOK
    <3>2. QED
      BY <2>3, <3>1 DEF Record, NoEnd
  <2>5. QED
    BY <2>1, <2>4 DEF IInv, TypeOK, AppendId, Goto, Stage, WriteStage
<1>write. LET f == file[wcap[p]]
          g == file'[wcap[p]] IN
      /\ g.live /\ g.datasize = f.datasize /\ f.datasize \in Nat /\ f.datasize >= 1
      /\ g.end = NoEnd /\ Len(g.ids) = f.datasize + 1
      /\ g.ids[f.datasize + 1] = wtask[p]
      /\ \A k \in 1..f.datasize : g.ids[k] = f.ids[k]
      /\ \A c \in Cap : c # wcap[p] => file'[c] = file[c]
      /\ \A c \in Cap : file[c].datasize \in Nat
  <2> DEFINE f == file[wcap[p]]
  <2>1. f.ids \in Seq(Task) /\ f.datasize \in Nat /\ wtask[p] \in Task /\ wcap[p] \in Cap
    BY DEF IInv, TypeOK, Record
  <2>2. f.live
    BY DEF IInv, TypeOK, AppendId, Goto, Each, Writer, WriterAt, WriteStage
  <2>3. Shape(f)
    BY <2>1, <2>2 DEF IInv, Shapes
  <2>4. f.datasize \in 0..Len(f.ids) /\ f.datasize >= 1
    BY <2>1, <2>3 DEF Shape
  <2>5. file'[wcap[p]] = [f EXCEPT !.ids = Append(SubSeq(f.ids, 1, f.datasize), wtask[p]),
                                   !.end = NoEnd]
    BY DEF IInv, TypeOK, AppendId, Goto
  <2>6. \A c \in Cap : c # wcap[p] => file'[c] = file[c]
    BY DEF IInv, TypeOK, AppendId, Goto
  <2>7. \A c \in Cap : file[c].datasize \in Nat
    BY DEF IInv, TypeOK, Record
  <2>8. f \in Record
    BY DEF IInv, TypeOK
  <2>9. QED
    BY <2>1, <2>2, <2>4, <2>5, <2>6, <2>7, <2>8, Extended DEF Record
<1>2. Kept
  BY <1>write, SMTT(20) DEF Kept
<1>3. LockHeld'
  BY CapsuleFileAssumption DEF IInv, TypeOK, AppendId, Goto, LockHeld, WriteStage
<1>4. Shapes'
  BY <1>write DEF IInv, TypeOK, Shapes, Shape
<1>5. Acknowledged'
  BY <1>1, <1>2, KeptAcknowledged DEF AppendId, Goto
<1>6. ASSUME NEW q \in Proc PROVE Writer(q)'
  <2>1. CASE q = p
    BY <1>write, <2>1 DEF IInv, TypeOK, AppendId, Goto, Writer, WriterAt, WriteStage
  <2>2. CASE q # p
    <3>1. wpc[q] \in WriteStage => wcap[q] # wcap[p]
      BY <2>2 DEF IInv, TypeOK, AppendId, Goto, LockHeld, WriteStage
    <3>2. wpc'[q] = "lock" => file'[wcap'[q]].live
      BY <1>2, <2>2 DEF IInv, TypeOK, AppendId, Goto, Each, Writer, Kept
    <3>3. QED
      BY <2>2, <3>1, <3>2 DEF IInv, TypeOK, AppendId, Goto, Each, Writer, WriterAt
  <2>3. QED
    BY <2>1, <2>2
<1>7. ASSUME NEW q \in Proc PROVE Reader(q)'
  <2>1. CASE q = p
    BY <1>1, <2>1 DEF IInv, TypeOK, AppendId, Goto, Reader
  <2>2. CASE q # p
    BY <1>1, <1>2, <2>2, KeptReader DEF IInv, TypeOK, AppendId, Goto
  <2>3. QED
    BY <2>1, <2>2
<1>8. ASSUME NEW q \in Proc PROVE Result(q)'
  BY <1>1, <1>2, KeptResult DEF IInv, TypeOK, AppendId, Goto
<1>9. QED
  BY <1>1, <1>3, <1>4, <1>5, <1>6, <1>7, <1>8 DEF IInv, Each

(* A reader takes the datasize; it covers what was acknowledged.          *)
LEMMA ReadMetaKeeps ==
    ASSUME IInv, NEW p \in Proc, NEW c \in Cap, ReadMeta(p, c)
    PROVE  IInv'
<1>1. TypeOK'
  <2>1. file[c].datasize \in Nat
    BY DEF IInv, TypeOK, Record
  <2>2. QED
    BY <2>1 DEF IInv, TypeOK, ReadMeta, Goto, Stage
<1>2. Kept
  BY DEF IInv, TypeOK, ReadMeta, Goto, Record, Kept
<1>3. LockHeld'
  BY CapsuleFileAssumption DEF IInv, TypeOK, ReadMeta, Goto, LockHeld, WriteStage
<1>4. Shapes'
  BY DEF IInv, TypeOK, ReadMeta, Goto, Shapes
<1>5. Acknowledged'
  BY <1>1, <1>2, KeptAcknowledged DEF ReadMeta, Goto
<1>6. ASSUME NEW q \in Proc PROVE Writer(q)'
  BY DEF IInv, TypeOK, ReadMeta, Goto, Each, Writer, WriterAt, WriteStage
<1>7. ASSUME NEW q \in Proc PROVE Reader(q)'
  <2>1. CASE q = p
    <3>1. file[c].live /\ Shape(file[c]) /\ file[c].datasize \in Nat
      BY DEF IInv, TypeOK, Record, Shapes, ReadMeta
    <3>2. \A t \in Task : <<c, t>> \in acked => Within(file[c], file[c].datasize, t)
      BY DEF IInv, Acknowledged
    <3>3. QED
      BY <2>1, <3>1, <3>2 DEF IInv, TypeOK, ReadMeta, Goto, Reader, Shape
  <2>2. CASE q # p
    BY <1>1, <1>2, <2>2, KeptReader DEF IInv, TypeOK, ReadMeta, Goto
  <2>3. QED
    BY <2>1, <2>2
<1>8. ASSUME NEW q \in Proc PROVE Result(q)'
  <2>1. CASE q = p
    BY <2>1 DEF IInv, TypeOK, ReadMeta, Goto, Result
  <2>2. CASE q # p
    BY <1>1, <1>2, <2>2, KeptResult DEF IInv, TypeOK, ReadMeta, Goto
  <2>3. QED
    BY <2>1, <2>2
<1>9. QED
  BY <1>1, <1>3, <1>4, <1>5, <1>6, <1>7, <1>8 DEF IInv, Each

(* The identifiers follow, if the end magic is where datasize put it.     *)
LEMMA ReadBodyKeeps ==
    ASSUME IInv, NEW p \in Proc, ReadBody(p)
    PROVE  IInv'
<1>1. TypeOK'
  <2>1. file[wcap[p]].ids \in Seq(Task) /\ wn[p] \in Nat /\ Reader(p)
    BY DEF IInv, TypeOK, Record, Each
  <2>2. wn[p] <= Len(file[wcap[p]].ids)
    <3>1. /\ file[wcap[p]].live /\ wn[p] <= file[wcap[p]].datasize
          /\ file[wcap[p]].datasize \in Nat
      BY <2>1 DEF IInv, TypeOK, Record, Reader, ReadBody
    <3>2. Shape(file[wcap[p]])
      BY <3>1 DEF IInv, TypeOK, Shapes
    <3>3. QED
      BY <2>1, <3>1, <3>2 DEF Shape
  <2>3. SubSeq(file[wcap[p]].ids, 1, wn[p]) \in Seq(Task)
    BY <2>1, <2>2
  <2>4. QED
    BY <2>3 DEF IInv, TypeOK, ReadBody, Goto, Stage
<1>2. Kept
  BY DEF IInv, TypeOK, ReadBody, Goto, Record, Kept
<1>3. LockHeld'
  BY CapsuleFileAssumption DEF IInv, TypeOK, ReadBody, Goto, LockHeld, WriteStage
<1>4. Shapes'
  BY DEF IInv, TypeOK, ReadBody, Goto, Shapes
<1>5. Acknowledged'
  BY <1>1, <1>2, KeptAcknowledged DEF ReadBody, Goto
<1>6. ASSUME NEW q \in Proc PROVE Writer(q)'
  BY DEF IInv, TypeOK, ReadBody, Goto, Each, Writer, WriterAt, WriteStage
<1>7. ASSUME NEW q \in Proc PROVE Reader(q)'
  <2>1. CASE q = p
    BY <1>1, <2>1 DEF IInv, TypeOK, ReadBody, Goto, Reader
  <2>2. CASE q # p
    BY <1>1, <1>2, <2>2, KeptReader DEF IInv, TypeOK, ReadBody, Goto
  <2>3. QED
    BY <2>1, <2>2
<1>8. ASSUME NEW q \in Proc PROVE Result(q)'
  <2>1. CASE q = p
    <3> DEFINE f == file[wcap[p]]
    <3>1. f.ids \in Seq(Task) /\ wn[p] \in Nat /\ f.datasize \in Nat
      BY DEF IInv, TypeOK, Record
    <3>2. /\ f.live /\ wn[p] >= 1 /\ wn[p] <= f.datasize
          /\ \A t \in Task : <<wcap[p], t>> \in before[p] => Within(f, wn[p], t)
      BY DEF IInv, Each, Reader, ReadBody
    <3>3. wn[p] <= Len(f.ids)
      <4>1. Shape(f)
        BY <3>2 DEF IInv, TypeOK, Shapes
      <4>2. QED
        BY <3>1, <3>2, <4>1 DEF Shape
    <3>4. /\ Len(SubSeq(f.ids, 1, wn[p])) = wn[p]
          /\ \A k \in 1..wn[p] : SubSeq(f.ids, 1, wn[p])[k] = f.ids[k]
      BY <3>1, <3>3
    <3>5. out'[p] \in {SubSeq(f.ids, 1, wn[p]), <<>>}
      BY DEF IInv, TypeOK, ReadBody
    <3>6. file' = file /\ wcap' = wcap /\ before' = before
      BY DEF ReadBody
    <3>7. QED
      BY <2>1, <3>2, <3>4, <3>5, <3>6 DEF Result
  <2>2. CASE q # p
    BY <1>1, <1>2, <2>2, KeptResult DEF IInv, TypeOK, ReadBody, Goto
  <2>3. QED
    BY <2>1, <2>2
<1>9. QED
  BY <1>1, <1>3, <1>4, <1>5, <1>6, <1>7, <1>8 DEF IInv, Each

-----------------------------------------------------------------------------
(* The theorems *)

(* The invariant holds initially and every step of any process keeps it.   *)
LEMMA InvInit == Init => IInv
<1> SUFFICES ASSUME Init PROVE IInv
  OBVIOUS
<1> USE CapsuleFileAssumption DEF Init
<1>1. Absent \in Record /\ ~Absent.live
  BY DEF Absent, Record
<1>2. TypeOK
  <2>1. (CHOOSE c \in Cap : TRUE) \in Cap /\ (CHOOSE t \in Task : TRUE) \in Task
    OBVIOUS
  <2>2. QED
    BY <1>1, <2>1 DEF TypeOK, Stage
<1>3. LockHeld /\ Shapes /\ Acknowledged /\ Each
  BY <1>1 DEF LockHeld, WriteStage, Shapes, Acknowledged, Each, Writer, Reader, Result
<1>4. QED
  BY <1>2, <1>3 DEF IInv

(* Each step falls under the lemma of its action.                         *)
LEMMA InvStep == IInv /\ [Next]_fileVars => IInv'
<1> SUFFICES ASSUME IInv, [Next]_fileVars PROVE IInv'
  OBVIOUS
<1>1. CASE UNCHANGED fileVars
  BY <1>1 DEF fileVars, IInv, TypeOK, LockHeld, Shapes, Acknowledged, Each, Writer,
              WriterAt, Reader, Result
<1>2. ASSUME NEW p \in Proc, NEW c \in Cap, ReadMeta(p, c) PROVE IInv'
  BY <1>2, ReadMetaKeeps
<1>3. ASSUME NEW p \in Proc, NEW c \in Cap, NEW t \in Task,
             Create(p, c, t) \/ AppendOpen(p, c, t)
      PROVE  IInv'
  BY <1>3, CreateKeeps, AppendOpenKeeps
<1>4. ASSUME NEW p \in Proc, Work(p) PROVE IInv'
  BY <1>4, AppendLockKeeps, AppendRefuseKeeps, AppendIdKeeps, AppendMagicKeeps,
     AppendDatasizeKeeps, AppendHdrsizeKeeps, AppendDim0Keeps, ReadBodyKeeps DEF Work
<1>5. ASSUME NEW p \in Proc, AppendIOError(p) \/ Crash(p) PROVE IInv'
  BY <1>5, AppendIOErrorKeeps, CrashKeeps
<1>6. QED
  BY <1>1, <1>2, <1>3, <1>4, <1>5 DEF Next

(* In every state of every behaviour the lock is held by one appender, the *)
(* sizes in the file agree up to the write in progress, and what readers   *)
(* and acknowledged appenders know is in the file.                         *)
THEOREM InvHolds == Spec => []IInv
<1>1. QED
  BY InvInit, InvStep, PTL DEF Spec

(* The capsule and its users stay within their types.                      *)
THEOREM TypeCorrect == Spec => []TypeOK
<1>1. IInv => TypeOK
  BY DEF IInv
<1>2. QED
  BY <1>1, InvHolds, PTL

(* An identifier whose tpb_raf_record_append_task_capsule succeeded stays  *)
(* within the data section, whatever appends and deaths follow.            *)
THEOREM AckedNeverLost == Spec => []AckedStay
<1>1. IInv => AckedStay
  BY DEF IInv, Acknowledged, AckedStay, Within, Members
<1>2. QED
  BY <1>1, InvHolds, PTL

(* tpb_raf_record_read_task, which takes no lock, returns a beginning of   *)
(* the list with all that was acknowledged before the read.                *)
THEOREM ReadsAreWhole == Spec => []ReadWhole
<1>1. ASSUME IInv, NEW p \in Proc, out[p] # <<>>
      PROVE  /\ out[p] = SubSeq(file[wcap[p]].ids, 1, Len(out[p]))
             /\ \A x \in before[p] : x[1] = wcap[p] =>
                    \E k \in DOMAIN out[p] : out[p][k] = x[2]
  <2> DEFINE f == file[wcap[p]]
  <2>1. /\ f.live /\ Len(out[p]) <= f.datasize
        /\ \A k \in 1..Len(out[p]) : out[p][k] = f.ids[k]
        /\ \A t \in Task : <<wcap[p], t>> \in before[p] => Within(f, Len(out[p]), t)
    BY <1>1 DEF IInv, Each, Result
  <2>2. /\ f.ids \in Seq(Task) /\ f.datasize \in Nat /\ out[p] \in Seq(Task)
        /\ before[p] \subseteq Cap \X Task /\ wcap[p] \in Cap
    BY <1>1 DEF IInv, TypeOK, Record
  <2>3. Len(out[p]) <= Len(f.ids)
    <3>1. Shape(f)
      BY <1>1, <2>1, <2>2 DEF IInv, Shapes
    <3>2. QED
      BY <2>1, <2>2, <3>1 DEF Shape
  <2>4. out[p] = SubSeq(f.ids, 1, Len(out[p]))
    <3>1. /\ SubSeq(f.ids, 1, Len(out[p])) \in Seq(Task)
          /\ Len(SubSeq(f.ids, 1, Len(out[p]))) = Len(out[p])
          /\ \A k \in 1..Len(out[p]) : SubSeq(f.ids, 1, Len(out[p]))[k] = f.ids[k]
      BY <2>2, <2>3
    <3>2. QED
      BY <2>1, <2>2, <3>1
  <2>5. ASSUME NEW x \in before[p], x[1] = wcap[p]
        PROVE  \E k \in DOMAIN out[p] : out[p][k] = x[2]
    <3>1. x = <<wcap[p], x[2]>> /\ x[2] \in Task
      BY <2>2, <2>5
    <3>2. PICK k \in 1..Len(out[p]) : f.ids[k] = x[2]
      BY <2>1, <3>1 DEF Within
    <3>3. QED
      BY <2>1, <2>2, <3>2
  <2>6. QED
    BY <2>4, <2>5
<1>2. IInv => ReadWhole
  BY <1>1 DEF ReadWhole
<1>3. QED
  BY <1>2, InvHolds, PTL

(* When an append returns TPBE_SUCCESS, end magic, datasize, data_size and *)
(* dimsizes[0] all agree with the number of identifiers.                   *)
THEOREM AckedIsWhole == Spec => AckedWhole
<1> DEFINE Acks(p) == wpc[p] = "dim0" /\ wpc'[p] = "idle" /\ aborts' = aborts
           Whole(f) == /\ f.end = Len(f.ids) /\ f.datasize = Len(f.ids)
                       /\ f.hdrsize = Len(f.ids) /\ f.dim0 = Len(f.ids)
<1>1. ASSUME IInv, [Next]_fileVars, NEW p \in Proc, Acks(p)
      PROVE  Whole(file'[wcap[p]])
  <2>1. AppendDim0(p)
    <3>1. wpc \in [Proc -> Stage] /\ aborts \in Nat
      BY <1>1 DEF IInv, TypeOK
    <3>2. wpc' # wpc
      BY <1>1
    <3>3. PICK q \in Proc :
             \/ \E c \in Cap : \/ ReadMeta(q, c)
                               \/ \E t \in Task : Create(q, c, t) \/ AppendOpen(q, c, t)
             \/ Work(q) \/ AppendIOError(q) \/ Crash(q)
      BY <1>1, <3>2 DEF Next, fileVars
    <3>4. q = p
      BY <1>1, <3>1, <3>3 DEF ReadMeta, Create, AppendOpen, Work, AppendIOError, Crash,
         AppendLock, AppendRefuse, AppendId, AppendMagic, AppendDatasize, AppendHdrsize,
         AppendDim0, ReadBody, Goto
    <3>5. QED
      BY <1>1, <3>1, <3>3, <3>4 DEF ReadMeta, Create, AppendOpen, Work, AppendIOError,
         Crash, AppendLock, AppendRefuse, AppendId, AppendMagic, AppendDatasize,
         AppendHdrsize, ReadBody, Goto
  <2>2. LET f == file[wcap[p]] IN
        wn[p] = Len(f.ids) /\ f.datasize = wn[p] /\ f.end = wn[p] /\ f.hdrsize = wn[p]
    BY <1>1 DEF IInv, Each, Writer, WriterAt, WriteStage
  <2>3. file[wcap[p]] \in Record /\ wcap[p] \in Cap
    BY <1>1 DEF IInv, TypeOK
  <2>4. file'[wcap[p]] = [file[wcap[p]] EXCEPT !.dim0 = wn[p]]
    BY <1>1, <2>1, <2>3 DEF IInv, TypeOK, AppendDim0
  <2>5. QED
    BY <2>2, <2>3, <2>4 DEF Record
<1>2. ASSUME IInv, [Next]_fileVars
      PROVE  [\A p \in Proc : Acks(p) => Whole(file'[wcap[p]])]_fileVars
  BY <1>1, <1>2
<1>3. QED
  BY <1>2, InvHolds, PTL DEF Spec, AckedWhole

-----------------------------------------------------------------------------
(* The hand-over                                                             *)

(* The leaders and followers are processes, and their tasks are tasks.     *)
LEMMA UnitsAreProcs ==
    ASSUME NEW j \in Job
    PROVE  /\ Leader(j) \in Proc /\ Leader(j) \in Task /\ j \in Cap
           /\ Units(j) \subseteq Proc /\ Followers(j) \subseteq Proc
<1>1. 0 \in 0..NUnit - 1
  BY CapsuleJobAssumption
<1>2. Leader(j) \in Units(j)
  BY <1>1 DEF Leader, Units
<1>3. Units(j) \subseteq Proc
  BY CapsuleJobAssumption
<1>4. QED
  BY <1>2, <1>3, CapsuleJobAssumption DEF Followers

(* Every step of a run leaves the record alone or is one of its operations.*)
LEMMA JobStep == [JobNext]_allVars => [Next]_fileVars
<1> SUFFICES ASSUME [JobNext]_allVars PROVE [Next]_fileVars
  OBVIOUS
<1>1. CASE UNCHANGED allVars
  BY <1>1 DEF allVars, fileVars
<1>2. ASSUME NEW j \in Job, Start(j) \/ LeaderFail(j) PROVE UNCHANGED fileVars
  BY <1>2 DEF Start, LeaderFail, fileVars
<1>3. ASSUME NEW j \in Job, LeaderStep(j) PROVE [Next]_fileVars
  <2>1. CASE LeaderCreate(j)
    BY <2>1, UnitsAreProcs DEF LeaderCreate, Next
  <2>2. CASE ~LeaderCreate(j)
    BY <1>3, <2>2 DEF LeaderStep, LeaderUnlink, LeaderOpen, LeaderTruncate, LeaderZero,
       LeaderId, LeaderFlag, LeaderFinish, fileVars
  <2>3. QED
    BY <2>1, <2>2
<1>4. ASSUME NEW j \in Job, NEW p \in Followers(j), FollowerStep(p)
      PROVE  [Next]_fileVars
  <2>1. p \in Proc /\ p \in Task
    BY UnitsAreProcs, CapsuleJobAssumption
  <2>2. CASE FollowerAppend(p)
    BY <2>1, <2>2 DEF FollowerAppend, Next
  <2>3. CASE ~FollowerAppend(p)
    BY <1>4, <2>3 DEF FollowerStep, SyncOpen, SyncBus, SyncReady, FollowerAppendFails,
       FollowerDone, fileVars
  <2>4. QED
    BY <2>2, <2>3
<1>5. ASSUME NEW j \in Job, NEW p \in Units(j), Killed(p) PROVE Next
  BY <1>5, UnitsAreProcs DEF Killed, Next
<1>6. ASSUME NEW p \in Proc, Work(p) \/ AppendIOError(p) PROVE Next
  BY <1>6 DEF Next
<1>7. QED
  BY <1>1, <1>2, <1>3, <1>4, <1>5, <1>6 DEF JobNext

(* The calls of tpb-autorecord.c touch a capsule only through the          *)
(* operations of the record.                                               *)
THEOREM JobImplementsCapsule == JobSpec => ImplementsCapsuleFile
<1>1. JobInit => Init
  BY DEF JobInit
<1>2. QED
  BY <1>1, JobStep, PTL DEF JobSpec, ImplementsCapsuleFile, Spec

(* In every run, then, no acknowledged process is lost from a capsule.     *)
THEOREM JobKeepsAcked == JobSpec => []AckedStay
<1>1. ImplementsCapsuleFile <=> Spec
  BY DEF ImplementsCapsuleFile
<1>2. QED
  BY <1>1, JobImplementsCapsule, AckedNeverLost, PTL
-----------------------------------------------------------------------------
(* The inductive invariant of the hand-over, beside the record's own *)

(* Between shm_open() of the leader and its tpb_k_unlink_capsule_sync_shm. *)
Holding == {"truncate", "zero", "id", "flag", "wait"}
LeaderStage == {"unlink", "open"} \cup Holding
FollowerStage == {"poll", "append", "appending"}
JobStage == {"new", "start"} \cup LeaderStage \cup FollowerStage \cup Ended

Object == [sized : BOOLEAN, flag : {0, 1}, id : Nat]

JobTypes ==
    /\ shm \in Seq(Object) /\ name \in 0..Len(shm)
    /\ jpc \in [Proc -> JobStage]
    /\ fd \in [Proc -> 0..Len(shm)] /\ got \in [Proc -> Nat]
    /\ disturbed \in BOOLEAN
    /\ \A p \in Proc : jpc[p] \in Holding \cup {"poll"} => fd[p] # 0

Idle == Ended \cup {"new"}
Active(j) == \E p \in Units(j) : jpc[p] \notin Idle

(* Undisturbed runs follow each other. *)
Sequential == \A i, j \in Job : Active(i) /\ Active(j) => i = j

(* The name stands for an object exactly while a leader holds it, and the  *)
(* object says no more than that leader has written.                       *)
NameHeld ==
    /\ name # 0 => \E j \in Job : jpc[Leader(j)] \in Holding
    /\ \A j \in Job :
           /\ jpc[Leader(j)] = "open" => name = 0
           /\ jpc[Leader(j)] \in Holding =>
                  /\ name # 0 /\ fd[Leader(j)] = name
                  /\ shm[name].flag = 1 => shm[name].id = j /\ jpc[Leader(j)] = "wait"
                  /\ jpc[Leader(j)] \in {"flag", "wait"} => shm[name].id = j

(* A process that polls does so in the object of its own leader, who waits *)
(* for it.                                                                 *)
Follower(j, p) ==
    /\ jpc[p] \notin LeaderStage
    /\ jpc[p] = "poll" => jpc[Leader(j)] \in Holding /\ fd[p] = name
    /\ got[p] \in {0, j}
    /\ jpc[Leader(j)] = "done" => jpc[p] \in Ended
    /\ jpc[Leader(j)] \in {"start", "unlink", "open"} => jpc[p] = "start"
    /\ jpc[Leader(j)] = "new" <=> jpc[p] = "new"

HandOver ==
    Undisturbed =>
        /\ Sequential /\ NameHeld
        /\ \A j \in Job : jpc[Leader(j)] \notin FollowerStage
        /\ \A j \in Job : \A p \in Followers(j) : Follower(j, p)

(* Nobody is inside the writes of an append to capsule c. *)
Quiet(c) == \A p \in Proc : wpc[p] \in WriteStage \ {"check"} => wcap[p] # c

(* A process whose identifier has been written into its capsule. *)
Entered(p) ==
    jpc[p] = "done" \/ (jpc[p] = "appending" /\ wpc[p] \notin {"lock", "check"})

(* The list of capsule j: the leader, and those that have appended.        *)
Listed(j) ==
    LET f == file[j] IN
    /\ f.live <=> jpc[Leader(j)] \notin {"new", "start"}
    /\ f.live =>
           /\ Len(f.ids) >= 1 /\ f.ids[1] = Leader(j)
           /\ \A k, l \in 1..Len(f.ids) : f.ids[k] = f.ids[l] => k = l
           /\ \A p \in Proc : (\E k \in 1..Len(f.ids) : f.ids[k] = p) <=>
                                p = Leader(j) \/ (p \in Followers(j) /\ Entered(p))
           /\ Quiet(j) => Len(f.ids) = f.datasize /\ f.end = f.datasize

(* A process is in an append exactly as long as its run says so, and it    *)
(* appends itself to the capsule of its run.                               *)
Appender(j, p) ==
    /\ wpc[p] \in {"idle", "lock"} \cup WriteStage
    /\ wpc[p] # "idle" => /\ p \in Followers(j) /\ jpc[p] = "appending"
                          /\ wcap[p] = j /\ wtask[p] = p

Collected ==
    Undisturbed =>
        /\ \A j \in Job : Listed(j)
        /\ \A j \in Job : \A p \in Units(j) : Appender(j, p)

-----------------------------------------------------------------------------
(* The processes of a run *)

(* Runs share no process, and a run is its leader and its followers.       *)
LEMMA UnitFacts ==
    /\ \A p \in Proc : \E j \in Job : p \in Units(j)
    /\ \A i, j \in Job : \A p \in Units(i) : p \in Units(j) => i = j
    /\ \A j \in Job : Leader(j) \in Units(j) /\ Leader(j) \notin Followers(j)
    /\ \A j \in Job : Followers(j) \subseteq Units(j) /\ Units(j) \subseteq Proc
    /\ \A j \in Job : \A p \in Units(j) : p = Leader(j) \/ p \in Followers(j)
<1>1. \A p \in Proc : \E j \in Job : p \in Units(j)
  BY CapsuleJobAssumption
<1>2. \A i, j \in Job : \A p \in Units(i) : p \in Units(j) => i = j
  BY DEF Units
<1>3. \A j \in Job : Leader(j) \in Units(j)
  BY CapsuleJobAssumption DEF Units, Leader
<1>4. \A j \in Job : Units(j) \subseteq Proc
  BY CapsuleJobAssumption
<1>5. QED
  BY <1>1, <1>2, <1>3, <1>4 DEF Followers

LEMMA LeaderFacts ==
    /\ \A j \in Job : Leader(j) \in Proc
    /\ \A i, j \in Job : Leader(i) = Leader(j) => i = j
    /\ \A i, j \in Job : Leader(i) \notin Followers(j)
    /\ \A i, j \in Job : \A p \in Followers(i) : p \in Proc /\ (p \in Followers(j) => i = j)
  BY UnitFacts

(* A disturbance is never forgotten. *)
LEMMA DisturbedStays ==
    ASSUME IInv, JobTypes, [JobNext]_allVars, Undisturbed'
    PROVE  Undisturbed
<1>1. aborts \in Nat
  BY DEF IInv, TypeOK
<1>2. aborts' = aborts \/ aborts' = aborts + 1
  <2>1. [Next]_fileVars
    BY JobStep
  <2>2. ASSUME NEW p, Work(p) PROVE aborts' = aborts
    BY <2>2 DEF Work, AppendLock, AppendRefuse, AppendId, AppendMagic, AppendDatasize,
       AppendHdrsize, AppendDim0, ReadBody
  <2>3. ASSUME NEW p, AppendIOError(p) \/ Crash(p) PROVE aborts' = aborts + 1
    BY <2>3 DEF AppendIOError, Crash
  <2>4. ASSUME NEW p, NEW c, NEW t, Create(p, c, t) \/ AppendOpen(p, c, t) \/ ReadMeta(p, c)
        PROVE  aborts' = aborts
    BY <2>4 DEF Create, AppendOpen, ReadMeta
  <2>5. CASE UNCHANGED fileVars
    BY <2>5 DEF fileVars
  <2>6. QED
    BY <2>1, <2>2, <2>3, <2>4, <2>5 DEF Next
<1>3. disturbed => disturbed'
  BY DEF JobTypes, JobNext, allVars, jobVars, Start, LeaderStep, LeaderFail, FollowerStep, Killed,
     LeaderCreate, LeaderUnlink, LeaderOpen, LeaderTruncate, LeaderZero,
     LeaderId, LeaderFlag, LeaderFinish, SyncOpen, SyncBus, SyncReady, FollowerAppend,
     FollowerAppendFails, FollowerDone
<1>4. QED
  BY <1>1, <1>2, <1>3 DEF Undisturbed

(* One process of run j moves: the other runs, all idle, stay as they are. *)
LEMMA UnitMoves ==
    ASSUME JobTypes, Sequential, NEW j \in Job, NEW p \in Units(j), jpc[p] \notin Idle,
           NEW s, jpc' = [jpc EXCEPT ![p] = s]
    PROVE  /\ Sequential' /\ jpc'[p] = s
           /\ \A q \in Proc : q # p => jpc'[q] = jpc[q]
           /\ \A i \in Job : \A q \in Units(i) : i # j => jpc[q] \in Idle /\ jpc'[q] = jpc[q]
<1>1. jpc'[p] = s /\ \A q \in Proc : q # p => jpc'[q] = jpc[q]
  BY UnitFacts DEF JobTypes
<1>2. \A i \in Job : \A q \in Units(i) : i # j => jpc[q] \in Idle /\ jpc'[q] = jpc[q]
  <2> SUFFICES ASSUME NEW i \in Job, NEW q \in Units(i), i # j
               PROVE  jpc[q] \in Idle /\ jpc'[q] = jpc[q]
    OBVIOUS
  <2>1. q # p /\ q \in Proc
    BY UnitFacts
  <2>2. jpc[q] \in Idle
    BY DEF Sequential, Active
  <2>3. QED
    BY <1>1, <2>1, <2>2
<1>3. \A i \in Job : Active(i)' => i = j
  BY <1>2 DEF Active
<1>4. QED
  BY <1>1, <1>2, <1>3 DEF Sequential

-----------------------------------------------------------------------------
(* The steps of the hand-over *)

LEMMA JobTypesInit == JobInit => JobTypes
<1> SUFFICES ASSUME JobInit PROVE JobTypes
  OBVIOUS
<1>1. shm \in Seq(Object) /\ Len(shm) = 0
  BY DEF JobInit
<1>2. name \in 0..Len(shm) /\ fd \in [Proc -> 0..Len(shm)] /\ got \in [Proc -> Nat]
  BY <1>1 DEF JobInit
<1>3. jpc \in [Proc -> JobStage] /\ disturbed \in BOOLEAN
  BY DEF JobInit, JobStage
<1>4. \A p \in Proc : jpc[p] \notin Holding \cup {"poll"}
  BY DEF JobInit, Holding
<1>5. QED
  BY <1>1, <1>2, <1>3, <1>4 DEF JobTypes

(* A leader writes into the object it has open. *)
LEMMA StoreTypes ==
    ASSUME JobTypes, NEW j \in Job, jpc[Leader(j)] \in Holding, NEW o \in Object, Store(j, o)
    PROVE  /\ shm' \in Seq(Object) /\ Len(shm') = Len(shm)
           /\ shm'[fd[Leader(j)]] = o
           /\ \A k \in 1..Len(shm) : k # fd[Leader(j)] => shm'[k] = shm[k]
<1>1. fd[Leader(j)] \in 1..Len(shm)
  BY LeaderFacts DEF JobTypes
<1>2. QED
  BY <1>1 DEF JobTypes, Store

LEMMA MappedType ==
    ASSUME JobTypes, NEW j \in Job, jpc[Leader(j)] \in Holding
    PROVE  Mapped(j) \in Object
<1>1. fd[Leader(j)] \in 1..Len(shm)
  BY LeaderFacts DEF JobTypes
<1>2. QED
  BY <1>1 DEF JobTypes, Mapped

(* Every step keeps the types of the hand-over. *)
LEMMA JobTypesStep ==
    ASSUME JobTypes, [JobNext]_allVars
    PROVE  JobTypes'
<1> USE LeaderFacts, UnitFacts DEF JobStage, LeaderStage, FollowerStage, Holding, Ended
<1>1. ASSUME NEW j \in Job, Start(j) PROVE JobTypes'
  BY <1>1 DEF Start, JobTypes
<1>2. ASSUME NEW j \in Job, LeaderCreate(j) PROVE JobTypes'
  BY <1>2 DEF LeaderCreate, At, JobTypes
<1>3. ASSUME NEW j \in Job, LeaderUnlink(j) PROVE JobTypes'
  BY <1>3 DEF LeaderUnlink, At, JobTypes
<1>4. ASSUME NEW j \in Job, LeaderOpen(j) PROVE JobTypes'
  <2>1. jpc' = [jpc EXCEPT ![Leader(j)] = "truncate"] /\ UNCHANGED <<got, disturbed>>
    BY <1>4 DEF LeaderOpen, At
  <2>2. shm' \in Seq(Object) /\ Len(shm') >= Len(shm) /\ name' \in 1..Len(shm')
    <3>1. CASE name = 0
      <4>1. shm' = Append(shm, [sized |-> FALSE, flag |-> 0, id |-> 0]) /\ name' = Len(shm) + 1
        BY <1>4, <3>1 DEF LeaderOpen
      <4>2. [sized |-> FALSE, flag |-> 0, id |-> 0] \in Object
        BY DEF Object
      <4>3. QED
        BY <4>1, <4>2 DEF JobTypes
    <3>2. CASE name # 0
      BY <1>4, <3>2 DEF LeaderOpen, JobTypes
    <3>3. QED
      BY <3>1, <3>2
  <2>3. Len(shm) \in Nat /\ Len(shm') \in Nat
    BY <2>2 DEF JobTypes
  <2>4. fd' = [fd EXCEPT ![Leader(j)] = name'] /\ fd \in [Proc -> 0..Len(shm)]
    BY <1>4 DEF LeaderOpen, JobTypes
  <2>5. fd' \in [Proc -> 0..Len(shm')]
    BY <2>2, <2>3, <2>4
  <2>6. jpc' \in [Proc -> JobStage]
    BY <2>1 DEF JobTypes
  <2>7. ASSUME NEW p \in Proc, jpc'[p] \in Holding \cup {"poll"} PROVE fd'[p] # 0
    BY <2>1, <2>2, <2>4, <2>7 DEF JobTypes
  <2>8. QED
    BY <2>1, <2>2, <2>3, <2>5, <2>6, <2>7 DEF JobTypes
<1>5. ASSUME NEW j \in Job, LeaderTruncate(j) \/ LeaderZero(j) \/ LeaderId(j) \/ LeaderFlag(j)
      PROVE  JobTypes'
  <2>1. Mapped(j) \in Object /\ j \in Nat /\ jpc[Leader(j)] \in Holding
    BY <1>5, MappedType DEF LeaderTruncate, LeaderZero, LeaderId, LeaderFlag, At, Job
  <2>2. \E o \in Object : Store(j, o)
    <3>1. /\ [Mapped(j) EXCEPT !.sized = TRUE] \in Object
          /\ [Mapped(j) EXCEPT !.flag = 0, !.id = 0] \in Object
          /\ [Mapped(j) EXCEPT !.id = j] \in Object
          /\ [Mapped(j) EXCEPT !.flag = 1] \in Object
      BY <2>1 DEF Object
    <3>2. QED
      BY <1>5, <3>1 DEF LeaderTruncate, LeaderZero, LeaderId, LeaderFlag
  <2>3. shm' \in Seq(Object) /\ Len(shm') = Len(shm)
    BY <2>1, <2>2, StoreTypes
  <2>4. \E s \in Holding : jpc' = [jpc EXCEPT ![Leader(j)] = s]
    BY <1>5 DEF LeaderTruncate, LeaderZero, LeaderId, LeaderFlag, At
  <2>5. UNCHANGED <<name, fd, got, disturbed>>
    BY <1>5 DEF LeaderTruncate, LeaderZero, LeaderId, LeaderFlag
  <2>6. QED
    BY <2>1, <2>3, <2>4, <2>5 DEF JobTypes
<1>6. ASSUME NEW j \in Job, LeaderFinish(j) \/ LeaderFail(j) PROVE JobTypes'
  <2>1. name' \in 0..Len(shm) /\ disturbed' \in BOOLEAN
    <3>1. Len(shm) \in Nat /\ name \in 0..Len(shm) /\ disturbed \in BOOLEAN
      BY DEF JobTypes
    <3>2. name' \in {0, name}
      BY <1>6 DEF LeaderFinish, LeaderFail
    <3>3. disturbed' \in BOOLEAN
      BY <1>6, <3>1 DEF LeaderFinish, LeaderFail
    <3>4. QED
      BY <3>1, <3>2, <3>3
  <2>2. \E s \in Ended : jpc' = [jpc EXCEPT ![Leader(j)] = s]
    BY <1>6 DEF LeaderFinish, LeaderFail, At
  <2>3. UNCHANGED <<shm, fd, got>>
    BY <1>6 DEF LeaderFinish, LeaderFail
  <2>4. QED
    BY <2>1, <2>2, <2>3 DEF JobTypes
<1>7. ASSUME NEW j \in Job, NEW p \in Followers(j), SyncOpen(p) \/ SyncBus(p) PROVE JobTypes'
  <2>1. UNCHANGED <<shm, name, got, disturbed>>
    BY <1>7 DEF SyncOpen, SyncBus
  <2>2. CASE SyncOpen(p)
    BY <2>1, <2>2 DEF SyncOpen, At, JobTypes
  <2>3. CASE SyncBus(p)
    BY <2>1, <2>3 DEF SyncBus, At, JobTypes
  <2>4. QED
    BY <1>7, <2>2, <2>3
<1>8. ASSUME NEW j \in Job, NEW p \in Followers(j), SyncReady(p) PROVE JobTypes'
  <2>1. fd[p] \in 1..Len(shm)
    BY <1>8 DEF SyncReady, At, JobTypes
  <2>2. shm[fd[p]] \in Object
    BY <2>1 DEF JobTypes
  <2>3. shm[fd[p]].id \in Nat
    BY <2>2 DEF Object
  <2>4. QED
    BY <1>8, <2>3 DEF SyncReady, At, JobTypes
<1>9. ASSUME NEW j \in Job, NEW p \in Followers(j),
             FollowerAppend(p) \/ FollowerAppendFails(p) \/ FollowerDone(p)
      PROVE  JobTypes'
  <2>1. \E s \in {"appending", "failed", "done"} : jpc' = [jpc EXCEPT ![p] = s]
    BY <1>9 DEF FollowerAppend, FollowerAppendFails, FollowerDone, At
  <2>2. UNCHANGED <<shm, name, fd, got, disturbed>>
    BY <1>9 DEF FollowerAppend, FollowerAppendFails, FollowerDone
  <2>3. QED
    BY <2>1, <2>2 DEF JobTypes
<1>10. ASSUME NEW j \in Job, NEW p \in Units(j), Killed(p) PROVE JobTypes'
  BY <1>10 DEF Killed, JobTypes
<1>11. CASE UNCHANGED jobVars
  BY <1>11 DEF jobVars, JobTypes
<1>12. QED
  BY <1>1, <1>2, <1>3, <1>4, <1>5, <1>6, <1>7, <1>8, <1>9, <1>10, <1>11
     DEF JobNext, LeaderStep, FollowerStep, allVars, jobVars

(* Every step keeps the hand-over in order. *)
LEMMA HandOverStep ==
    ASSUME IInv, JobTypes, JobTypes', HandOver, [JobNext]_allVars
    PROVE  HandOver'
<1> SUFFICES ASSUME Undisturbed, Undisturbed'
             PROVE  /\ Sequential' /\ NameHeld'
                    /\ \A j \in Job : jpc'[Leader(j)] \notin FollowerStage
                    /\ \A j \in Job : \A p \in Followers(j) : Follower(j, p)'
  BY DisturbedStays DEF HandOver
<1> DEFINE Ordered == /\ Sequential' /\ NameHeld'
                    /\ \A j \in Job : jpc'[Leader(j)] \notin FollowerStage
                    /\ \A k \in Job : \A p \in Followers(k) : Follower(k, p)'
<1>0. /\ Sequential /\ NameHeld
      /\ \A j \in Job : jpc[Leader(j)] \notin FollowerStage
      /\ \A j \in Job : \A p \in Followers(j) : Follower(j, p)
  BY DEF HandOver
<1> USE LeaderFacts, UnitFacts DEF LeaderStage, FollowerStage, Holding, Ended, Idle
<1>1. ASSUME NEW j \in Job, Start(j) PROVE Ordered
  <2>1. \A p \in Proc : jpc[p] \in Idle
    BY <1>1 DEF Start, Undisturbed
  <2>2. /\ \A p \in Units(j) : jpc[p] = "new" /\ jpc'[p] = "start"
        /\ \A i \in Job : \A p \in Units(i) : i # j => jpc'[p] = jpc[p]
    BY <1>1 DEF Start
  <2>3. \A i \in Job : Active(i)' => i = j
    BY <2>1, <2>2 DEF Active
  <2>4. Sequential'
    BY <2>3 DEF Sequential
  <2>5. UNCHANGED <<shm, name, fd, got>> /\ name = 0
    BY <1>0, <1>1, <2>1 DEF Start, NameHeld
  <2>6. NameHeld' /\ \A i \in Job : jpc'[Leader(i)] \notin FollowerStage
    BY <2>1, <2>2, <2>5 DEF NameHeld
  <2>7. ASSUME NEW i \in Job, NEW p \in Followers(i) PROVE Follower(i, p)'
    BY <1>0, <2>1, <2>2, <2>5 DEF Follower
  <2>8. QED
    BY <2>4, <2>6, <2>7
<1>2. ASSUME NEW j \in Job, LeaderStep(j) PROVE Ordered
  <2>1. PICK s : jpc' = [jpc EXCEPT ![Leader(j)] = s]
    BY <1>2 DEF LeaderStep, LeaderCreate, LeaderUnlink, LeaderOpen, LeaderTruncate,
       LeaderZero, LeaderId, LeaderFlag, LeaderFinish, At
  <2>2. jpc[Leader(j)] \notin Idle
    BY <1>2 DEF LeaderStep, LeaderCreate, LeaderUnlink, LeaderOpen, LeaderTruncate,
       LeaderZero, LeaderId, LeaderFlag, LeaderFinish, At
  <2>3. /\ Sequential' /\ jpc'[Leader(j)] = s
        /\ \A q \in Proc : q # Leader(j) => jpc'[q] = jpc[q]
        /\ \A i \in Job : \A q \in Units(i) : i # j => jpc[q] \in Idle /\ jpc'[q] = jpc[q]
    BY <1>0, <2>1, <2>2, UnitMoves
  <2>4. UNCHANGED got
    BY <1>2 DEF LeaderStep, LeaderCreate, LeaderUnlink, LeaderOpen, LeaderTruncate,
       LeaderZero, LeaderId, LeaderFlag, LeaderFinish
  <2>5. s \notin FollowerStage \cup {"new"}
    BY <1>2, <2>3 DEF JobTypes, LeaderStep, LeaderCreate, LeaderUnlink, LeaderOpen, LeaderTruncate,
       LeaderZero, LeaderId, LeaderFlag, LeaderFinish, At
  <2>6. \A i \in Job : jpc'[Leader(i)] \notin FollowerStage
    BY <1>0, <2>3, <2>5
  <2>7. NameHeld'
    <3>1. CASE LeaderCreate(j)
      BY <1>0, <2>3, <3>1 DEF LeaderCreate, At, NameHeld, JobTypes
    <3>2. CASE LeaderUnlink(j)
      BY <1>0, <2>3, <3>2 DEF LeaderUnlink, At, NameHeld, JobTypes
    <3>3. CASE LeaderOpen(j)
      <4>1. name = 0 /\ jpc'[Leader(j)] = "truncate"
        BY <1>0, <2>3, <3>3 DEF LeaderOpen, At, NameHeld, JobTypes
      <4>2. /\ shm' = Append(shm, [sized |-> FALSE, flag |-> 0, id |-> 0])
            /\ name' = Len(shm) + 1 /\ fd'[Leader(j)] = name'
        BY <3>3, <4>1 DEF LeaderOpen, JobTypes
      <4>3. name' # 0 /\ shm'[name'].flag = 0
        BY <4>2 DEF JobTypes
      <4>4. QED
        BY <2>3, <4>1, <4>2, <4>3 DEF NameHeld
    <3>4. CASE LeaderTruncate(j) \/ LeaderZero(j) \/ LeaderId(j) \/ LeaderFlag(j)
      <4>1. UNCHANGED <<name, fd>> /\ jpc[Leader(j)] \in Holding /\ s \in Holding
        BY <2>3, <3>4 DEF LeaderTruncate, LeaderZero, LeaderId, LeaderFlag, At, JobTypes
      <4>2. name = fd[Leader(j)] /\ name \in 1..Len(shm) /\ Mapped(j) = shm[name]
        BY <1>0, <4>1 DEF NameHeld, JobTypes, Mapped
      <4>3. Mapped(j) \in Object
        BY <4>1, MappedType
      <4>4. /\ s = "zero" => jpc[Leader(j)] = "truncate" /\ shm'[name].flag = shm[name].flag
            /\ s = "id" => shm'[name].flag = 0
            /\ s = "flag" => /\ jpc[Leader(j)] = "id" /\ shm'[name].id = j
                             /\ shm'[name].flag = shm[name].flag
            /\ s = "wait" => jpc[Leader(j)] = "flag" /\ shm'[name].id = shm[name].id
            /\ s # "truncate"
        <5>1. CASE LeaderTruncate(j)
          <6>1. [Mapped(j) EXCEPT !.sized = TRUE] \in Object
            BY <4>3 DEF Object
          <6>2. s = "zero" /\ shm'[name] = [Mapped(j) EXCEPT !.sized = TRUE]
            BY <2>3, <4>1, <4>2, <5>1, <6>1, StoreTypes DEF LeaderTruncate, At, JobTypes
          <6>3. QED
            BY <4>2, <4>3, <5>1, <6>2 DEF Object, LeaderTruncate, At
        <5>2. CASE LeaderZero(j)
          <6>1. [Mapped(j) EXCEPT !.flag = 0, !.id = 0] \in Object
            BY <4>3 DEF Object
          <6>2. s = "id" /\ shm'[name] = [Mapped(j) EXCEPT !.flag = 0, !.id = 0]
            BY <2>3, <4>1, <4>2, <5>2, <6>1, StoreTypes DEF LeaderZero, At, JobTypes
          <6>3. QED
            BY <4>2, <4>3, <6>2 DEF Object
        <5>3. CASE LeaderId(j)
          <6>1. [Mapped(j) EXCEPT !.id = j] \in Object
            BY <4>3 DEF Object, Job
          <6>2. s = "flag" /\ shm'[name] = [Mapped(j) EXCEPT !.id = j]
            BY <2>3, <4>1, <4>2, <5>3, <6>1, StoreTypes DEF LeaderId, At, JobTypes
          <6>3. QED
            BY <4>2, <4>3, <5>3, <6>2 DEF Object, LeaderId, At
        <5>4. CASE LeaderFlag(j)
          <6>1. [Mapped(j) EXCEPT !.flag = 1] \in Object
            BY <4>3 DEF Object
          <6>2. s = "wait" /\ shm'[name] = [Mapped(j) EXCEPT !.flag = 1]
            BY <2>3, <4>1, <4>2, <5>4, <6>1, StoreTypes DEF LeaderFlag, At, JobTypes
          <6>3. QED
            BY <4>2, <4>3, <5>4, <6>2 DEF Object, LeaderFlag, At
        <5>5. QED
          BY <3>4, <5>1, <5>2, <5>3, <5>4
      <4>5. QED
        BY <1>0, <2>3, <4>1, <4>2, <4>4 DEF NameHeld
    <3>5. CASE LeaderFinish(j)
      BY <2>3, <3>5 DEF LeaderFinish, At, NameHeld, JobTypes
    <3>6. QED
      BY <1>2, <3>1, <3>2, <3>3, <3>4, <3>5 DEF LeaderStep
  <2>8. ASSUME NEW i \in Job, NEW p \in Followers(i) PROVE Follower(i, p)'
    <3>1. jpc'[p] = jpc[p] /\ Follower(i, p)
      BY <1>0, <2>3
    <3>2. CASE i # j
      BY <2>3, <2>4, <3>1, <3>2 DEF Follower
    <3>3. CASE i = j
      <4>1. CASE LeaderCreate(j) \/ LeaderUnlink(j) \/ LeaderOpen(j)
        <5>1. jpc[Leader(j)] \in {"start", "unlink", "open"} /\ jpc[p] = "start"
          BY <3>1, <3>3, <4>1 DEF LeaderCreate, LeaderUnlink, LeaderOpen, At, Follower
        <5>2. s \in {"unlink", "open", "truncate"}
          BY <2>3, <4>1 DEF LeaderCreate, LeaderUnlink, LeaderOpen, At, JobTypes
        <5>3. QED
          BY <2>2, <2>3, <2>4, <3>1, <3>3, <5>1, <5>2 DEF Follower
      <4>2. CASE LeaderTruncate(j) \/ LeaderZero(j) \/ LeaderId(j) \/ LeaderFlag(j)
        <5>1. UNCHANGED <<name, fd>> /\ jpc[Leader(j)] \in Holding /\ s \in Holding
          BY <2>3, <4>2 DEF LeaderTruncate, LeaderZero, LeaderId, LeaderFlag, At, JobTypes
        <5>2. QED
          BY <2>2, <2>3, <2>4, <3>1, <3>3, <5>1 DEF Follower
      <4>3. CASE LeaderFinish(j)
        <5>1. jpc[p] \in Ended /\ s = "done"
          BY <2>3, <3>3, <4>3 DEF LeaderFinish, At, JobTypes
        <5>2. QED
          BY <2>2, <2>3, <2>4, <2>5, <3>1, <3>3, <5>1 DEF Follower
      <4>4. QED
        BY <1>2, <4>1, <4>2, <4>3 DEF LeaderStep
    <3>4. QED
      BY <3>2, <3>3
  <2>9. QED
    BY <2>3, <2>6, <2>7, <2>8
<1>3. ASSUME NEW j \in Job, LeaderFail(j) PROVE Ordered
  BY <1>3 DEF LeaderFail, Undisturbed
<1>4. ASSUME NEW j \in Job, NEW p \in Followers(j), FollowerStep(p) PROVE Ordered
  <2>1. PICK s : jpc' = [jpc EXCEPT ![p] = s]
    BY <1>4 DEF FollowerStep, SyncOpen, SyncBus, SyncReady, FollowerAppend,
       FollowerAppendFails, FollowerDone, At
  <2>2. jpc[p] \notin Idle /\ UNCHANGED <<shm, name>>
    BY <1>4 DEF FollowerStep, SyncOpen, SyncBus, SyncReady, FollowerAppend,
       FollowerAppendFails, FollowerDone, At
  <2>3. /\ Sequential' /\ jpc'[p] = s
        /\ \A q \in Proc : q # p => jpc'[q] = jpc[q]
        /\ \A i \in Job : \A q \in Units(i) : i # j => jpc[q] \in Idle /\ jpc'[q] = jpc[q]
    BY <1>0, <2>1, <2>2, UnitMoves
  <2>4. \A i \in Job : jpc'[Leader(i)] = jpc[Leader(i)]
    BY <2>3
  <2>5. \A q \in Proc : q # p => fd'[q] = fd[q] /\ got'[q] = got[q]
    <3>1. /\ fd' = fd \/ fd' = [fd EXCEPT ![p] = name]
          /\ got' = got \/ got' = [got EXCEPT ![p] = shm[fd[p]].id]
      BY <1>4 DEF FollowerStep, SyncOpen, SyncBus, SyncReady, FollowerAppend,
         FollowerAppendFails, FollowerDone
    <3>2. \A q \in Proc : q # p => fd'[q] = fd[q]
      BY <3>1 DEF JobTypes
    <3>3. \A q \in Proc : q # p => got'[q] = got[q]
      BY <3>1, SMTT(20) DEF JobTypes
    <3>4. QED
      BY <3>2, <3>3
  <2>6. NameHeld'
    BY <1>0, <2>2, <2>4, <2>5 DEF NameHeld
  <2>7. ASSUME NEW i \in Job, NEW q \in Followers(i), q # p PROVE Follower(i, q)'
    BY <1>0, <2>2, <2>3, <2>4, <2>5, <2>7 DEF Follower
  <2>8. Follower(j, p) /\ jpc[Leader(j)] # "done" /\ jpc[Leader(j)] # "new"
    BY <1>0, <2>2 DEF Follower
  <2>9. Follower(j, p)'
    <3>1. CASE SyncOpen(p)
      <4>1. PICK i \in Job : jpc[Leader(i)] \in Holding
        BY <1>0, <3>1 DEF SyncOpen, NameHeld
      <4>2. i = j
        BY <2>3, <4>1
      <4>3. s = "poll" /\ fd'[p] = name /\ UNCHANGED got
        BY <2>3, <3>1 DEF SyncOpen, At, JobTypes
      <4>4. QED
        BY <2>2, <2>3, <2>4, <2>8, <4>1, <4>2, <4>3 DEF Follower
    <3>2. CASE SyncReady(p)
      <4>1. jpc[Leader(j)] \in Holding /\ fd[p] = name
        BY <2>8, <3>2 DEF SyncReady, At, Follower
      <4>2. shm[name].flag = 1 /\ got'[p] = shm[name].id /\ s = "append"
        BY <2>3, <3>2, <4>1 DEF SyncReady, At, JobTypes
      <4>3. shm[name].id = j
        BY <1>0, <4>1, <4>2 DEF NameHeld
      <4>4. QED
        BY <2>2, <2>3, <2>4, <2>8, <4>1, <4>2, <4>3 DEF Follower
    <3>3. CASE SyncBus(p) \/ FollowerAppend(p) \/ FollowerAppendFails(p) \/ FollowerDone(p)
      <4>1. s \in {"bus", "appending", "failed", "done"} /\ UNCHANGED got
        BY <2>3, <3>3 DEF SyncBus, FollowerAppend, FollowerAppendFails, FollowerDone, At, JobTypes
      <4>2. jpc[p] # "start"
        BY <3>3 DEF SyncBus, FollowerAppend, FollowerAppendFails, FollowerDone, At
      <4>3. jpc[Leader(j)] \notin {"start", "unlink", "open"}
        BY <2>8, <4>2 DEF Follower
      <4>4. QED
        BY <2>2, <2>3, <2>4, <2>8, <4>1, <4>3 DEF Follower
    <3>4. QED
      BY <1>4, <3>1, <3>2, <3>3 DEF FollowerStep
  <2>10. QED
    BY <1>0, <2>3, <2>4, <2>6, <2>7, <2>9
<1>5. ASSUME NEW j \in Job, NEW p \in Units(j), Killed(p) PROVE Ordered
  BY <1>5 DEF Killed, Crash, Undisturbed
<1>6. CASE UNCHANGED jobVars
  BY <1>0, <1>6 DEF jobVars, Sequential, Active, NameHeld, Follower
<1>7. QED
  BY <1>1, <1>2, <1>3, <1>4, <1>5, <1>6 DEF JobNext, allVars, jobVars

-----------------------------------------------------------------------------
(* The steps of the collection *)

(* A step that neither writes capsule i nor lets one of its processes      *)
(* enter it.                                                               *)
LEMMA ListedSame ==
    ASSUME NEW i \in Job, Listed(i), file'[i] = file[i],
           jpc'[Leader(i)] \in {"new", "start"} <=> jpc[Leader(i)] \in {"new", "start"},
           \A q \in Followers(i) : Entered(q)' <=> Entered(q),
           Quiet(i)' => Quiet(i)
    PROVE  Listed(i)'
  BY DEF Listed

(* Only the process that appends to a capsule is inside its writes. *)
LEMMA Alone ==
    ASSUME IInv, NEW p \in Proc, NEW q \in Proc, wpc[p] \in WriteStage, wpc[q] \in WriteStage,
           wcap[p] = wcap[q]
    PROVE  p = q
<1>1. wcap[p] \in Cap
  BY DEF IInv, TypeOK
<1>2. lock[wcap[p]] = p /\ lock[wcap[p]] = q
  BY <1>1 DEF IInv, LockHeld
<1>3. QED
  BY <1>2

(* A process that appends is a follower of the run whose capsule it writes.*)
LEMMA AppenderFacts ==
    ASSUME \A i \in Job : \A q \in Units(i) : Appender(i, q), NEW p \in Proc, wpc[p] # "idle"
    PROVE  \E j \in Job : /\ p \in Followers(j) /\ wcap[p] = j /\ wtask[p] = p
                          /\ jpc[p] = "appending" /\ wpc[p] \in {"lock"} \cup WriteStage
  BY UnitFacts DEF Appender

(* The writes behind the identifier leave the list as it is. *)
LEMMA WriterKeepsList ==
    ASSUME IInv, IInv', NEW p \in Proc, wpc[p] \in {"magic", "datasize", "hdrsize", "dim0"},
           \/ AppendMagic(p) \/ AppendDatasize(p) \/ AppendHdrsize(p) \/ AppendDim0(p)
    PROVE  /\ file'[wcap[p]].ids = file[wcap[p]].ids /\ file'[wcap[p]].live = file[wcap[p]].live
           /\ \A c \in Cap : c # wcap[p] => file'[c] = file[c]
<1>1. file \in [Cap -> Record] /\ wcap[p] \in Cap
  BY DEF IInv, TypeOK
<1>2. CASE AppendMagic(p)
  BY <1>1, <1>2 DEF AppendMagic, Record
<1>3. CASE AppendDatasize(p)
  BY <1>1, <1>3 DEF AppendDatasize, Record
<1>4. CASE AppendHdrsize(p)
  BY <1>1, <1>4 DEF AppendHdrsize, Record
<1>5. CASE AppendDim0(p)
  BY <1>1, <1>5 DEF AppendDim0, Record
<1>6. QED
  BY <1>2, <1>3, <1>4, <1>5

(* Every step keeps the capsules of undisturbed runs in order. *)
LEMMA CollectedStep ==
    ASSUME IInv, IInv', JobTypes, JobTypes', HandOver, Collected, [JobNext]_allVars
    PROVE  Collected'
<1> SUFFICES ASSUME Undisturbed, Undisturbed'
             PROVE  /\ \A j \in Job : Listed(j)'
                    /\ \A j \in Job : \A p \in Units(j) : Appender(j, p)'
  BY DisturbedStays DEF Collected
<1> DEFINE Order == /\ \A j \in Job : Listed(j)'
                    /\ \A j \in Job : \A p \in Units(j) : Appender(j, p)'
<1>0. /\ \A j \in Job : Listed(j)
      /\ \A j \in Job : \A p \in Units(j) : Appender(j, p)
      /\ \A j \in Job : jpc[Leader(j)] \notin FollowerStage
      /\ \A j \in Job : \A p \in Followers(j) : Follower(j, p)
  BY DEF Collected, HandOver
<1> USE LeaderFacts, UnitFacts
<1>a. ASSUME UNCHANGED fileVars,
             \A j \in Job : jpc'[Leader(j)] \in {"new", "start"} <=>
                                jpc[Leader(j)] \in {"new", "start"},
             \A j \in Job : \A p \in Followers(j) :
                 /\ Entered(p)' <=> Entered(p)
                 /\ wpc[p] # "idle" => jpc'[p] = "appending"
      PROVE  Order
  <2>1. \A i \in Job : Quiet(i)' => Quiet(i)
    BY <1>a DEF Quiet, fileVars
  <2>2. \A i \in Job : Listed(i)'
    BY <1>0, <1>a, <2>1, ListedSame DEF fileVars
  <2>3. \A i \in Job : \A p \in Units(i) : Appender(i, p)'
    BY <1>0, <1>a DEF Appender, fileVars
  <2>4. QED
    BY <2>2, <2>3
<1>1. ASSUME NEW j \in Job, Start(j) PROVE Order
  <2>1. /\ \A p \in Units(j) : jpc[p] = "new" /\ jpc'[p] = "start"
        /\ \A i \in Job : \A p \in Units(i) : i # j => jpc'[p] = jpc[p]
        /\ UNCHANGED fileVars
    BY <1>1 DEF Start
  <2>2. \A p \in Proc : wpc[p] # "idle" => jpc'[p] = jpc[p]
    BY <1>0, <2>1 DEF Appender
  <2>3. \A i \in Job : jpc'[Leader(i)] \in {"new", "start"} <=> jpc[Leader(i)] \in {"new", "start"}
    BY <2>1
  <2>4. \A i \in Job : \A p \in Followers(i) :
            /\ Entered(p)' <=> Entered(p)
            /\ wpc[p] # "idle" => jpc'[p] = "appending"
    BY <1>0, <2>1, <2>2 DEF Entered, Appender, fileVars
  <2>5. QED
    BY <1>a, <2>1, <2>3, <2>4
<1>2. ASSUME NEW j \in Job, LeaderCreate(j) PROVE Order
  <2>1. /\ jpc[Leader(j)] = "start" /\ jpc'[Leader(j)] = "unlink"
        /\ \A q \in Proc : q # Leader(j) => jpc'[q] = jpc[q]
        /\ file' = [file EXCEPT ![j] = Fresh(Leader(j))]
        /\ UNCHANGED <<wpc, wcap, wtask>>
    BY <1>2 DEF LeaderCreate, At, Create, JobTypes
  <2>2. j \in Cap /\ \A i \in Job : i \in Cap
    BY CapsuleJobAssumption
  <2>3. file'[j] = Fresh(Leader(j)) /\ \A i \in Job : i # j => file'[i] = file[i]
    BY <2>1, <2>2 DEF IInv, TypeOK
  <2>4. \A i \in Job : Quiet(i)' => Quiet(i)
    BY <2>1 DEF Quiet
  <2>5. \A i \in Job : i # j => Listed(i)'
    <3>1. \A i \in Job : \A q \in Followers(i) : Entered(q)' <=> Entered(q)
      BY <2>1 DEF Entered
    <3>2. QED
      BY <1>0, <2>1, <2>3, <2>4, <3>1, ListedSame
  <2>6. Listed(j)'
    <3>1. \A q \in Followers(j) : jpc'[q] = "start"
      BY <1>0, <2>1 DEF Follower
    <3>2. \A q \in Followers(j) : ~Entered(q)'
      BY <3>1 DEF Entered
    <3>3. /\ file'[j].live /\ file'[j].ids = <<Leader(j)>>
          /\ file'[j].datasize = 1 /\ file'[j].end = 1
      BY <2>3 DEF Fresh
    <3>4. /\ Len(file'[j].ids) = 1 /\ file'[j].ids[1] = Leader(j)
          /\ \A k \in 1..Len(file'[j].ids) : k = 1
      BY <3>3
    <3>5. \A p \in Proc : (\E k \in 1..Len(file'[j].ids) : file'[j].ids[k] = p) <=> p = Leader(j)
      BY <3>4
    <3>6. QED
      BY <2>1, <3>2, <3>3, <3>4, <3>5 DEF Listed
  <2>7. \A i \in Job : \A p \in Units(i) : Appender(i, p)'
    BY <1>0, <2>1 DEF Appender
  <2>8. QED
    BY <2>5, <2>6, <2>7
<1>3. ASSUME NEW j \in Job, LeaderStep(j), ~LeaderCreate(j) PROVE Order
  <2>1. /\ UNCHANGED fileVars
        /\ jpc[Leader(j)] \notin {"new", "start"} /\ jpc'[Leader(j)] \notin {"new", "start"}
        /\ \A q \in Proc : q # Leader(j) => jpc'[q] = jpc[q]
    <3>1. UNCHANGED fileVars
      BY <1>3 DEF LeaderStep, LeaderUnlink, LeaderOpen, LeaderTruncate, LeaderZero, LeaderId,
         LeaderFlag, LeaderFinish
    <3>2. jpc[Leader(j)] \notin {"new", "start"}
      BY <1>3 DEF LeaderStep, LeaderUnlink, LeaderOpen, LeaderTruncate, LeaderZero, LeaderId,
         LeaderFlag, LeaderFinish, At
    <3>3. PICK s : s \notin {"new", "start"} /\ jpc' = [jpc EXCEPT ![Leader(j)] = s]
      BY <1>3 DEF LeaderStep, LeaderUnlink, LeaderOpen, LeaderTruncate, LeaderZero, LeaderId,
         LeaderFlag, LeaderFinish, At
    <3>4. QED
      BY <3>1, <3>2, <3>3 DEF JobTypes
  <2>2. \A i \in Job : \A p \in Followers(i) :
            /\ Entered(p)' <=> Entered(p)
            /\ wpc[p] # "idle" => jpc'[p] = "appending"
    BY <1>0, <2>1 DEF Entered, Appender, fileVars
  <2>3. \A i \in Job : jpc'[Leader(i)] \in {"new", "start"} <=> jpc[Leader(i)] \in {"new", "start"}
    BY <2>1
  <2>4. QED
    BY <1>a, <2>1, <2>2, <2>3
<1>4. ASSUME NEW j \in Job, NEW p \in Followers(j),
             \/ SyncOpen(p) \/ SyncBus(p) \/ SyncReady(p) \/ FollowerAppendFails(p)
             \/ FollowerDone(p)
      PROVE  Order
  <2>1. /\ UNCHANGED fileVars /\ wpc[p] = "idle"
        /\ \A q \in Proc : q # p => jpc'[q] = jpc[q]
    <3>1. UNCHANGED fileVars
      BY <1>4 DEF SyncOpen, SyncBus, SyncReady, FollowerAppendFails, FollowerDone
    <3>2. jpc[p] # "appending" \/ wpc[p] = "idle"
      BY <1>4 DEF SyncOpen, SyncBus, SyncReady, FollowerAppendFails, FollowerDone, At
    <3>3. PICK s : jpc' = [jpc EXCEPT ![p] = s]
      BY <1>4 DEF SyncOpen, SyncBus, SyncReady, FollowerAppendFails, FollowerDone, At
    <3>4. wpc[p] = "idle"
      BY <1>0, <3>2 DEF Appender
    <3>5. QED
      BY <3>1, <3>3, <3>4 DEF JobTypes
  <2>2. Entered(p)' <=> Entered(p)
    <3>1. \/ /\ jpc[p] \notin {"done", "appending"}
             /\ \E s \in {"poll", "bus", "append", "failed"} : jpc' = [jpc EXCEPT ![p] = s]
          \/ jpc[p] = "appending" /\ jpc' = [jpc EXCEPT ![p] = "done"]
      BY <1>4 DEF SyncOpen, SyncBus, SyncReady, FollowerAppendFails, FollowerDone, At
    <3>2. \/ jpc[p] \notin {"done", "appending"} /\ jpc'[p] \notin {"done", "appending"}
          \/ jpc[p] = "appending" /\ jpc'[p] = "done"
      BY <3>1 DEF JobTypes
    <3>3. QED
      BY <2>1, <3>2 DEF Entered, fileVars
  <2>3. \A i \in Job : \A q \in Followers(i) :
            /\ Entered(q)' <=> Entered(q)
            /\ wpc[q] # "idle" => jpc'[q] = "appending"
    BY <1>0, <2>1, <2>2 DEF Entered, Appender, fileVars
  <2>4. \A i \in Job : jpc'[Leader(i)] = jpc[Leader(i)]
    BY <2>1
  <2>5. QED
    BY <1>a, <2>1, <2>3, <2>4
<1>5. ASSUME NEW j \in Job, NEW p \in Followers(j), FollowerAppend(p) PROVE Order
  <2>1. /\ wpc[p] = "idle" /\ jpc[p] = "append" /\ jpc'[p] = "appending" /\ wpc'[p] = "lock"
        /\ wcap'[p] = got[p] /\ wtask'[p] = p /\ got[p] \in Cap
        /\ \A q \in Proc : q # p =>
               /\ jpc'[q] = jpc[q] /\ wpc'[q] = wpc[q] /\ wcap'[q] = wcap[q] /\ wtask'[q] = wtask[q]
        /\ UNCHANGED file
    BY <1>5 DEF FollowerAppend, AppendOpen, Goto, At, JobTypes, IInv, TypeOK
  <2>2. got[p] = j
    <3>1. got[p] \in {0, j} /\ got[p] # 0
      BY <1>0, <2>1, CapsuleJobAssumption DEF Follower, Job
    <3>2. QED
      BY <3>1
  <2>3. \A i \in Job : Quiet(i)' => Quiet(i)
    BY <2>1 DEF Quiet, WriteStage
  <2>4. \A i \in Job : \A q \in Followers(i) : Entered(q)' <=> Entered(q)
    BY <2>1 DEF Entered
  <2>5. \A i \in Job : Listed(i)'
    BY <1>0, <2>1, <2>3, <2>4, ListedSame
  <2>6. \A i \in Job : \A q \in Units(i) : Appender(i, q)'
    BY <1>0, <2>1, <2>2 DEF Appender
  <2>7. QED
    BY <2>5, <2>6
<1>6. ASSUME NEW p \in Proc, Work(p), UNCHANGED jobVars PROVE Order
  <2>1. PICK j \in Job : /\ p \in Followers(j) /\ wcap[p] = j /\ wtask[p] = p
                         /\ jpc[p] = "appending" /\ wpc[p] \in {"lock"} \cup WriteStage
    <3>1. wpc[p] # "idle"
      BY <1>6 DEF Work, AppendLock, AppendRefuse, AppendId, AppendMagic, AppendDatasize,
         AppendHdrsize, AppendDim0, ReadBody
    <3>2. QED
      BY <1>0, <3>1, AppenderFacts
  <2>2. /\ \A q \in Proc : q # p => wpc'[q] = wpc[q]
        /\ UNCHANGED <<jpc, wcap, wtask>>
    <3>1. (\E s : Goto(p, s)) /\ UNCHANGED <<wcap, wtask>>
      BY <1>6 DEF Work, AppendLock, AppendRefuse, AppendId, AppendMagic, AppendDatasize,
         AppendHdrsize, AppendDim0, ReadBody
    <3>2. QED
      BY <1>6, <3>1 DEF Goto, jobVars, IInv, TypeOK
  <2>3. \A i \in Job : i # j => (Quiet(i)' => Quiet(i))
    BY <2>1, <2>2 DEF Quiet
  <2>4. \A i \in Job : \A q \in Followers(i) : q # p => (Entered(q)' <=> Entered(q))
    BY <2>2 DEF Entered
  <2>5. wpc[p] = "check" => Quiet(j)
    <3> SUFFICES ASSUME wpc[p] = "check", NEW q \in Proc,
                        wpc[q] \in WriteStage \ {"check"}, wcap[q] = j
                 PROVE  FALSE
      BY DEF Quiet
    <3>1. p = q
      BY <2>1, Alone DEF WriteStage
    <3>2. QED
      BY <3>1
  <2>6. j \in Cap /\ file[j] \in Record /\ (\A i \in Job : i \in Cap)
    BY CapsuleJobAssumption DEF IInv, TypeOK
  <2>7. wpc[p] \in WriteStage => WriterAt(p, file[j])
    BY <2>1 DEF IInv, Each, Writer
  <2>8. \A i \in Job : \A q \in Units(i) : q # p => Appender(i, q)'
    BY <1>0, <2>2 DEF Appender
  <2>9. wpc'[p] \in {"idle"} \cup WriteStage =>
            Appender(j, p)' /\ \A i \in Job : p \in Units(i) => i = j
    BY <1>0, <2>1, <2>2 DEF Appender
  <2>10. CASE AppendLock(p)
    <3>1. wpc[p] = "lock" /\ wpc'[p] = "check" /\ UNCHANGED file
      BY <2>10 DEF AppendLock, Goto, IInv, TypeOK
    <3>2. Entered(p)' <=> Entered(p)
      BY <2>1, <2>2, <3>1 DEF Entered
    <3>3. Quiet(j)' => Quiet(j)
      BY <2>2, <3>1 DEF Quiet, WriteStage
    <3>4. \A i \in Job : Listed(i)'
      BY <1>0, <2>2, <2>3, <2>4, <3>1, <3>2, <3>3, ListedSame
    <3>5. QED
      BY <2>8, <2>9, <3>1, <3>4 DEF WriteStage
  <2>11. CASE AppendRefuse(p)
    <3>1. wpc[p] = "check" /\ ~Appendable(file[j])
      BY <2>1, <2>11 DEF AppendRefuse
    <3>2. file[j].live
      BY <2>7, <3>1 DEF WriterAt, WriteStage
    <3>3. QED
      BY <1>0, <2>5, <3>1, <3>2 DEF Listed, Appendable
  <2>12. CASE AppendId(p)
    <3>1. /\ wpc[p] = "check" /\ wpc'[p] = "magic"
          /\ file'[j] = [file[j] EXCEPT !.ids = Append(SubSeq(file[j].ids, 1, file[j].datasize), p),
                                        !.end = NoEnd]
          /\ \A i \in Job : i # j => file'[i] = file[i]
      BY <2>1, <2>6, <2>12 DEF AppendId, Goto, IInv, TypeOK
    <3>2. /\ file[j].live /\ file[j].ids \in Seq(Task) /\ file[j].datasize = Len(file[j].ids)
          /\ Len(file[j].ids) \in Nat /\ p \in Task
      <4>1. file[j].live
        BY <2>7, <3>1 DEF WriterAt, WriteStage
      <4>2. file[j].datasize = Len(file[j].ids)
        BY <1>0, <2>5, <3>1, <4>1 DEF Listed
      <4>3. file[j].ids \in Seq(Task)
        BY <2>6 DEF Record
      <4>4. QED
        BY <4>1, <4>2, <4>3, CapsuleJobAssumption
    <3> DEFINE ids == file[j].ids  n == Len(file[j].ids)  new == file'[j].ids
    <3>3. /\ new \in Seq(Task) /\ Len(new) = n + 1 /\ new[n + 1] = p
          /\ \A k \in 1..n : new[k] = ids[k]
      <4>1. new = Append(SubSeq(ids, 1, n), p)
        BY <2>6, <3>1, <3>2 DEF Record
      <4>2. n \in 0..Len(ids)
        BY <3>2
      <4>3. QED
        BY <3>2, <4>1, <4>2, Extended
    <3>4. ~Entered(p) /\ Entered(p)'
      BY <2>1, <2>2, <3>1 DEF Entered
    <3>5. \A k \in 1..n : ids[k] # p
      BY <1>0, <2>1, <3>2, <3>4 DEF Listed
    <3>6. file'[j].live
      BY <2>6, <3>1, <3>2 DEF Record
    <3>7. ~Quiet(j)'
      BY <2>1, <2>2, <3>1 DEF Quiet, WriteStage
    <3>8. n >= 1 /\ new[1] = Leader(j) /\ Len(new) >= 1
      BY <1>0, <3>2, <3>3 DEF Listed
    <3>9. \A k, l \in 1..Len(new) : new[k] = new[l] => k = l
      <4>1. \A k, l \in 1..n : ids[k] = ids[l] => k = l
        BY <1>0, <3>2 DEF Listed
      <4>2. \A k \in 1..Len(new) : k \in 1..n \/ k = n + 1
        BY <3>2, <3>3
      <4> HIDE DEF ids, n, new
      <4>3. QED
        BY <3>3, <3>5, <4>1, <4>2
    <3>10. ASSUME NEW q \in Proc
           PROVE  (\E k \in 1..Len(new) : new[k] = q) <=>
                      q = Leader(j) \/ (q \in Followers(j) /\ Entered(q)')
      <4>1. (\E k \in 1..n : ids[k] = q) <=> q = Leader(j) \/ (q \in Followers(j) /\ Entered(q))
        BY <1>0, <3>2 DEF Listed
      <4>2. (\E k \in 1..Len(new) : new[k] = q) <=> q = p \/ (\E k \in 1..n : ids[k] = q)
        <5> HIDE DEF ids, new
        <5>1. \A k \in 1..Len(new) : k \in 1..n \/ k = n + 1
          BY <3>2, <3>3
        <5>2. n + 1 \in 1..Len(new) /\ (\A k \in 1..n : k \in 1..Len(new))
          BY <3>2, <3>3
        <5> HIDE DEF n
        <5>3. QED
          BY <3>3, <5>1, <5>2
      <4>3. CASE q = p
        BY <2>1, <3>4, <4>2, <4>3
      <4>4. CASE q # p
        BY <2>4, <4>1, <4>2, <4>4
      <4>5. QED
        BY <4>3, <4>4
    <3>11. Listed(j)'
      BY <1>0, <2>2, <3>2, <3>6, <3>7, <3>8, <3>9, <3>10 DEF Listed
    <3>12. \A i \in Job : i # j => Listed(i)'
      BY <1>0, <2>1, <2>2, <2>3, <2>4, <3>1, ListedSame
    <3>13. QED
      BY <2>8, <2>9, <3>1, <3>11, <3>12 DEF WriteStage
  <2>13. CASE AppendMagic(p) \/ AppendDatasize(p) \/ AppendHdrsize(p) \/ AppendDim0(p)
    <3>1. /\ wpc[p] \in {"magic", "datasize", "hdrsize", "dim0"}
          /\ wpc'[p] \in {"idle", "datasize", "hdrsize", "dim0"}
      BY <2>13 DEF AppendMagic, AppendDatasize, AppendHdrsize, AppendDim0, Goto, IInv, TypeOK
    <3>2. /\ file'[j].ids = file[j].ids /\ file'[j].live = file[j].live
          /\ \A i \in Job : i # j => file'[i] = file[i]
      BY <2>1, <2>6, <2>13, <3>1, WriterKeepsList
    <3>3. Entered(p)' <=> Entered(p)
      BY <2>1, <2>2, <3>1 DEF Entered
    <3>4. Quiet(j)' => Len(file'[j].ids) = file'[j].datasize /\ file'[j].end = file'[j].datasize
      <4>1. CASE AppendDim0(p)
        <5>1. /\ wpc[p] = "dim0" /\ file'[j].datasize = file[j].datasize
              /\ file'[j].end = file[j].end
          BY <2>1, <2>6, <4>1 DEF AppendDim0, IInv, TypeOK, Record
        <5>2. file[j].datasize = wn[p] /\ file[j].end = wn[p] /\ wn[p] = Len(file[j].ids)
          BY <2>7, <5>1 DEF WriterAt, WriteStage
        <5>3. QED
          BY <3>2, <5>1, <5>2
      <4>2. CASE ~AppendDim0(p)
        <5>1. wpc'[p] \in {"datasize", "hdrsize", "dim0"}
          BY <2>13, <4>2 DEF AppendMagic, AppendDatasize, AppendHdrsize, Goto, IInv, TypeOK
        <5>2. ~Quiet(j)'
          BY <2>1, <2>2, <5>1 DEF Quiet, WriteStage
        <5>3. QED
          BY <5>2
      <4>3. QED
        BY <4>1, <4>2
    <3>5. \A q \in Followers(j) : Entered(q)' <=> Entered(q)
      BY <2>1, <2>4, <3>3
    <3>6. Listed(j)'
      BY <1>0, <2>2, <3>2, <3>4, <3>5 DEF Listed
    <3>7. \A i \in Job : i # j => Listed(i)'
      BY <1>0, <2>1, <2>2, <2>3, <2>4, <3>2, ListedSame
    <3>8. QED
      BY <2>8, <2>9, <3>1, <3>6, <3>7 DEF WriteStage
  <2>14. CASE ReadBody(p)
    BY <2>1, <2>14 DEF ReadBody, WriteStage
  <2>15. QED
    BY <1>6, <2>10, <2>11, <2>12, <2>13, <2>14 DEF Work
<1>7. ASSUME NEW p \in Proc, AppendIOError(p) \/ Killed(p) PROVE Order
  BY <1>7 DEF AppendIOError, Killed, Crash, Undisturbed
<1>8. ASSUME NEW j \in Job, LeaderFail(j) PROVE Order
  BY <1>8 DEF LeaderFail, Undisturbed
<1>9. CASE UNCHANGED allVars
  <2>1. UNCHANGED fileVars /\ UNCHANGED <<jpc, wpc>>
    BY <1>9 DEF allVars, fileVars
  <2>2. \A i \in Job : \A p \in Followers(i) :
            /\ Entered(p)' <=> Entered(p)
            /\ wpc[p] # "idle" => jpc'[p] = "appending"
    BY <1>0, <2>1 DEF Entered, Appender
  <2>3. QED
    BY <1>a, <2>1, <2>2
<1>10. QED
  BY <1>1, <1>2, <1>3, <1>4, <1>5, <1>6, <1>7, <1>8, <1>9
     DEF JobNext, FollowerStep

-----------------------------------------------------------------------------
(* The theorems *)

JobInv == IInv /\ JobTypes /\ HandOver /\ Collected

LEMMA JobInvInit == JobInit => JobInv
<1> SUFFICES ASSUME JobInit PROVE JobInv
  OBVIOUS
<1>1. IInv /\ JobTypes
  BY InvInit, JobTypesInit DEF JobInit
<1>2. HandOver
  BY LeaderFacts, UnitFacts DEF JobInit, HandOver, Sequential, Active, Idle, NameHeld,
     Holding, Follower, FollowerStage, LeaderStage
<1>3. Collected
  <2>1. \A j \in Job : j \in Cap /\ ~file[j].live
    BY CapsuleJobAssumption DEF JobInit, Init, Absent
  <2>2. \A j \in Job : Listed(j)
    BY <2>1, LeaderFacts DEF JobInit, Listed
  <2>3. \A j \in Job : \A p \in Units(j) : Appender(j, p)
    BY UnitFacts DEF JobInit, Init, Appender
  <2>4. QED
    BY <2>2, <2>3 DEF Collected
<1>4. QED
  BY <1>1, <1>2, <1>3 DEF JobInv

(* The invariant of the runs and of the records they share. *)
THEOREM JobInvariance == JobSpec => []JobInv
<1>1. JobInv /\ [JobNext]_allVars => JobInv'
  <2> SUFFICES ASSUME JobInv, [JobNext]_allVars PROVE JobInv'
    OBVIOUS
  <2>1. IInv'
    BY JobStep, InvStep DEF JobInv
  <2>2. JobTypes'
    BY JobTypesStep DEF JobInv
  <2>3. HandOver'
    BY <2>2, HandOverStep DEF JobInv
  <2>4. Collected'
    BY <2>1, <2>2, CollectedStep DEF JobInv
  <2>5. QED
    BY <2>1, <2>2, <2>3, <2>4 DEF JobInv
<1>2. QED
  BY <1>1, JobInvInit, PTL DEF JobSpec

(* tpb_k_sync_capsule_task returns the capsule of the process's own leader *)
(* in runs that follow each other, for any number of runs and processes.   *)
THEOREM SyncsWithOwnLeader == JobSpec => []SyncOwn
<1>1. JobInv => SyncOwn
  BY DEF JobInv, HandOver, Follower, SyncOwn
<1>2. QED
  BY <1>1, JobInvariance, PTL

(* The capsule of an undisturbed run lists its processes, each once, the   *)
(* leader first, in any number of runs and processes.                      *)
THEOREM CapsulesAreComplete == JobSpec => []CapsuleComplete
<1>1. JobInv => CapsuleComplete
  <2> SUFFICES ASSUME JobInv, Undisturbed, NEW j \in Job, jpc[Leader(j)] = "done"
               PROVE  LET f == file[j]
                          in == {p \in Units(j) : jpc[p] = "done"} IN
                      /\ Len(f.ids) = f.datasize
                      /\ f.ids[1] = Leader(j)
                      /\ Members(f) = in
                      /\ \A k, l \in DOMAIN f.ids : f.ids[k] = f.ids[l] => k = l
    BY DEF CapsuleComplete
  <2> USE LeaderFacts, UnitFacts
  <2>1. Listed(j) /\ file[j].live
    BY DEF JobInv, Collected, Listed
  <2>2. \A p \in Followers(j) : jpc[p] \in Ended
    BY DEF JobInv, HandOver, Follower
  <2>3. Quiet(j)
    <3> SUFFICES ASSUME NEW p \in Proc, wpc[p] \in WriteStage \ {"check"}, wcap[p] = j
                 PROVE  FALSE
      BY DEF Quiet
    <3>1. wpc[p] # "idle"
      BY DEF WriteStage
    <3>2. p \in Followers(j) /\ jpc[p] = "appending"
      BY <3>1, AppenderFacts DEF JobInv, Collected
    <3>3. QED
      BY <2>2, <3>2 DEF Ended
  <2>4. Len(file[j].ids) = file[j].datasize /\ file[j].ids[1] = Leader(j)
    BY <2>1, <2>3 DEF Listed
  <2>5. file[j].ids \in Seq(Proc)
    <3>1. j \in Cap /\ Task = Proc
      BY CapsuleJobAssumption
    <3>2. file[j] \in Record
      BY <3>1 DEF JobInv, IInv, TypeOK
    <3>3. QED
      BY <3>1, <3>2 DEF Record
  <2>6. ASSUME NEW p \in Proc
        PROVE  (\E k \in 1..Len(file[j].ids) : file[j].ids[k] = p) <=>
                   p \in Units(j) /\ jpc[p] = "done"
    <3>1. p \in Followers(j) => (Entered(p) <=> jpc[p] = "done")
      BY <2>2 DEF Entered, Ended
    <3>2. QED
      BY <2>1, <3>1 DEF Listed
  <2>7. Members(file[j]) = {p \in Units(j) : jpc[p] = "done"}
    <3>1. \A k \in 1..Len(file[j].ids) : file[j].ids[k] \in Proc
      BY <2>5
    <3>2. \A x \in Members(file[j]) : x \in {p \in Units(j) : jpc[p] = "done"}
      BY <2>4, <2>6, <3>1 DEF Members
    <3>3. \A x \in {p \in Units(j) : jpc[p] = "done"} : x \in Members(file[j])
      BY <2>4, <2>6 DEF Members
    <3>4. QED
      BY <3>2, <3>3
  <2>8. \A k, l \in DOMAIN file[j].ids : file[j].ids[k] = file[j].ids[l] => k = l
    BY <2>1, <2>5 DEF Listed
  <2>9. QED
    BY <2>4, <2>7, <2>8
<1>2. QED
  BY <1>1, JobInvariance, PTL
=============================================================================
