--------------------------- MODULE RafEntryProofs ---------------------------
(***************************************************************************)
(* Proofs about RafEntry, for any number of processes and records and any  *)
(* number of crashes and I/O errors: the index file stays whole, keeps     *)
(* every acknowledged row once, shows it to every later list, gets its     *)
(* links into the right rows, and implements EntryLog.                     *)
(***************************************************************************)
EXTENDS RafEntry, FiniteSetTheorems, TLAPS

-----------------------------------------------------------------------------
(* The inductive invariant *)

Appending == {"append_lock", "append_check", "append_end"}
Patching == {"patch_lock", "patch_write"}
Locked == {"append_check", "append_end", "patch_write"}

(* flock(): exactly the processes in a critical section hold the lock. *)
LockHeld == \A p \in Proc : holder = p <=> pc[p] \in Locked

(* A pending append is for an identifier no row and no other call has. *)
PendingFresh ==
    \A p \in Proc : pc[p] \in Appending =>
        /\ arg[p] \in used
        /\ \A k \in DOMAIN rows : rows[k].id # arg[p]
        /\ \A q \in Proc : q # p /\ pc[q] \in Appending => arg[q] # arg[p]

(* Rows are distinct, and acknowledged appends are rows. *)
RowsDistinct ==
    /\ \A k \in DOMAIN rows : rows[k].id \in used
    /\ \A j, k \in DOMAIN rows : rows[j].id = rows[k].id => j = k
    /\ \A i \in acked : \E k \in DOMAIN rows : rows[k].id = i

(* The position a patcher found is still the row of its task. *)
FoundRow ==
    \A p \in Proc : pc[p] \in Patching =>
        size[p] \in DOMAIN rows /\ rows[size[p]].id = arg[p]

(* What a list saw when it began has been acknowledged. *)
BeforeAcked == \A p \in Proc : before[p] \subseteq acked

IInv == /\ TypeOK /\ LockHeld /\ PendingFresh /\ RowsDistinct /\ FoundRow
        /\ BeforeAcked /\ IndexWhole /\ LinkInOwnRow /\ ListSeesAcked

-----------------------------------------------------------------------------
(* What an append and a patch do to the list of rows *)

(* Appending a row keeps the earlier rows and adds one at the end.         *)
LEMMA AppendedRows ==
    ASSUME NEW rs \in Seq(Row), NEW i \in Id
    PROVE  LET new == Append(rs, NewRow(i)) IN
           /\ new \in Seq(Row)
           /\ Len(new) = Len(rs) + 1
           /\ DOMAIN new = DOMAIN rs \cup {Len(rs) + 1}
           /\ Len(rs) + 1 \notin DOMAIN rs
           /\ \A k \in DOMAIN rs : new[k] = rs[k]
           /\ new[Len(rs) + 1] = NewRow(i)
           /\ NewRow(i) \in Row
<1>1. NewRow(i) \in Row
  BY DEF NewRow, Row
<1>2. QED
  BY <1>1

(* Patching one row keeps the positions and the identifiers of all.        *)
LEMMA PatchedRows ==
    ASSUME NEW rs \in Seq(Row), NEW k, NEW i \in Id \cup {NoId}
    PROVE  LET new == [rs EXCEPT ![k].derive = i] IN
           /\ new \in Seq(Row)
           /\ Len(new) = Len(rs)
           /\ DOMAIN new = DOMAIN rs
           /\ \A j \in DOMAIN rs :
                  /\ new[j].id = rs[j].id
                  /\ new[j].derive = IF j = k THEN i ELSE rs[j].derive
<1> DEFINE new == [rs EXCEPT ![k].derive = i]
<1>1. DOMAIN new = DOMAIN rs /\ DOMAIN rs = 1..Len(rs)
  OBVIOUS
<1>2. ASSUME NEW j \in DOMAIN rs
      PROVE  /\ new[j] \in Row
             /\ new[j].id = rs[j].id
             /\ new[j].derive = IF j = k THEN i ELSE rs[j].derive
  <2>1. rs[j] \in Row
    OBVIOUS
  <2>2. CASE j = k
    BY <2>1, <2>2 DEF Row
  <2>3. CASE j # k
    BY <2>1, <2>3 DEF Row
  <2>4. QED
    BY <2>2, <2>3
<1>3. new \in [1..Len(rs) -> Row]
  BY <1>1, <1>2
<1>4. new \in Seq(Row) /\ Len(new) = Len(rs)
  BY <1>3
<1>5. QED
  BY <1>1, <1>2, <1>4

-----------------------------------------------------------------------------
(* One lemma per action: the invariant is preserved.  In each, one step    *)
(* per conjunct the action can disturb.                                    *)

(* The new identifier was not used before, so it is no row and nobody has *)
(* it pending.                                                             *)
LEMMA AppendOpenKeeps ==
    ASSUME IInv, NEW p \in Proc, NEW i \in Id, AppendOpen(p, i)
    PROVE  IInv'
<1> USE RafEntryAssumption DEF IInv, TypeOK, AppendOpen, Goto
<1>1. TypeOK'
  BY DEF Stage
<1>2. LockHeld'
  BY <1>1 DEF LockHeld, Locked
<1>3. PendingFresh'
  BY <1>1 DEF PendingFresh, RowsDistinct, Appending
<1>4. FoundRow'
  BY <1>1 DEF FoundRow, Patching
<1>5. IndexWhole'
  BY <1>1 DEF IndexWhole, LockHeld, Locked
<1>6. (RowsDistinct /\ LinkInOwnRow /\ BeforeAcked /\ ListSeesAcked)'
  BY DEF RowsDistinct, LinkInOwnRow, BeforeAcked, ListSeesAcked
<1>7. QED
  BY <1>1, <1>2, <1>3, <1>4, <1>5, <1>6

(* flock() is granted when nobody holds it. *)
LEMMA AppendLockKeeps ==
    ASSUME IInv, NEW p \in Proc, AppendLock(p)
    PROVE  IInv'
<1> USE RafEntryAssumption DEF IInv, TypeOK, AppendLock, Goto
<1>1. TypeOK'
  BY DEF Stage
<1>2. LockHeld'
  BY <1>1 DEF LockHeld, Locked
<1>3. PendingFresh'
  BY <1>1 DEF PendingFresh, Appending
<1>4. FoundRow'
  BY <1>1 DEF FoundRow, Patching
<1>5. IndexWhole'
  BY <1>1 DEF IndexWhole, LockHeld, Locked
<1>6. (RowsDistinct /\ LinkInOwnRow /\ BeforeAcked /\ ListSeesAcked)'
  BY DEF RowsDistinct, LinkInOwnRow, BeforeAcked, ListSeesAcked
<1>7. QED
  BY <1>1, <1>2, <1>3, <1>4, <1>5, <1>6

(* The same for the lock of tpb_k_task_set_derive_to. *)
LEMMA PatchLockKeeps ==
    ASSUME IInv, NEW p \in Proc, PatchLock(p)
    PROVE  IInv'
<1> USE RafEntryAssumption DEF IInv, TypeOK, PatchLock, Goto
<1>1. TypeOK'
  BY DEF Stage
<1>2. LockHeld'
  BY <1>1 DEF LockHeld, Locked
<1>3. PendingFresh'
  BY <1>1 DEF PendingFresh, Appending
<1>4. FoundRow'
  BY <1>1 DEF FoundRow, Patching
<1>5. IndexWhole'
  BY <1>1 DEF IndexWhole, LockHeld, Locked
<1>6. (RowsDistinct /\ LinkInOwnRow /\ BeforeAcked /\ ListSeesAcked)'
  BY DEF RowsDistinct, LinkInOwnRow, BeforeAcked, ListSeesAcked
<1>7. QED
  BY <1>1, <1>2, <1>3, <1>4, <1>5, <1>6

(* The first row of a new file. *)
LEMMA AppendFirstKeeps ==
    ASSUME IInv, NEW p \in Proc, AppendFirst(p)
    PROVE  IInv'
<1> USE RafEntryAssumption DEF IInv, TypeOK, AppendFirst, Goto, Unlock
<1>1. arg[p] \in Id /\ pc[p] \in Appending /\ acked \subseteq acked'
  BY DEF PendingFresh, Appending
<1>2. TypeOK'
  BY <1>1, AppendedRows DEF Stage
<1>3. LockHeld'
  BY DEF LockHeld, Locked
<1>4. PendingFresh'
  BY <1>1, AppendedRows DEF PendingFresh, Appending, NewRow
<1>5. RowsDistinct'
  BY <1>1, AppendedRows DEF RowsDistinct, PendingFresh, NewRow
<1>6. FoundRow'
  BY <1>1, AppendedRows DEF FoundRow, Patching
<1>7. BeforeAcked'
  BY DEF BeforeAcked
<1>8. IndexWhole'
  BY DEF IndexWhole
<1>9. LinkInOwnRow'
  BY <1>1, AppendedRows DEF LinkInOwnRow, NewRow
<1>10. ListSeesAcked'
  BY DEF ListSeesAcked
<1>11. QED
  BY <1>1, <1>2, <1>3, <1>4, <1>5, <1>6, <1>7, <1>8, <1>9, <1>10

(* A row of an existing file: the lock is held, the row is new. *)
LEMMA AppendEndKeeps ==
    ASSUME IInv, NEW p \in Proc, AppendEnd(p)
    PROVE  IInv'
<1> USE RafEntryAssumption DEF IInv, TypeOK, AppendEnd, Goto, Unlock
<1>1. arg[p] \in Id /\ pc[p] \in Appending /\ acked \subseteq acked'
  BY DEF PendingFresh, Appending
<1>2. TypeOK'
  BY <1>1, AppendedRows DEF Stage
<1>3. LockHeld'
  BY DEF LockHeld, Locked
<1>4. PendingFresh'
  BY <1>1, AppendedRows DEF PendingFresh, Appending, NewRow
<1>5. RowsDistinct'
  BY <1>1, AppendedRows DEF RowsDistinct, PendingFresh, NewRow
<1>6. FoundRow'
  BY <1>1, AppendedRows DEF FoundRow, Patching
<1>7. BeforeAcked'
  BY DEF BeforeAcked
<1>8. IndexWhole'
  BY DEF IndexWhole
<1>9. LinkInOwnRow'
  BY <1>1, AppendedRows DEF LinkInOwnRow, NewRow
<1>10. ListSeesAcked'
  BY DEF ListSeesAcked
<1>11. QED
  BY <1>1, <1>2, <1>3, <1>4, <1>5, <1>6, <1>7, <1>8, <1>9, <1>10

(* A torn file is left as it is. *)
LEMMA AppendRefuseKeeps ==
    ASSUME IInv, NEW p \in Proc, AppendRefuse(p)
    PROVE  IInv'
<1> USE RafEntryAssumption DEF IInv, TypeOK, AppendRefuse, Goto, Unlock
<1>1. TypeOK'
  BY DEF Stage
<1>2. LockHeld'
  BY <1>1 DEF LockHeld, Locked
<1>3. PendingFresh'
  BY <1>1 DEF PendingFresh, Appending
<1>4. FoundRow'
  BY <1>1 DEF FoundRow, Patching
<1>5. IndexWhole'
  BY <1>1 DEF IndexWhole, LockHeld, Locked
<1>6. (RowsDistinct /\ LinkInOwnRow /\ BeforeAcked /\ ListSeesAcked)'
  BY DEF RowsDistinct, LinkInOwnRow, BeforeAcked, ListSeesAcked
<1>7. QED
  BY <1>1, <1>2, <1>3, <1>4, <1>5, <1>6

(* The end magic goes, under the lock. *)
LEMMA AppendRowKeeps ==
    ASSUME IInv, NEW p \in Proc, AppendRow(p)
    PROVE  IInv'
<1> USE RafEntryAssumption DEF IInv, TypeOK, AppendRow, Goto, Unlock
<1>1. TypeOK'
  BY DEF Stage
<1>2. LockHeld'
  BY <1>1 DEF LockHeld, Locked
<1>3. PendingFresh'
  BY <1>1 DEF PendingFresh, Appending
<1>4. FoundRow'
  BY <1>1 DEF FoundRow, Patching
<1>5. IndexWhole'
  BY <1>1 DEF IndexWhole, LockHeld, Locked
<1>6. (RowsDistinct /\ LinkInOwnRow /\ BeforeAcked /\ ListSeesAcked)'
  BY DEF RowsDistinct, LinkInOwnRow, BeforeAcked, ListSeesAcked
<1>7. QED
  BY <1>1, <1>2, <1>3, <1>4, <1>5, <1>6

(* A failed write counts as an abort. *)
LEMMA AppendIOErrorKeeps ==
    ASSUME IInv, NEW p \in Proc, AppendIOError(p)
    PROVE  IInv'
<1> USE RafEntryAssumption DEF IInv, TypeOK, AppendIOError, Goto, Unlock
<1>1. TypeOK'
  BY DEF Stage
<1>2. LockHeld'
  BY <1>1 DEF LockHeld, Locked
<1>3. PendingFresh'
  BY <1>1 DEF PendingFresh, Appending
<1>4. FoundRow'
  BY <1>1 DEF FoundRow, Patching
<1>5. IndexWhole'
  BY <1>1 DEF IndexWhole, LockHeld, Locked
<1>6. (RowsDistinct /\ LinkInOwnRow /\ BeforeAcked /\ ListSeesAcked)'
  BY DEF RowsDistinct, LinkInOwnRow, BeforeAcked, ListSeesAcked
<1>7. QED
  BY <1>1, <1>2, <1>3, <1>4, <1>5, <1>6

(* So does a death. *)
LEMMA CrashKeeps ==
    ASSUME IInv, NEW p \in Proc, Crash(p)
    PROVE  IInv'
<1> USE RafEntryAssumption DEF IInv, TypeOK, Crash, Goto, Unlock
<1>1. TypeOK'
  BY DEF Stage
<1>2. LockHeld'
  BY <1>1 DEF LockHeld, Locked
<1>3. PendingFresh'
  BY <1>1 DEF PendingFresh, Appending
<1>4. FoundRow'
  BY <1>1 DEF FoundRow, Patching
<1>5. IndexWhole'
  BY <1>1 DEF IndexWhole, LockHeld, Locked
<1>6. (RowsDistinct /\ LinkInOwnRow /\ BeforeAcked /\ ListSeesAcked)'
  BY DEF RowsDistinct, LinkInOwnRow, BeforeAcked, ListSeesAcked
<1>7. QED
  BY <1>1, <1>2, <1>3, <1>4, <1>5, <1>6

(* A list or a patch begins: what it must show has been acknowledged.      *)
LEMMA ListStatKeeps ==
    ASSUME IInv, NEW p \in Proc, NEW i \in Id \cup {NoId}, ListStat(p, i)
    PROVE  IInv'
<1> USE RafEntryAssumption DEF IInv, TypeOK, ListStat, Goto
<1>1. tolink' \in [Proc -> SUBSET Id] /\ size' \in [Proc -> Nat]
  OBVIOUS
<1>2. TypeOK'
  BY <1>1 DEF Stage
<1>3. LockHeld'
  BY DEF LockHeld, Locked
<1>4. PendingFresh'
  BY DEF PendingFresh, Appending
<1>5. FoundRow'
  BY DEF FoundRow, Patching
<1>6. IndexWhole'
  BY DEF IndexWhole, LockHeld, Locked
<1>7. RowsDistinct' /\ LinkInOwnRow'
  BY DEF RowsDistinct, LinkInOwnRow
<1>8. BeforeAcked'
  BY DEF BeforeAcked
<1>9. ListSeesAcked'
  BY DEF ListSeesAcked
<1>10. QED
  BY <1>1, <1>2, <1>3, <1>4, <1>5, <1>6, <1>7, <1>8, <1>9

(* A good list returns every row, hence every acknowledged append. *)
LEMMA ListReadOkKeeps ==
    ASSUME IInv, NEW p \in Proc, ListReadOk(p)
    PROVE  IInv'
<1> USE RafEntryAssumption DEF IInv, TypeOK, ListReadOk, Goto
<1>1. RowIds(rows) \subseteq Id /\ acked \subseteq RowIds(rows)
  <2>1. \A k \in DOMAIN rows : rows[k].id \in Id
    BY DEF RowsDistinct
  <2>2. \A i \in acked : \E k \in DOMAIN rows : rows[k].id = i
    BY DEF RowsDistinct
  <2>3. QED
    BY <2>1, <2>2 DEF RowIds
<1>2. TypeOK'
  BY <1>1 DEF Stage
<1>3. LockHeld'
  BY DEF LockHeld, Locked
<1>4. PendingFresh'
  BY DEF PendingFresh, Appending
<1>5. FoundRow'
  BY DEF FoundRow, Patching
<1>6. IndexWhole'
  BY DEF IndexWhole
<1>7. RowsDistinct' /\ LinkInOwnRow' /\ BeforeAcked'
  BY DEF RowsDistinct, LinkInOwnRow, BeforeAcked
<1>8. ListSeesAcked'
  BY <1>1 DEF ListSeesAcked, BeforeAcked
<1>9. QED
  BY <1>1, <1>2, <1>3, <1>4, <1>5, <1>6, <1>7, <1>8

(* A list that fails changes nothing but the place of its process. *)
LEMMA ListReadFailKeeps ==
    ASSUME IInv, NEW p \in Proc, ListReadFail(p)
    PROVE  IInv'
<1> USE RafEntryAssumption DEF IInv, TypeOK, ListReadFail, Goto
<1>1. TypeOK'
  BY DEF Stage
<1>2. LockHeld'
  BY <1>1 DEF LockHeld, Locked
<1>3. PendingFresh'
  BY <1>1 DEF PendingFresh, Appending
<1>4. FoundRow'
  BY <1>1 DEF FoundRow, Patching
<1>5. IndexWhole'
  BY <1>1 DEF IndexWhole, LockHeld, Locked
<1>6. (RowsDistinct /\ LinkInOwnRow /\ BeforeAcked /\ ListSeesAcked)'
  BY DEF RowsDistinct, LinkInOwnRow, BeforeAcked, ListSeesAcked
<1>7. QED
  BY <1>1, <1>2, <1>3, <1>4, <1>5, <1>6

(* The first row of the task exists when the list has one. *)
LEMMA PatchFindKeeps ==
    ASSUME IInv, NEW p \in Proc, PatchFind(p)
    PROVE  IInv'
<1> USE RafEntryAssumption DEF IInv, TypeOK, PatchFind, Goto
<1>1. arg[p] \in RowIds(rows) =>
          FirstRow(arg[p]) \in DOMAIN rows /\ rows[FirstRow(arg[p])].id = arg[p]
  <2> SUFFICES ASSUME arg[p] \in RowIds(rows)
               PROVE  FirstRow(arg[p]) \in DOMAIN rows /\ rows[FirstRow(arg[p])].id = arg[p]
    OBVIOUS
  <2>1. PICK k \in DOMAIN rows : rows[k].id = arg[p]
    BY DEF RowIds
  <2>2. \A j \in DOMAIN rows : rows[j].id = arg[p] => j = k
    BY <2>1 DEF RowsDistinct
  <2>3. k \in Nat
    OBVIOUS
  <2>4. QED
    BY <2>1, <2>2, <2>3 DEF FirstRow
<1>2. TypeOK'
  <2>1. DOMAIN rows \subseteq Nat
    OBVIOUS
  <2>2. size' \in [Proc -> Nat]
    BY <1>1, <2>1
  <2>3. QED
    BY <2>2 DEF Stage
<1>3. LockHeld'
  BY DEF LockHeld, Locked
<1>4. PendingFresh'
  BY DEF PendingFresh, Appending
<1>5. FoundRow'
  BY <1>1 DEF FoundRow, Patching
<1>6. IndexWhole'
  BY DEF IndexWhole
<1>7. (RowsDistinct /\ LinkInOwnRow /\ BeforeAcked /\ ListSeesAcked)'
  BY DEF RowsDistinct, LinkInOwnRow, BeforeAcked, ListSeesAcked
<1>8. QED
  BY <1>1, <1>2, <1>3, <1>4, <1>5, <1>6, <1>7

(* The row that was found is still the row of the task. *)
LEMMA PatchWriteKeeps ==
    ASSUME IInv, NEW p \in Proc, PatchWrite(p)
    PROVE  IInv'
<1> USE RafEntryAssumption DEF IInv, TypeOK, PatchWrite, Goto, Unlock
<1>1. size[p] \in DOMAIN rows /\ rows[size[p]].id = arg[p]
  BY DEF FoundRow, Patching
<1>2. TypeOK'
  BY <1>1, PatchedRows DEF Stage
<1>3. LockHeld'
  BY DEF LockHeld, Locked
<1>4. PendingFresh'
  BY PatchedRows DEF PendingFresh, Appending
<1>5. RowsDistinct'
  BY PatchedRows DEF RowsDistinct
<1>6. FoundRow'
  BY PatchedRows DEF FoundRow, Patching
<1>7. IndexWhole'
  BY DEF IndexWhole, LockHeld, Locked
<1>8. LinkInOwnRow'
  BY <1>1, PatchedRows DEF LinkInOwnRow
<1>9. BeforeAcked' /\ ListSeesAcked'
  BY DEF BeforeAcked, ListSeesAcked
<1>10. QED
  BY <1>1, <1>2, <1>3, <1>4, <1>5, <1>6, <1>7, <1>8, <1>9

-----------------------------------------------------------------------------
(* The theorems *)

(* The invariant holds initially and every step of any process keeps it.   *)
LEMMA InvInit == Init => IInv
<1> SUFFICES ASSUME Init PROVE IInv
  OBVIOUS
<1> USE RafEntryAssumption DEF Init
<1>1. TypeOK
  BY DEF TypeOK, Stage
<1>2. LockHeld /\ PendingFresh /\ FoundRow
  BY DEF LockHeld, Locked, PendingFresh, Appending, FoundRow, Patching
<1>3. RowsDistinct /\ BeforeAcked /\ IndexWhole /\ LinkInOwnRow /\ ListSeesAcked
  BY DEF RowsDistinct, BeforeAcked, IndexWhole, LinkInOwnRow, ListSeesAcked
<1>4. QED
  BY <1>1, <1>2, <1>3 DEF IInv

(* Each step falls under the lemma of its action.                         *)
LEMMA InvStep == IInv /\ [Next]_vars => IInv'
<1> SUFFICES ASSUME IInv, [Next]_vars PROVE IInv'
  OBVIOUS
<1>1. CASE UNCHANGED vars
  BY <1>1 DEF vars, IInv, TypeOK, LockHeld, PendingFresh, RowsDistinct, FoundRow,
              BeforeAcked, IndexWhole, LinkInOwnRow, ListSeesAcked
<1>2. ASSUME NEW p \in Proc, NEW i \in Id, AppendOpen(p, i) PROVE IInv'
  BY <1>2, AppendOpenKeeps
<1>3. ASSUME NEW p \in Proc, NEW i \in Id \cup {NoId}, ListStat(p, i) PROVE IInv'
  BY <1>3, ListStatKeeps
<1>4. ASSUME NEW p \in Proc, Progress(p) PROVE IInv'
  BY <1>4, AppendLockKeeps, AppendFirstKeeps, AppendRefuseKeeps, AppendRowKeeps,
     AppendEndKeeps, ListReadOkKeeps, ListReadFailKeeps, PatchFindKeeps,
     PatchLockKeeps, PatchWriteKeeps DEF Progress
<1>5. ASSUME NEW p \in Proc, AppendIOError(p) \/ Crash(p) PROVE IInv'
  BY <1>5, AppendIOErrorKeeps, CrashKeeps
<1>6. QED
  BY <1>1, <1>2, <1>3, <1>4, <1>5 DEF Next

(* In every state of every behaviour the rows are distinct, the index is   *)
(* whole outside an append, and a remembered row position is still right.  *)
THEOREM InvHolds == Spec => []IInv
<1>1. QED
  BY InvInit, InvStep, PTL DEF Spec

(* The state of the index and of its users stays within its types.         *)
THEOREM TypeCorrect == Spec => []TypeOK
<1>1. IInv => TypeOK
  BY DEF IInv
<1>2. QED
  BY <1>1, InvHolds, PTL

(* _tpb_raf_l1_entry_append never leaves the file without its end magic    *)
(* unless a process died or failed inside it.                              *)
THEOREM IndexStaysWhole == Spec => []IndexWhole
<1>1. IInv => IndexWhole
  BY DEF IInv
<1>2. QED
  BY <1>1, InvHolds, PTL

(* An acknowledged append is in the index in exactly one row, for ever.    *)
THEOREM AckedStaysOnce == Spec => []AckedOnce
<1>1. ASSUME IInv, NEW i \in acked
      PROVE  Cardinality({k \in DOMAIN rows : rows[k].id = i}) = 1
  <2>1. PICK k \in DOMAIN rows : rows[k].id = i
    BY <1>1 DEF IInv, RowsDistinct
  <2>2. \A j \in DOMAIN rows : rows[j].id = i => j = k
    BY <1>1, <2>1 DEF IInv, RowsDistinct
  <2>3. {j \in DOMAIN rows : rows[j].id = i} = {k}
    BY <2>1, <2>2
  <2>4. QED
    BY <2>3, FS_Singleton
<1>2. IInv => AckedOnce
  BY <1>1 DEF AckedOnce
<1>3. QED
  BY <1>2, InvHolds, PTL

(* A list that succeeds without a lock shows all that was acknowledged     *)
(* before it began.                                                        *)
THEOREM ListsShowAcked == Spec => []ListSeesAcked
<1>1. IInv => ListSeesAcked
  BY DEF IInv
<1>2. QED
  BY <1>1, InvHolds, PTL

(* The link of a task lands in the row of that task, although the row was  *)
(* found before the lock was taken.                                        *)
THEOREM LinksLand == Spec => []LinkInOwnRow
<1>1. IInv => LinkInOwnRow
  BY DEF IInv
<1>2. QED
  BY <1>1, InvHolds, PTL

-----------------------------------------------------------------------------
(* The index implements EntryLog *)

(* A step leaves the rows alone, or is an addition or a link of EntryLog.  *)
LEMMA RowsStep == IInv /\ [Next]_vars => [Log!Next]_rows
<1> SUFFICES ASSUME IInv, [Next]_vars, rows' # rows PROVE Log!Next
  OBVIOUS
<1>1. ASSUME NEW p \in Proc, AppendFirst(p) \/ AppendEnd(p)
      PROVE  Log!Add(arg[p]) /\ arg[p] \in Id
  <2>1. pc[p] \in Appending /\ rows' = Append(rows, NewRow(arg[p]))
    BY <1>1 DEF AppendFirst, AppendEnd, Appending
  <2>2. arg[p] \in Id /\ \A k \in DOMAIN rows : rows[k].id # arg[p]
    BY <2>1 DEF IInv, TypeOK, PendingFresh
  <2>3. QED
    BY <2>1, <2>2 DEF Log!Add, Log!RowsOf, NewRow
<1>2. ASSUME NEW p \in Proc, PatchWrite(p)
      PROVE  Log!Link(arg[p]) /\ arg[p] \in Id
  <2>1. size[p] \in DOMAIN rows /\ rows[size[p]].id = arg[p]
    BY <1>2 DEF IInv, FoundRow, Patching, PatchWrite
  <2>2. arg[p] \in Id
    BY <2>1 DEF IInv, TypeOK, RowsDistinct
  <2>3. QED
    BY <1>2, <2>1, <2>2 DEF Log!Link, Log!RowsOf, PatchWrite
<1>3. \E p \in Proc : AppendFirst(p) \/ AppendEnd(p) \/ PatchWrite(p)
  BY DEF vars, Next, Progress, AppendOpen, AppendLock, AppendRefuse, AppendRow,
         AppendIOError, ListStat, ListReadOk, ListReadFail, PatchFind, PatchLock, Crash
<1>4. QED
  BY <1>1, <1>2, <1>3 DEF Log!Next

(* Files, locks and crashes included, the index is the append-only list    *)
(* its users rely on.                                                      *)
THEOREM IndexImplementsLog == Spec => RefinesEntryLog
<1>1. Init => Log!Init
  BY DEF Init, Log!Init
<1>2. QED
  BY <1>1, RowsStep, InvHolds, PTL DEF Spec, RefinesEntryLog, Log!Spec

(* No step removes, reorders or renames a row: a position stays valid.     *)
THEOREM RowsKeepPlace == Spec => RowsStay
<1> DEFINE Keeps == /\ Len(rows') >= Len(rows)
                    /\ \A k \in DOMAIN rows : rows'[k].id = rows[k].id
<1>1. ASSUME IInv, [Next]_vars PROVE [Keeps]_rows
  <2> SUFFICES ASSUME rows' # rows PROVE Keeps
    OBVIOUS
  <2>1. rows \in Seq(Row) /\ Log!Next
    BY <1>1, RowsStep DEF IInv, TypeOK
  <2>2. ASSUME NEW i \in Id, Log!Add(i) PROVE Keeps
    BY <2>1, <2>2, AppendedRows DEF Log!Add, NewRow
  <2>3. ASSUME NEW i \in Id, Log!Link(i) PROVE Keeps
    BY <2>1, <2>3, PatchedRows DEF Log!Link
  <2>4. QED
    BY <2>1, <2>2, <2>3 DEF Log!Next
<1>2. QED
  BY <1>1, InvHolds, PTL DEF Spec, RowsStay
=============================================================================
