---------------------------- MODULE BatchProofs -----------------------------
(***************************************************************************)
(* Proofs about Batch, for any number of front ends, handles, ranks and    *)
(* failures: a published batch lists its own entry points, each once, and  *)
(* the row in tbatch.tpbe agrees with the record.  The time stamps play no *)
(* part in these and are left untyped.                                     *)
(***************************************************************************)
EXTENDS Batch, FiniteSetTheorems, TLAPS

-----------------------------------------------------------------------------
(* Types *)

Exit == {"ok", "verify", "fail"}
Units == Unit \cup {Capsule}

IsFront(f, x) ==
    x \in [pc : FrontPc, h : DOMAIN Job[f].plan, utc : {x.utc}, snap : {x.snap}, pos : Nat,
           ntask : Nat, nkernel : Nat]
IsChild(x) == x \in [pc : ChildPc, exit : Exit, todo : SUBSET Unit, cur : Units,
                     utc : {x.utc}, ok : BOOLEAN]
IsRecord(x) == x \in [live : BOOLEAN, ids : {x.ids}, ntask : Nat, nkernel : Nat,
                      dim0 : {x.dim0}, note : {x.note}]
IsRow(x) == x \in [id : {x.id}, batch : Front, kernel : {x.kernel}, utc : {x.utc},
                   linked : BOOLEAN]

Fronts == fe = [f \in Front |-> fe[f]] /\ \A f \in Front : IsFront(f, fe[f])
Children == ch = [f \in Front |-> ch[f]] /\ \A f \in Front : IsChild(ch[f])
Records == record = [f \in Front |-> record[f]] /\ \A f \in Front : IsRecord(record[f])
Scalars ==
    /\ writer \in Front \cup {NoFront} /\ broken \in BOOLEAN /\ raced \in BOOLEAN
    /\ fails \in 0..MaxFail /\ clock \in Int /\ clock <= MaxFail /\ clock + fails >= MaxFail
Types == Fronts /\ Children /\ Records /\ Scalars

-----------------------------------------------------------------------------
(* The rows of task.tpbe *)

IndexType == index \in Seq(Range(index)) /\ \A k \in DOMAIN index : IsRow(index[k])

(* The units that a kernel in this state may still record, and those that  *)
(* may still come from the current handle of a front end.                  *)
Todo(c) ==
    CASE c.pc = "run" -> Units
      [] c.pc \in {"write", "env_record", "env_row"} -> c.todo \cup {Capsule}
      [] c.pc \in {"append", "append_end"} -> c.todo \cup {c.cur, Capsule}
      [] OTHER -> {}

Left(f) ==
    IF ch[f].pc # "none" THEN Todo(ch[f])
    ELSE IF fe[f].pc \in {"new", "spawn"} THEN Units ELSE {}

(* A row names its batch, handle and unit, and the kernel of that handle;  *)
(* it is not one that is still to come.                                    *)
RowOK(x) ==
    /\ x.id = <<x.batch, x.id[2], x.id[3]>>
    /\ x.id[2] \in DOMAIN Job[x.batch].plan /\ x.kernel = Job[x.batch].plan[x.id[2]]
    /\ x.id[2] <= fe[x.batch].h
    /\ x.id[2] = fe[x.batch].h => x.id[3] \notin Left(x.batch)

Rows ==
    /\ \A k \in DOMAIN index : RowOK(index[k])
    /\ \A j, k \in DOMAIN index : index[j].id = index[k].id => j = k

(* The task being appended is not one that is still to be written. *)
Unwritten(c) == c.pc \in {"append", "append_end"} => c.cur \notin c.todo

(* A front end that has a kernel waits for it, or is dead.  *)
Forked(f) ==
    /\ ch[f].pc # "none" => fe[f].pc \in {"wait", "dead"}
    /\ Unwritten(ch[f])

-----------------------------------------------------------------------------
(* The end of a batch *)

Early == {"new", "spawn", "wait", "scan"}
Late == {"env_record", "env_row", "entry", "done"}
Ended == {"collect"} \cup Late

Fresh(f) ==
    /\ fe[f].pc \in Early => /\ record[f].ids = <<>>
                             /\ fe[f].ntask = 0 /\ fe[f].nkernel = 0
    /\ fe[f].pc \in (Early \ {"new"}) \cup Ended => record[f].live

(* The snapshot still has all rows of the batch, as they are now. *)
Snapshot(f) ==
    LET snap == fe[f].snap IN
    /\ snap \in Seq(Range(snap)) /\ DOMAIN snap \subseteq DOMAIN index
    /\ \A k \in DOMAIN snap : snap[k].batch = index[k].batch
    /\ \A k \in DOMAIN snap : snap[k].batch = f => snap[k] = index[k]
    /\ \A k \in DOMAIN index \ DOMAIN snap : index[k].batch # f

(* What the loop has collected: the rows before the position that count. *)
Seen(f) == {k \in DOMAIN fe[f].snap : k < fe[f].pos /\ EntryPoint(f, fe[f].snap[k])}
Ids(f) == {fe[f].snap[k].id : k \in Seen(f)}
Kernels(f) == {fe[f].snap[k].kernel : k \in Seen(f)}

Loop(f) ==
    /\ Range(record[f].ids) = Ids(f) /\ record[f].ids \in Seq(Ids(f))
    /\ IsFiniteSet(Ids(f)) /\ Cardinality(Ids(f)) = Len(record[f].ids)
    /\ fe[f].pos >= 1 /\ fe[f].ntask = Len(record[f].ids)
    /\ IsFiniteSet(Kernels(f)) /\ fe[f].nkernel = Cardinality(Kernels(f))
    /\ fe[f].pc \in Late =>
           /\ fe[f].pos > Len(fe[f].snap)
           /\ record[f].ntask = fe[f].ntask /\ record[f].nkernel = fe[f].nkernel

Ending(f) == fe[f].pc \in Ended => Snapshot(f) /\ Loop(f)

Published ==
    \A e \in Range(entries) :
        /\ e.batch \in Front /\ fe[e.batch].pc = "done"
        /\ e.ntask = fe[e.batch].ntask /\ e.nkernel = fe[e.batch].nkernel

IInv ==
    /\ Types /\ IndexType /\ Rows
    /\ \A f \in Front : Forked(f) /\ Fresh(f) /\ Ending(f)
    /\ entries \in Seq(Range(entries)) /\ Published

-----------------------------------------------------------------------------
(* Facts about the constants, tuples and sequences *)

LEMMA JobFacts ==
    /\ MaxFail \in Nat /\ NUnit \in Nat /\ NUnit >= 1
    /\ 0 \in Unit /\ Unit \subseteq Nat /\ Capsule \notin Unit /\ Capsule \in Units
    /\ Unit \subseteq Units /\ NoFront \notin Front
  BY BatchAssumption DEF Unit, Capsule, Units

LEMMA PlanFacts ==
    ASSUME NEW f \in Front
    PROVE  /\ Len(Job[f].plan) \in Nat /\ Len(Job[f].plan) >= 1
           /\ DOMAIN Job[f].plan = 1..Len(Job[f].plan) /\ 1 \in DOMAIN Job[f].plan
<1>1. Job[f].plan \in Seq(Kernel) /\ Job[f].plan # <<>>
  BY BatchAssumption
<1>2. PICK s \in Seq(Kernel) : s = Job[f].plan
  BY <1>1
<1>3. s # <<>>
  BY <1>1, <1>2
<1>4. Len(s) \in Nat /\ DOMAIN s = 1..Len(s)
  OBVIOUS
<1>5. Len(s) # 0
  BY <1>3, <1>4
<1>6. QED
  BY <1>2, <1>4, <1>5

(* A task is named by its batch, handle and unit. *)
LEMMA IdParts ==
    /\ \A a, b, c : <<a, b, c>>[1] = a /\ <<a, b, c>>[2] = b /\ <<a, b, c>>[3] = c
    /\ \A a, b, c, d, e, g : <<a, b, c>> = <<d, e, g>> => a = d /\ b = e /\ c = g
  OBVIOUS

LEMMA SeqOfItsElements ==
    ASSUME NEW S, NEW s \in Seq(S)
    PROVE  s \in Seq(Range(s))
<1>1. DOMAIN s = 1..Len(s) /\ Len(s) \in Nat
  OBVIOUS
<1>2. \A k \in 1..Len(s) : s[k] \in Range(s)
  BY <1>1 DEF Range
<1> HIDE DEF Range
<1>3. QED
  BY <1>1, <1>2

(* A sequence after an append. *)
LEMMA Appended ==
    ASSUME NEW s, s \in Seq(Range(s)), NEW x
    PROVE  /\ Append(s, x) \in Seq(Range(Append(s, x)))
           /\ Len(s) \in Nat /\ DOMAIN s = 1..Len(s)
           /\ Len(Append(s, x)) = Len(s) + 1 /\ DOMAIN Append(s, x) = 1..Len(s) + 1
           /\ Append(s, x)[Len(s) + 1] = x /\ (\A k \in DOMAIN s : Append(s, x)[k] = s[k])
           /\ Range(Append(s, x)) = Range(s) \cup {x}
<1> DEFINE S == Range(s) \cup {x}
           t == Append(s, x)
<1>1. Len(s) \in Nat /\ DOMAIN s = 1..Len(s)
  OBVIOUS
<1>2. s \in Seq(S) /\ x \in S
  OBVIOUS
<1> HIDE DEF S
<1>3. /\ t \in Seq(S) /\ Len(t) = Len(s) + 1 /\ t[Len(s) + 1] = x
      /\ \A k \in 1..Len(s) : t[k] = s[k]
  BY <1>1, <1>2
<1>4. DOMAIN t = 1..Len(s) + 1
  BY <1>3
<1>5. t \in Seq(Range(t))
  BY <1>3, SeqOfItsElements
<1> HIDE DEF t
<1>6. /\ Len(s) + 1 \in DOMAIN t /\ DOMAIN s \subseteq DOMAIN t
      /\ \A k \in DOMAIN t : k \in DOMAIN s \/ k = Len(s) + 1
  BY <1>1, <1>4
<1>7. Range(t) = Range(s) \cup {x}
  BY <1>1, <1>3, <1>6 DEF Range
<1>8. QED
  BY <1>1, <1>3, <1>4, <1>5, <1>7 DEF t

-----------------------------------------------------------------------------
(* What the steps of a kernel have in common *)

ChildMoves(f) ==
    /\ ch[f].pc # "none" /\ ch'[f].pc # "none" /\ Unwritten(ch'[f])
    /\ UNCHANGED <<fe, record, entries>>
    /\ Children' /\ Scalars'
    /\ \A g \in Front \ {f} : ch'[g] = ch[g]
    /\ Todo(ch'[f]) \subseteq Todo(ch[f])

LEMMA ChildUpdate ==
    ASSUME Children, NEW f \in Front, NEW x, ch' = [ch EXCEPT ![f] = x], IsChild(x)
    PROVE  /\ Children' /\ ch'[f] = x
           /\ \A g \in Front \ {f} : ch'[g] = ch[g]
  BY DEF Children

LEMMA RunOkMoves ==
    ASSUME Children, Scalars, NEW f \in Front, Forked(f),
           RunOk(f)
    PROVE  ChildMoves(f) /\ UNCHANGED index
<1> DEFINE x == [ch[f] EXCEPT !.pc = "write", !.todo = IF TheKernel(f) \in Mpi THEN Unit ELSE {0}]
<1>1. IsChild(ch[f]) /\ ch[f].pc = "run"
  BY DEF Children, RunOk, ChildAt
<1>2. /\ IsChild(x) /\ x.pc # "none" /\ Unwritten(x) /\ Todo(x) \subseteq Todo(ch[f])
  BY <1>1, JobFacts DEF IsChild, ChildPc, Exit, Unwritten, Todo, Units
<1>3. ch' = [ch EXCEPT ![f] = x]
  BY DEF RunOk
<1> HIDE DEF x
<1>4. Children' /\ ch'[f] = x /\ \A g \in Front \ {f} : ch'[g] = ch[g]
  BY <1>2, <1>3, ChildUpdate
<1>5. Scalars'
  BY JobFacts DEF Scalars, RunOk
<1>6. QED
  BY <1>1, <1>2, <1>4, <1>5 DEF ChildMoves, RunOk

LEMMA RunFailMoves ==
    ASSUME Children, Scalars, NEW f \in Front, Forked(f), NEW exit \in {"verify", "fail"}, NEW units \in SUBSET Unit,
           RunFail(f, exit, units)
    PROVE  ChildMoves(f) /\ UNCHANGED index
<1> DEFINE x == [ch[f] EXCEPT !.pc = "write", !.exit = exit, !.todo = units]
<1>1. IsChild(ch[f]) /\ ch[f].pc = "run"
  BY DEF Children, RunFail, ChildAt
<1>2. /\ IsChild(x) /\ x.pc # "none" /\ Unwritten(x) /\ Todo(x) \subseteq Todo(ch[f])
  BY <1>1, JobFacts DEF IsChild, ChildPc, Exit, Unwritten, Todo, Units
<1>3. ch' = [ch EXCEPT ![f] = x]
  BY DEF RunFail
<1> HIDE DEF x
<1>4. Children' /\ ch'[f] = x /\ \A g \in Front \ {f} : ch'[g] = ch[g]
  BY <1>2, <1>3, ChildUpdate
<1>5. Scalars'
  BY JobFacts DEF Scalars, RunFail, Fail
<1>6. QED
  BY <1>1, <1>2, <1>4, <1>5 DEF ChildMoves, RunFail

LEMMA WriteRecordMoves ==
    ASSUME Children, Scalars, NEW f \in Front, Forked(f), NEW u \in Unit,
           WriteRecord(f, u)
    PROVE  ChildMoves(f) /\ UNCHANGED index
<1> DEFINE x == [ch[f] EXCEPT !.pc = "append", !.cur = u, !.utc = clock, !.todo = @ \ {u}]
<1>1. IsChild(ch[f]) /\ ch[f].pc = "write" /\ u \in ch[f].todo
  BY DEF Children, WriteRecord, ChildAt
<1>2. /\ IsChild(x) /\ x.pc # "none" /\ Unwritten(x) /\ Todo(x) \subseteq Todo(ch[f])
  BY <1>1, JobFacts DEF IsChild, ChildPc, Exit, Unwritten, Todo, Units
<1>3. ch' = [ch EXCEPT ![f] = x]
  BY DEF WriteRecord
<1> HIDE DEF x
<1>4. Children' /\ ch'[f] = x /\ \A g \in Front \ {f} : ch'[g] = ch[g]
  BY <1>2, <1>3, ChildUpdate
<1>5. Scalars'
  BY JobFacts DEF Scalars, WriteRecord
<1>6. QED
  BY <1>1, <1>2, <1>4, <1>5 DEF ChildMoves, WriteRecord

LEMMA WriteRecordFailMoves ==
    ASSUME Children, Scalars, NEW f \in Front, Forked(f), NEW u \in Unit,
           WriteRecordFail(f, u)
    PROVE  ChildMoves(f) /\ UNCHANGED index
<1> DEFINE x == [ch[f] EXCEPT !.todo = @ \ {u}]
<1>1. IsChild(ch[f]) /\ ch[f].pc = "write"
  BY DEF Children, WriteRecordFail, ChildAt
<1>2. /\ IsChild(x) /\ x.pc # "none" /\ Unwritten(x) /\ Todo(x) \subseteq Todo(ch[f])
  BY <1>1, JobFacts DEF IsChild, ChildPc, Exit, Unwritten, Todo, Units
<1>3. ch' = [ch EXCEPT ![f] = x]
  BY DEF WriteRecordFail
<1> HIDE DEF x
<1>4. Children' /\ ch'[f] = x /\ \A g \in Front \ {f} : ch'[g] = ch[g]
  BY <1>2, <1>3, ChildUpdate
<1>5. Scalars'
  BY JobFacts DEF Scalars, WriteRecordFail, Fail
<1>6. QED
  BY <1>1, <1>2, <1>4, <1>5 DEF ChildMoves, WriteRecordFail

LEMMA AppendBeginMoves ==
    ASSUME Children, Scalars, NEW f \in Front, Forked(f),
           AppendBegin(f)
    PROVE  ChildMoves(f) /\ UNCHANGED index
<1> DEFINE x == [ch[f] EXCEPT !.pc = "append_end"]
<1>1. IsChild(ch[f]) /\ ch[f].pc = "append" /\ Unwritten(ch[f])
  BY DEF Children, AppendBegin, ChildAt, ChildGo, Forked
<1>2. /\ IsChild(x) /\ x.pc # "none" /\ Unwritten(x) /\ Todo(x) \subseteq Todo(ch[f])
  BY <1>1, JobFacts DEF IsChild, ChildPc, Exit, Unwritten, Todo, Units
<1>3. ch' = [ch EXCEPT ![f] = x]
  BY DEF AppendBegin, ChildGo
<1> HIDE DEF x
<1>4. Children' /\ ch'[f] = x /\ \A g \in Front \ {f} : ch'[g] = ch[g]
  BY <1>2, <1>3, ChildUpdate
<1>5. Scalars'
  BY JobFacts DEF Scalars, AppendBegin
<1>6. QED
  BY <1>1, <1>2, <1>4, <1>5 DEF ChildMoves, AppendBegin

LEMMA AppendRefuseMoves ==
    ASSUME Children, Scalars, NEW f \in Front, Forked(f),
           AppendRefuse(f)
    PROVE  ChildMoves(f) /\ UNCHANGED index
<1> DEFINE x == [ch[f] EXCEPT !.pc = AfterAppend(f)]
<1>1. IsChild(ch[f]) /\ ch[f].pc = "append"
  BY DEF Children, AppendRefuse, ChildAt, ChildGo
<1>2. /\ IsChild(x) /\ x.pc # "none" /\ Unwritten(x) /\ Todo(x) \subseteq Todo(ch[f])
  BY <1>1, JobFacts DEF IsChild, ChildPc, Exit, Unwritten, Todo, Units, AfterAppend
<1>3. ch' = [ch EXCEPT ![f] = x]
  BY DEF AppendRefuse, ChildGo
<1> HIDE DEF x
<1>4. Children' /\ ch'[f] = x /\ \A g \in Front \ {f} : ch'[g] = ch[g]
  BY <1>2, <1>3, ChildUpdate
<1>5. Scalars'
  BY JobFacts DEF Scalars, AppendRefuse
<1>6. QED
  BY <1>1, <1>2, <1>4, <1>5 DEF ChildMoves, AppendRefuse

LEMMA AppendFailMoves ==
    ASSUME Children, Scalars, NEW f \in Front, Forked(f), NEW killed \in BOOLEAN,
           AppendFail(f, killed)
    PROVE  ChildMoves(f) /\ UNCHANGED index
<1> DEFINE x == [ch[f] EXCEPT !.pc = IF killed THEN "exit" ELSE AfterAppend(f),
                            !.exit = IF killed THEN "fail" ELSE @]
<1>1. IsChild(ch[f]) /\ ch[f].pc = "append_end"
  BY DEF Children, AppendFail, ChildAt
<1>2. /\ IsChild(x) /\ x.pc # "none" /\ Unwritten(x) /\ Todo(x) \subseteq Todo(ch[f])
  BY <1>1, JobFacts DEF IsChild, ChildPc, Exit, Unwritten, Todo, Units, AfterAppend
<1>3. ch' = [ch EXCEPT ![f] = x]
  BY DEF AppendFail
<1> HIDE DEF x
<1>4. Children' /\ ch'[f] = x /\ \A g \in Front \ {f} : ch'[g] = ch[g]
  BY <1>2, <1>3, ChildUpdate
<1>5. Scalars'
  BY JobFacts DEF Scalars, AppendFail, Fail
<1>6. QED
  BY <1>1, <1>2, <1>4, <1>5 DEF ChildMoves, AppendFail

LEMMA CountTaskMoves ==
    ASSUME Children, Scalars, NEW f \in Front, Forked(f),
           CountTask(f)
    PROVE  ChildMoves(f) /\ UNCHANGED index
<1> DEFINE x == [ch[f] EXCEPT !.pc = "env_row"]
<1>1. IsChild(ch[f]) /\ ch[f].pc = "env_record"
  BY DEF Children, CountTask, ChildAt, ChildGo
<1>2. /\ IsChild(x) /\ x.pc # "none" /\ Unwritten(x) /\ Todo(x) \subseteq Todo(ch[f])
  BY <1>1, JobFacts DEF IsChild, ChildPc, Exit, Unwritten, Todo, Units
<1>3. ch' = [ch EXCEPT ![f] = x]
  BY DEF CountTask, ChildGo
<1> HIDE DEF x
<1>4. Children' /\ ch'[f] = x /\ \A g \in Front \ {f} : ch'[g] = ch[g]
  BY <1>2, <1>3, ChildUpdate
<1>5. Scalars'
  BY JobFacts DEF Scalars, CountTask
<1>6. QED
  BY <1>1, <1>2, <1>4, <1>5 DEF ChildMoves, CountTask

LEMMA CountTaskRowMoves ==
    ASSUME Children, Scalars, NEW f \in Front, Forked(f),
           CountTaskRow(f)
    PROVE  ChildMoves(f) /\ UNCHANGED index
<1> DEFINE x == [ch[f] EXCEPT !.pc = "write", !.ok = @ \/ ch[f].cur = 0]
<1>1. IsChild(ch[f]) /\ ch[f].pc = "env_row"
  BY DEF Children, CountTaskRow, ChildAt
<1>2. /\ IsChild(x) /\ x.pc # "none" /\ Unwritten(x) /\ Todo(x) \subseteq Todo(ch[f])
  BY <1>1, JobFacts DEF IsChild, ChildPc, Exit, Unwritten, Todo, Units
<1>3. ch' = [ch EXCEPT ![f] = x]
  BY DEF CountTaskRow
<1> HIDE DEF x
<1>4. Children' /\ ch'[f] = x /\ \A g \in Front \ {f} : ch'[g] = ch[g]
  BY <1>2, <1>3, ChildUpdate
<1>5. Scalars'
  BY JobFacts DEF Scalars, CountTaskRow
<1>6. QED
  BY <1>1, <1>2, <1>4, <1>5 DEF ChildMoves, CountTaskRow

LEMMA CountTaskFailMoves ==
    ASSUME Children, Scalars, NEW f \in Front, Forked(f),
           CountTaskFail(f)
    PROVE  ChildMoves(f) /\ UNCHANGED index
<1> DEFINE x == [ch[f] EXCEPT !.pc = "write"]
<1>1. IsChild(ch[f]) /\ ch[f].pc \in {"env_record", "env_row"}
  BY DEF Children, CountTaskFail, ChildGo
<1>2. /\ IsChild(x) /\ x.pc # "none" /\ Unwritten(x) /\ Todo(x) \subseteq Todo(ch[f])
  BY <1>1, JobFacts DEF IsChild, ChildPc, Exit, Unwritten, Todo, Units
<1>3. ch' = [ch EXCEPT ![f] = x]
  BY DEF CountTaskFail, ChildGo
<1> HIDE DEF x
<1>4. Children' /\ ch'[f] = x /\ \A g \in Front \ {f} : ch'[g] = ch[g]
  BY <1>2, <1>3, ChildUpdate
<1>5. Scalars'
  BY JobFacts DEF Scalars, CountTaskFail, Fail
<1>6. QED
  BY <1>1, <1>2, <1>4, <1>5 DEF ChildMoves, CountTaskFail

LEMMA WrittenMoves ==
    ASSUME Children, Scalars, NEW f \in Front, Forked(f),
           Written(f)
    PROVE  ChildMoves(f) /\ UNCHANGED index
<1> DEFINE x == [ch[f] EXCEPT !.pc = "exit"]
<1>1. IsChild(ch[f]) /\ ch[f].pc = "write"
  BY DEF Children, Written, ChildAt, ChildGo
<1>2. /\ IsChild(x) /\ x.pc # "none" /\ Unwritten(x) /\ Todo(x) \subseteq Todo(ch[f])
  BY <1>1, JobFacts DEF IsChild, ChildPc, Exit, Unwritten, Todo, Units
<1>3. ch' = [ch EXCEPT ![f] = x]
  BY DEF Written, ChildGo
<1> HIDE DEF x
<1>4. Children' /\ ch'[f] = x /\ \A g \in Front \ {f} : ch'[g] = ch[g]
  BY <1>2, <1>3, ChildUpdate
<1>5. Scalars'
  BY JobFacts DEF Scalars, Written
<1>6. QED
  BY <1>1, <1>2, <1>4, <1>5 DEF ChildMoves, Written

LEMMA CreateCapsuleMoves ==
    ASSUME Children, Scalars, NEW f \in Front, Forked(f),
           CreateCapsule(f)
    PROVE  ChildMoves(f) /\ UNCHANGED index
<1> DEFINE x == [ch[f] EXCEPT !.pc = "append", !.cur = Capsule, !.utc = UtcOf(TaskId(f, 0))]
<1>1. IsChild(ch[f]) /\ ch[f].pc = "write"
  BY DEF Children, CreateCapsule, ChildAt
<1>2. /\ IsChild(x) /\ x.pc # "none" /\ Unwritten(x) /\ Todo(x) \subseteq Todo(ch[f])
  BY <1>1, JobFacts DEF IsChild, ChildPc, Exit, Unwritten, Todo, Units
<1>3. ch' = [ch EXCEPT ![f] = x]
  BY DEF CreateCapsule
<1> HIDE DEF x
<1>4. Children' /\ ch'[f] = x /\ \A g \in Front \ {f} : ch'[g] = ch[g]
  BY <1>2, <1>3, ChildUpdate
<1>5. Scalars'
  BY JobFacts DEF Scalars, CreateCapsule
<1>6. QED
  BY <1>1, <1>2, <1>4, <1>5 DEF ChildMoves, CreateCapsule

LEMMA CreateCapsuleFailMoves ==
    ASSUME Children, Scalars, NEW f \in Front, Forked(f),
           CreateCapsuleFail(f)
    PROVE  ChildMoves(f) /\ UNCHANGED index
<1> DEFINE x == [ch[f] EXCEPT !.pc = "exit"]
<1>1. IsChild(ch[f]) /\ ch[f].pc = "write"
  BY DEF Children, CreateCapsuleFail, ChildAt, ChildGo
<1>2. /\ IsChild(x) /\ x.pc # "none" /\ Unwritten(x) /\ Todo(x) \subseteq Todo(ch[f])
  BY <1>1, JobFacts DEF IsChild, ChildPc, Exit, Unwritten, Todo, Units
<1>3. ch' = [ch EXCEPT ![f] = x]
  BY DEF CreateCapsuleFail, ChildGo
<1> HIDE DEF x
<1>4. Children' /\ ch'[f] = x /\ \A g \in Front \ {f} : ch'[g] = ch[g]
  BY <1>2, <1>3, ChildUpdate
<1>5. Scalars'
  BY JobFacts DEF Scalars, CreateCapsuleFail, Fail
<1>6. QED
  BY <1>1, <1>2, <1>4, <1>5 DEF ChildMoves, CreateCapsuleFail

LEMMA LinkFailMoves ==
    ASSUME Children, Scalars, NEW f \in Front, Forked(f), NEW u \in Unit,
           LinkFail(f, u)
    PROVE  ChildMoves(f) /\ UNCHANGED index
<1> DEFINE x == [ch[f] EXCEPT !.todo = @ \ {u}]
<1>1. IsChild(ch[f]) /\ ch[f].pc = "link"
  BY DEF Children, LinkFail, ChildAt
<1>2. /\ IsChild(x) /\ x.pc # "none" /\ Unwritten(x) /\ Todo(x) \subseteq Todo(ch[f])
  BY <1>1, JobFacts DEF IsChild, ChildPc, Exit, Unwritten, Todo, Units
<1>3. ch' = [ch EXCEPT ![f] = x]
  BY DEF LinkFail
<1> HIDE DEF x
<1>4. Children' /\ ch'[f] = x /\ \A g \in Front \ {f} : ch'[g] = ch[g]
  BY <1>2, <1>3, ChildUpdate
<1>5. Scalars'
  BY JobFacts DEF Scalars, LinkFail
<1>6. QED
  BY <1>1, <1>2, <1>4, <1>5 DEF ChildMoves, LinkFail

LEMMA LinkedMoves ==
    ASSUME Children, Scalars, NEW f \in Front, Forked(f),
           Linked(f)
    PROVE  ChildMoves(f) /\ UNCHANGED index
<1> DEFINE x == [ch[f] EXCEPT !.pc = "exit"]
<1>1. IsChild(ch[f]) /\ ch[f].pc = "link"
  BY DEF Children, Linked, ChildAt, ChildGo
<1>2. /\ IsChild(x) /\ x.pc # "none" /\ Unwritten(x) /\ Todo(x) \subseteq Todo(ch[f])
  BY <1>1, JobFacts DEF IsChild, ChildPc, Exit, Unwritten, Todo, Units
<1>3. ch' = [ch EXCEPT ![f] = x]
  BY DEF Linked, ChildGo
<1> HIDE DEF x
<1>4. Children' /\ ch'[f] = x /\ \A g \in Front \ {f} : ch'[g] = ch[g]
  BY <1>2, <1>3, ChildUpdate
<1>5. Scalars'
  BY JobFacts DEF Scalars, Linked
<1>6. QED
  BY <1>1, <1>2, <1>4, <1>5 DEF ChildMoves, Linked

LEMMA AppendEndMoves ==
    ASSUME Children, Scalars, NEW f \in Front, Forked(f),
           AppendEnd(f)
    PROVE  /\ ChildMoves(f) /\ index' = Append(index, NewRow(f))
           /\ ch[f].cur \in Todo(ch[f]) /\ ch[f].cur \notin Todo(ch'[f])
<1> DEFINE x == [ch[f] EXCEPT !.pc = IF ch[f].cur = Capsule THEN "link" ELSE "env_record",
                            !.todo = IF ch[f].cur = Capsule THEN Unit ELSE @]
<1>1. IsChild(ch[f]) /\ ch[f].pc = "append_end" /\ Unwritten(ch[f])
  BY DEF Children, AppendEnd, ChildAt, Forked
<1>2. /\ IsChild(x) /\ x.pc # "none" /\ Unwritten(x) /\ Todo(x) \subseteq Todo(ch[f])
      /\ ch[f].cur \in Todo(ch[f]) /\ ch[f].cur \notin Todo(x)
  BY <1>1, JobFacts DEF IsChild, ChildPc, Exit, Unwritten, Todo, Units
<1>3. ch' = [ch EXCEPT ![f] = x]
  BY DEF AppendEnd
<1> HIDE DEF x
<1>4. Children' /\ ch'[f] = x /\ \A g \in Front \ {f} : ch'[g] = ch[g]
  BY <1>2, <1>3, ChildUpdate
<1>5. Scalars'
  BY JobFacts DEF Scalars, AppendEnd
<1>6. QED
  BY <1>1, <1>2, <1>4, <1>5 DEF ChildMoves, AppendEnd

LEMMA LinkMoves ==
    ASSUME Children, Scalars, NEW f \in Front, Forked(f), NEW u \in Unit,
           Link(f, u)
    PROVE  ChildMoves(f)
<1> DEFINE x == [ch[f] EXCEPT !.todo = @ \ {u}]
<1>1. IsChild(ch[f]) /\ ch[f].pc = "link"
  BY DEF Children, Link, ChildAt
<1>2. /\ IsChild(x) /\ x.pc # "none" /\ Unwritten(x) /\ Todo(x) \subseteq Todo(ch[f])
  BY <1>1, JobFacts DEF IsChild, ChildPc, Exit, Unwritten, Todo, Units
<1>3. ch' = [ch EXCEPT ![f] = x]
  BY DEF Link
<1> HIDE DEF x
<1>4. Children' /\ ch'[f] = x /\ \A g \in Front \ {f} : ch'[g] = ch[g]
  BY <1>2, <1>3, ChildUpdate
<1>5. Scalars'
  BY JobFacts DEF Scalars, Link
<1>6. QED
  BY <1>1, <1>2, <1>4, <1>5 DEF ChildMoves, Link
-----------------------------------------------------------------------------
(* What the steps of a front end have in common *)

FrontMoves(f) ==
    /\ UNCHANGED index /\ Types'
    /\ \A g \in Front \ {f} : fe'[g] = fe[g] /\ ch'[g] = ch[g] /\ record'[g] = record[g]
    /\ fe[f].h < fe'[f].h \/ (fe[f].h = fe'[f].h /\ Left(f)' \subseteq Left(f))
    /\ Forked(f)' /\ Fresh(f)' /\ Ending(f)'
    /\ fe[f].pc # "done"

LEMMA FrontUpdate ==
    ASSUME Fronts, NEW f \in Front, NEW x, fe' = [fe EXCEPT ![f] = x], IsFront(f, x)
    PROVE  /\ Fronts' /\ fe'[f] = x
           /\ \A g \in Front \ {f} : fe'[g] = fe[g]
  BY DEF Fronts

LEMMA RecordUpdate ==
    ASSUME Records, NEW f \in Front, NEW x, record' = [record EXCEPT ![f] = x], IsRecord(x)
    PROVE  /\ Records' /\ record'[f] = x
           /\ \A g \in Front \ {f} : record'[g] = record[g]
  BY DEF Records

(* The snapshot and what is collected from it, while neither changes. *)
LEMMA SnapshotKept ==
    ASSUME NEW f \in Front, UNCHANGED index, fe'[f].snap = fe[f].snap, Snapshot(f)
    PROVE  Snapshot(f)'
  BY DEF Snapshot

LEMMA SeenKept ==
    ASSUME NEW f \in Front, fe'[f].snap = fe[f].snap, fe'[f].pos = fe[f].pos,
           fe'[f].utc = fe[f].utc
    PROVE  Seen(f)' = Seen(f) /\ Ids(f)' = Ids(f) /\ Kernels(f)' = Kernels(f)
<1>1. Seen(f)' = Seen(f)
  BY DEF Seen, EntryPoint
<1>2. QED
  BY <1>1 DEF Ids, Kernels

LEMMA LoopKept ==
    ASSUME NEW f \in Front, fe'[f].snap = fe[f].snap, fe'[f].pos = fe[f].pos,
           fe'[f].utc = fe[f].utc, fe'[f].ntask = fe[f].ntask,
           fe'[f].nkernel = fe[f].nkernel, record'[f] = record[f],
           fe'[f].pc \in Late => fe[f].pc \in Late, Loop(f)
    PROVE  Loop(f)'
<1>1. Ids(f)' = Ids(f) /\ Kernels(f)' = Kernels(f)
  BY SeenKept
<1>2. QED
  BY <1>1 DEF Loop

(* A step that moves only the front end's position. *)
LEMMA PcMoves ==
    ASSUME Types, NEW f \in Front, Forked(f), Fresh(f), Ending(f), NEW p \in FrontPc,
           fe' = [fe EXCEPT ![f].pc = p], UNCHANGED <<ch, index, record>>, Scalars',
           fe[f].pc # "done", p \notin {"new", "spawn"},
           ch[f].pc # "none" => p \in {"wait", "dead"},
           p \in Early => fe[f].pc \in Early \ {"new"},
           p \in Ended => fe[f].pc \in Ended,
           p \in Late => fe[f].pc \in Late
    PROVE  FrontMoves(f) /\ fe'[f] = [fe[f] EXCEPT !.pc = p]
<1> DEFINE x == [fe[f] EXCEPT !.pc = p]
<1>1. IsFront(f, fe[f]) /\ Fronts /\ Children /\ Records
  BY DEF Types, Fronts
<1>2. /\ IsFront(f, x) /\ x.pc = p /\ x.h = fe[f].h /\ x.utc = fe[f].utc /\ x.pos = fe[f].pos
      /\ x.snap = fe[f].snap /\ x.ntask = fe[f].ntask /\ x.nkernel = fe[f].nkernel
  BY <1>1 DEF IsFront
<1>3. fe' = [fe EXCEPT ![f] = x]
  OBVIOUS
<1> HIDE DEF x
<1>4. Fronts' /\ fe'[f] = x /\ \A g \in Front \ {f} : fe'[g] = fe[g]
  BY <1>1, <1>2, <1>3, FrontUpdate
<1>5. Types'
  BY <1>1, <1>4 DEF Types, Children, Records
<1>6. Left(f)' \subseteq Left(f)
  BY <1>2, <1>4 DEF Left
<1>7. Forked(f)'
  BY <1>2, <1>4 DEF Forked
<1>8. Fresh(f)'
  BY <1>2, <1>4 DEF Fresh, Early, Ended, Late
<1>9. Ending(f)'
  BY <1>2, <1>4, SnapshotKept, LoopKept DEF Ending
<1>10. QED
  BY <1>2, <1>4, <1>5, <1>6, <1>7, <1>8, <1>9 DEF FrontMoves, x
(* The failures of a front end, and its last steps.  *)
LEMMA PlainFrontSteps ==
    ASSUME Types, NEW f \in Front, Forked(f), Fresh(f), Ending(f),
           \/ BeginFail(f) \/ SpawnFail(f) \/ ScanFail(f) \/ EndFail(f) \/ Killed(f)
           \/ CountBatch(f) \/ CountBatchRow(f) \/ Publish(f)
    PROVE  FrontMoves(f)
<1> USE DEF At, Go
<1>1. Scalars /\ fe[f].pc \in FrontPc
  BY DEF Types, Fronts, IsFront
<1>2. ch[f].pc = "none" \/ fe[f].pc \in {"wait", "dead"}
  BY DEF Forked
<1>3. CASE BeginFail(f)
  <2>1. Scalars'
    BY <1>1, <1>3, JobFacts DEF Scalars, BeginFail, Fail
  <2>2. QED
    BY <1>2, <1>3, <2>1, PcMoves DEF BeginFail, FrontPc, Early, Ended, Late
<1>4. CASE SpawnFail(f)
  <2>1. Scalars'
    BY <1>1, <1>4, JobFacts DEF Scalars, SpawnFail, Fail
  <2>2. PICK p \in {"scan", "failed"} : p = OnError(f, "fail")
    BY DEF OnError
  <2>3. QED
    BY <1>2, <1>4, <2>1, <2>2, PcMoves DEF SpawnFail, FrontPc, Early, Ended, Late
<1>5. CASE ScanFail(f)
  <2>1. Scalars'
    BY <1>1, <1>5, JobFacts DEF Scalars, ScanFail
  <2>2. QED
    BY <1>2, <1>5, <2>1, PcMoves DEF ScanFail, FrontPc, Early, Ended, Late
<1>6. CASE EndFail(f)
  <2>1. Scalars'
    BY <1>1, <1>6, JobFacts DEF Scalars, EndFail, Fail
  <2>2. QED
    BY <1>2, <1>6, <2>1, PcMoves DEF EndFail, FrontPc, Early, Ended, Late
<1>7. CASE Killed(f)
  <2>1. Scalars'
    BY <1>1, <1>7, JobFacts DEF Scalars, Killed, Fail
  <2>2. QED
    BY <1>2, <1>7, <2>1, PcMoves DEF Killed, FrontPc, Early, Ended, Late
<1>8. CASE CountBatch(f) \/ CountBatchRow(f) \/ Publish(f)
  <2>1. Scalars'
    BY <1>1, <1>8 DEF Scalars, CountBatch, CountBatchRow, Publish
  <2>2. QED
    BY <1>2, <1>8, <2>1, PcMoves
       DEF CountBatch, CountBatchRow, Publish, FrontPc, Early, Ended, Late
<1>9. QED
  BY <1>3, <1>4, <1>5, <1>6, <1>7, <1>8

LEMMA BeginMoves ==
    ASSUME Types, NEW f \in Front, Forked(f), Fresh(f), Begin(f)
    PROVE  FrontMoves(f)
<1> DEFINE x == [fe[f] EXCEPT !.pc = "spawn", !.utc = clock]
           y == Skeleton
<1>1. /\ IsFront(f, fe[f]) /\ IsRecord(record[f]) /\ fe[f].pc = "new" /\ ch[f].pc = "none"
      /\ Fronts /\ Records /\ Children /\ Scalars
  BY DEF Types, Fronts, Records, Begin, At, Forked
<1>2. /\ IsFront(f, x) /\ x.pc = "spawn" /\ x.h = fe[f].h /\ x.ntask = fe[f].ntask
      /\ x.nkernel = fe[f].nkernel
  BY <1>1 DEF IsFront, FrontPc
<1>3. IsRecord(y) /\ y.live = TRUE /\ y.ids = record[f].ids
  BY <1>1 DEF IsRecord, Skeleton, Fresh, Early
<1>4. fe' = [fe EXCEPT ![f] = x] /\ record' = [record EXCEPT ![f] = y]
  BY DEF Begin
<1> HIDE DEF x, y
<1>5. Fronts' /\ fe'[f] = x /\ \A g \in Front \ {f} : fe'[g] = fe[g]
  BY <1>1, <1>2, <1>4, FrontUpdate
<1>6. Records' /\ record'[f] = y /\ \A g \in Front \ {f} : record'[g] = record[g]
  BY <1>1, <1>3, <1>4, RecordUpdate
<1>7. Types' /\ UNCHANGED <<ch, index>>
  BY <1>1, <1>5, <1>6 DEF Types, Children, Scalars, Begin
<1>8. Left(f)' \subseteq Left(f) /\ Forked(f)'
  BY <1>1, <1>2, <1>5, <1>7 DEF Left, Forked, Unwritten
<1>9. Fresh(f)' /\ Ending(f)'
  BY <1>1, <1>2, <1>3, <1>5, <1>6 DEF Fresh, Ending, Early, Ended, Late
<1>10. QED
  BY <1>1, <1>2, <1>5, <1>6, <1>7, <1>8, <1>9 DEF FrontMoves

LEMMA SpawnMoves ==
    ASSUME Types, NEW f \in Front, Forked(f), Fresh(f), Spawn(f)
    PROVE  FrontMoves(f)
<1> DEFINE x == [fe[f] EXCEPT !.pc = "wait"]
           y == [pc |-> "run", exit |-> "ok", todo |-> {}, cur |-> 0, utc |-> 0, ok |-> FALSE]
<1>1. /\ IsFront(f, fe[f]) /\ fe[f].pc = "spawn" /\ ch[f].pc = "none"
      /\ Fronts /\ Records /\ Children /\ Scalars
  BY DEF Types, Fronts, Spawn, At, ChildAt
<1>2. /\ IsFront(f, x) /\ x.pc = "wait" /\ x.h = fe[f].h /\ x.ntask = fe[f].ntask
      /\ x.nkernel = fe[f].nkernel
  BY <1>1 DEF IsFront, FrontPc
<1>3. IsChild(y) /\ y.pc = "run"
  BY JobFacts DEF IsChild, ChildPc, Exit, Units
<1>4. fe' = [fe EXCEPT ![f] = x] /\ ch' = [ch EXCEPT ![f] = y]
  BY DEF Spawn, Go
<1> HIDE DEF x, y
<1>5. Fronts' /\ fe'[f] = x /\ \A g \in Front \ {f} : fe'[g] = fe[g]
  BY <1>1, <1>2, <1>4, FrontUpdate
<1>6. Children' /\ ch'[f] = y /\ \A g \in Front \ {f} : ch'[g] = ch[g]
  BY <1>1, <1>3, <1>4, ChildUpdate
<1>7. Types' /\ UNCHANGED <<record, index>>
  BY <1>1, <1>5, <1>6 DEF Types, Records, Scalars, Spawn
<1>8. Left(f)' \subseteq Left(f) /\ Forked(f)'
  BY <1>1, <1>2, <1>3, <1>5, <1>6 DEF Left, Todo, Forked, Unwritten
<1>9. Fresh(f)' /\ Ending(f)'
  BY <1>1, <1>2, <1>3, <1>5, <1>7 DEF Fresh, Ending, Early, Ended, Late
<1>10. QED
  BY <1>1, <1>2, <1>5, <1>6, <1>7, <1>8, <1>9 DEF FrontMoves

LEMMA ReapMoves ==
    ASSUME Types, NEW f \in Front, Forked(f), Fresh(f), Reap(f)
    PROVE  FrontMoves(f)
<1> DEFINE last == Len(Job[f].plan)
           p == IF ch[f].exit # "ok" THEN OnError(f, ch[f].exit)
                ELSE IF fe[f].h < last THEN "spawn" ELSE "scan"
           h == IF ch[f].exit = "ok" /\ fe[f].h < last THEN fe[f].h + 1 ELSE fe[f].h
           x == [fe[f] EXCEPT !.pc = p, !.h = h]
           y == [ch[f] EXCEPT !.pc = "none"]
<1>1. /\ IsFront(f, fe[f]) /\ IsChild(ch[f]) /\ fe[f].pc = "wait" /\ ch[f].pc = "exit"
      /\ Fronts /\ Records /\ Children /\ Scalars
  BY DEF Types, Fronts, Children, Reap, At, ChildAt
<1>2. last \in Nat /\ DOMAIN Job[f].plan = 1..last /\ fe[f].h \in DOMAIN Job[f].plan
  BY <1>1, PlanFacts DEF IsFront
<1> HIDE DEF last
<1>3. /\ h \in DOMAIN Job[f].plan /\ p \in {"spawn", "scan", "failed"}
      /\ p = "spawn" => fe[f].h < h
      /\ p # "spawn" => h = fe[f].h
  <2>1. CASE ch[f].exit # "ok"
    BY <1>2, <2>1 DEF OnError
  <2>2. CASE ch[f].exit = "ok" /\ fe[f].h < last
    BY <1>2, <2>2
  <2>3. CASE ch[f].exit = "ok" /\ ~(fe[f].h < last)
    BY <1>2, <2>3
  <2>4. QED
    BY <2>1, <2>2, <2>3
<1>4. fe' = [fe EXCEPT ![f] = x] /\ ch' = [ch EXCEPT ![f] = y]
  BY <1>1 DEF Reap, ChildGo, last, Fronts, IsFront
<1> HIDE DEF p, h
<1>5. /\ IsFront(f, x) /\ x.pc = p /\ x.h = h /\ x.ntask = fe[f].ntask
      /\ x.nkernel = fe[f].nkernel
  BY <1>1, <1>3 DEF IsFront, FrontPc
<1>6. IsChild(y) /\ y.pc = "none"
  BY <1>1 DEF IsChild, ChildPc
<1> HIDE DEF x, y
<1>7. Fronts' /\ fe'[f] = x /\ \A g \in Front \ {f} : fe'[g] = fe[g]
  BY <1>1, <1>5, <1>4, FrontUpdate
<1>8. Children' /\ ch'[f] = y /\ \A g \in Front \ {f} : ch'[g] = ch[g]
  BY <1>1, <1>6, <1>4, ChildUpdate
<1>9. Types' /\ UNCHANGED <<record, index>>
  BY <1>1, <1>7, <1>8 DEF Types, Records, Scalars, Reap
<1>10. Forked(f)' /\ (p # "spawn" => Left(f)' \subseteq Left(f))
  BY <1>3, <1>5, <1>6, <1>7, <1>8 DEF Left, Forked, Unwritten
<1>11. Fresh(f)' /\ Ending(f)'
  BY <1>1, <1>3, <1>5, <1>7, <1>9 DEF Fresh, Ending, Early, Ended, Late
<1>12. QED
  BY <1>1, <1>3, <1>5, <1>7, <1>8, <1>9, <1>10, <1>11 DEF FrontMoves
(* The list of the index: nothing is collected yet. *)
LEMMA ScanMoves ==
    ASSUME Types, IndexType, NEW f \in Front, Forked(f), Fresh(f), Scan(f)
    PROVE  FrontMoves(f)
<1> DEFINE x == [fe[f] EXCEPT !.pc = "collect", !.snap = index, !.pos = 1]
<1>1. /\ IsFront(f, fe[f]) /\ fe[f].pc = "scan" /\ ch[f].pc = "none"
      /\ Fronts /\ Records /\ Children /\ Scalars
  BY DEF Types, Fronts, Scan, At, Forked
<1>2. /\ IsFront(f, x) /\ x.pc = "collect" /\ x.h = fe[f].h /\ x.snap = index /\ x.pos = 1
      /\ x.ntask = fe[f].ntask /\ x.nkernel = fe[f].nkernel
  BY <1>1 DEF IsFront, FrontPc
<1>3. fe' = [fe EXCEPT ![f] = x]
  BY DEF Scan
<1> HIDE DEF x
<1>4. Fronts' /\ fe'[f] = x /\ \A g \in Front \ {f} : fe'[g] = fe[g]
  BY <1>1, <1>2, <1>3, FrontUpdate
<1>5. Types' /\ UNCHANGED <<ch, record, index>>
  BY <1>1, <1>4 DEF Types, Children, Records, Scalars, Scan
<1>6. Left(f)' \subseteq Left(f) /\ Forked(f)'
  BY <1>1, <1>2, <1>4, <1>5 DEF Left, Forked, Unwritten
<1>7. Fresh(f)' /\ record[f].ids = <<>> /\ fe[f].ntask = 0 /\ fe[f].nkernel = 0
  BY <1>1, <1>2, <1>4, <1>5 DEF Fresh, Early, Ended, Late
<1>8. Snapshot(f)'
  BY <1>2, <1>4, <1>5 DEF Snapshot, IndexType
<1>9. Loop(f)'
  <2>1. Seen(f)' = {}
    <3>1. \A k \in DOMAIN index : k \in Nat /\ k >= 1
      BY DEF IndexType
    <3>2. QED
      BY <1>2, <1>4, <3>1 DEF Seen
  <2>2. Ids(f)' = {} /\ Kernels(f)' = {}
    BY <2>1 DEF Ids, Kernels
  <2>3. IsFiniteSet({}) /\ Cardinality({}) = 0
    BY FS_EmptySet
  <2>4. /\ Len(<<>>) = 0 /\ <<>> \in Seq({}) /\ Range(<<>>) = {}
    BY DEF Range
  <2>5. /\ fe'[f].pc \notin Late /\ fe'[f].ntask = 0 /\ fe'[f].nkernel = 0 /\ fe'[f].pos = 1
        /\ record'[f].ids = <<>>
    BY <1>2, <1>4, <1>5, <1>7 DEF Late
  <2>6. QED
    BY <2>2, <2>3, <2>4, <2>5 DEF Loop
<1>10. QED
  BY <1>1, <1>2, <1>4, <1>5, <1>6, <1>7, <1>8, <1>9 DEF FrontMoves, Ending

LEMMA PatchMoves ==
    ASSUME Types, NEW f \in Front, Forked(f), Fresh(f), Ending(f), PatchCounters(f)
    PROVE  FrontMoves(f)
<1> DEFINE x == [fe[f] EXCEPT !.pc = "env_record"]
           y == [record[f] EXCEPT !.ntask = fe[f].ntask, !.nkernel = fe[f].nkernel]
<1>1. /\ IsFront(f, fe[f]) /\ IsRecord(record[f]) /\ fe[f].pc = "collect" /\ ch[f].pc = "none"
      /\ Fronts /\ Records /\ Children /\ Scalars
  BY DEF Types, Fronts, Records, PatchCounters, At, Forked
<1>2. /\ IsFront(f, x) /\ x.pc = "env_record" /\ x.h = fe[f].h /\ x.utc = fe[f].utc
      /\ x.snap = fe[f].snap /\ x.pos = fe[f].pos
      /\ x.ntask = fe[f].ntask /\ x.nkernel = fe[f].nkernel
  BY <1>1 DEF IsFront, FrontPc
<1>3. /\ IsRecord(y) /\ y.live = record[f].live /\ y.ids = record[f].ids
      /\ y.ntask = fe[f].ntask /\ y.nkernel = fe[f].nkernel
  BY <1>1 DEF IsRecord, IsFront
<1>4. fe' = [fe EXCEPT ![f] = x] /\ record' = [record EXCEPT ![f] = y]
  BY DEF PatchCounters, Go
<1> HIDE DEF x, y
<1>5. Fronts' /\ fe'[f] = x /\ \A g \in Front \ {f} : fe'[g] = fe[g]
  BY <1>1, <1>2, <1>4, FrontUpdate
<1>6. Records' /\ record'[f] = y /\ \A g \in Front \ {f} : record'[g] = record[g]
  BY <1>1, <1>3, <1>4, RecordUpdate
<1>7. Types' /\ UNCHANGED <<ch, index>>
  BY <1>1, <1>5, <1>6 DEF Types, Children, Scalars, PatchCounters
<1>8. Left(f)' \subseteq Left(f) /\ Forked(f)'
  BY <1>1, <1>2, <1>5, <1>7 DEF Left, Forked, Unwritten
<1>9. Fresh(f)'
  BY <1>1, <1>2, <1>3, <1>5, <1>6 DEF Fresh, Early, Ended, Late
<1>10. Snapshot(f) /\ Loop(f)
  BY <1>1 DEF Ending, Ended
<1>11. Snapshot(f)'
  BY <1>2, <1>5, <1>7, <1>10, SnapshotKept
<1>12. Loop(f)'
  <2>1. Ids(f)' = Ids(f) /\ Kernels(f)' = Kernels(f)
    BY <1>2, <1>5, SeenKept
  <2>2. fe[f].pos > Len(fe[f].snap)
    BY DEF PatchCounters
  <2>3. QED
    BY <1>2, <1>3, <1>5, <1>6, <1>10, <2>1, <2>2 DEF Loop
<1>13. QED
  BY <1>1, <1>2, <1>5, <1>6, <1>7, <1>8, <1>9, <1>11, <1>12 DEF FrontMoves, Ending
(* The rows before the next position: one more, if it counts. *)
LEMMA SeenNext ==
    ASSUME NEW f \in Front, Snapshot(f), fe[f].pos \in Nat, fe[f].pos >= 1,
           fe[f].pos <= Len(fe[f].snap), fe'[f].snap = fe[f].snap,
           fe'[f].pos = fe[f].pos + 1, fe'[f].utc = fe[f].utc
    PROVE  LET row == fe[f].snap[fe[f].pos] IN
           /\ fe[f].pos \in DOMAIN fe[f].snap
           /\ Seen(f)' = IF EntryPoint(f, row) THEN Seen(f) \cup {fe[f].pos} ELSE Seen(f)
           /\ Ids(f)' = IF EntryPoint(f, row) THEN Ids(f) \cup {row.id} ELSE Ids(f)
           /\ Kernels(f)' = IF EntryPoint(f, row) THEN Kernels(f) \cup {row.kernel}
                                                  ELSE Kernels(f)
<1> DEFINE n == fe[f].pos
           snap == fe[f].snap
<1>1. DOMAIN snap = 1..Len(snap) /\ Len(snap) \in Nat
  BY DEF Snapshot
<1>2. n \in DOMAIN snap /\ \A k \in DOMAIN snap : k \in Nat /\ (k < n + 1 <=> k < n \/ k = n)
  BY <1>1
<1>3. Seen(f)' = {k \in DOMAIN snap : k < n + 1 /\ EntryPoint(f, snap[k])}
  BY DEF Seen, EntryPoint
<1>4. Seen(f) = {k \in DOMAIN snap : k < n /\ EntryPoint(f, snap[k])}
  BY DEF Seen
<1>5. Seen(f)' = IF EntryPoint(f, snap[n]) THEN Seen(f) \cup {n} ELSE Seen(f)
  BY <1>2, <1>3, <1>4
<1>6. Ids(f)' = {snap[k].id : k \in Seen(f)'} /\ Kernels(f)' = {snap[k].kernel : k \in Seen(f)'}
  BY DEF Ids, Kernels
<1>7. QED
  BY <1>2, <1>5, <1>6 DEF Ids, Kernels

(* The row at the position is not collected yet, as no two rows of the     *)
(* batch have one identifier; its kernel is new if no earlier row counts   *)
(* with it.                                                                *)
LEMMA RowIsNew ==
    ASSUME NEW f \in Front, Snapshot(f), Rows, fe[f].pos \in DOMAIN fe[f].snap,
           EntryPoint(f, fe[f].snap[fe[f].pos])
    PROVE  LET row == fe[f].snap[fe[f].pos] IN
           /\ row.id \notin Ids(f)
           /\ row.kernel \in Kernels(f) <=>
                  \E j \in 1..fe[f].pos - 1 :
                      EntryPoint(f, fe[f].snap[j]) /\ fe[f].snap[j].kernel = row.kernel
<1> DEFINE n == fe[f].pos
           snap == fe[f].snap
<1>1. DOMAIN snap = 1..Len(snap) /\ Len(snap) \in Nat
  BY DEF Snapshot
<1>2. \A k \in DOMAIN snap : EntryPoint(f, snap[k]) => snap[k] = index[k] /\ k \in DOMAIN index
  BY DEF Snapshot, EntryPoint
<1>3. ASSUME NEW k \in Seen(f), snap[k].id = snap[n].id
      PROVE  FALSE
  <2>1. k \in DOMAIN snap /\ k < n /\ EntryPoint(f, snap[k])
    BY <1>3 DEF Seen
  <2>2. index[k].id = index[n].id /\ k \in DOMAIN index /\ n \in DOMAIN index
    BY <1>2, <1>3, <2>1
  <2>3. k = n
    BY <2>2 DEF Rows
  <2>4. QED
    BY <1>1, <2>1, <2>3
<1>4. \A j : j \in Seen(f) <=> j \in 1..n - 1 /\ EntryPoint(f, snap[j])
  BY <1>1 DEF Seen
<1>5. QED
  BY <1>3, <1>4 DEF Ids, Kernels

(* The byte that tpb_raf_record_append_tbatch patches lies in the note. *)
LEMMA DimIsNote == FieldAt(HdrDim0Off) = "note"
  BY DEF FieldAt, HdrDim0Off

LEMMA CollectMoves ==
    ASSUME Types, Rows, NEW f \in Front, Forked(f), Fresh(f), Ending(f), Collect(f)
    PROVE  FrontMoves(f)
<1> DEFINE n == fe[f].pos
           snap == fe[f].snap
           row == snap[n]
           first == \A j \in 1..n - 1 : ~(EntryPoint(f, snap[j]) /\ snap[j].kernel = row.kernel)
<1>1. /\ IsFront(f, fe[f]) /\ IsRecord(record[f]) /\ fe[f].pc = "collect" /\ ch[f].pc = "none"
      /\ Fronts /\ Records /\ Children /\ Scalars /\ n \in Nat
  BY DEF Types, Fronts, Records, Collect, At, Forked, IsFront
<1>2. Snapshot(f) /\ Loop(f)
  BY <1>1 DEF Ending, Ended
<1>3. n >= 1 /\ n <= Len(snap) /\ UNCHANGED <<ch, index>> /\ Scalars'
  BY <1>1, <1>2 DEF Loop, Collect, Scalars
<1>4. n \in DOMAIN snap
  BY <1>1, <1>2, <1>3 DEF Snapshot
<1>5. CASE ~EntryPoint(f, row)
  <2> DEFINE x == [fe[f] EXCEPT !.pos = n + 1]
  <2>1. fe' = [fe EXCEPT ![f] = x] /\ record' = record
    BY <1>5 DEF Collect
  <2>2. /\ IsFront(f, x) /\ x.pc = "collect" /\ x.h = fe[f].h /\ x.utc = fe[f].utc
        /\ x.snap = snap /\ x.pos = n + 1
        /\ x.ntask = fe[f].ntask /\ x.nkernel = fe[f].nkernel
    BY <1>1 DEF IsFront, FrontPc
  <2> HIDE DEF x
  <2>3. Fronts' /\ fe'[f] = x /\ \A g \in Front \ {f} : fe'[g] = fe[g]
    BY <1>1, <2>1, <2>2, FrontUpdate
  <2>4. Types'
    BY <1>1, <1>3, <2>1, <2>3 DEF Types, Children, Records
  <2>5. Left(f)' \subseteq Left(f) /\ Forked(f)' /\ Fresh(f)'
    BY <1>1, <1>3, <2>1, <2>2, <2>3 DEF Left, Forked, Unwritten, Fresh, Early, Ended, Late
  <2>6. Snapshot(f)'
    BY <1>2, <1>3, <2>2, <2>3, SnapshotKept
  <2>7. Ids(f)' = Ids(f) /\ Kernels(f)' = Kernels(f)
    BY <1>1, <1>2, <1>3, <1>5, <2>2, <2>3, SeenNext
  <2>8. Loop(f)'
    BY <1>1, <1>2, <2>1, <2>2, <2>3, <2>7 DEF Loop, Late
  <2>9. QED
    BY <1>1, <1>3, <2>1, <2>2, <2>3, <2>4, <2>5, <2>6, <2>8 DEF FrontMoves, Ending
<1>6. CASE EntryPoint(f, row)
  <2> DEFINE kernels == IF first THEN fe[f].nkernel + 1 ELSE fe[f].nkernel
             next == n + 1
             tasks == fe[f].ntask + 1
             x == [fe[f] EXCEPT !.pos = next, !.ntask = tasks, !.nkernel = kernels]
             ids == Append(record[f].ids, row.id)
             y == [record[f] EXCEPT !.ids = ids, !["note"] = Len(record[f].ids) + 1]
  <2>1. fe' = [fe EXCEPT ![f] = x] /\ record' = [record EXCEPT ![f] = y]
    <3>1. record' = [record EXCEPT ![f].ids = Append(@, row.id),
                                   ![f]["note"] = Len(record[f].ids) + 1]
      BY <1>6, DimIsNote DEF Collect, Collected
    <3>2. fe' = [fe EXCEPT ![f].pos = @ + 1, ![f].ntask = @ + 1,
                           ![f].nkernel = IF first THEN @ + 1 ELSE @]
      BY <1>6 DEF Collect
    <3> HIDE DEF row, first
    <3>3. fe' = [fe EXCEPT ![f] = x]
      BY <1>1, <3>2 DEF Fronts, IsFront
    <3>4. record' = [record EXCEPT ![f] = y]
      BY <1>1, <3>1 DEF Records, IsRecord
    <3>5. QED
      BY <3>3, <3>4
  <2>2. fe[f].ntask \in Nat /\ fe[f].nkernel \in Nat /\ kernels \in Nat
        /\ next \in Nat /\ tasks \in Nat
    BY <1>1 DEF IsFront
  <2> HIDE DEF kernels, ids, next, tasks
  <2>3. /\ IsFront(f, x) /\ x.pc = "collect" /\ x.h = fe[f].h /\ x.utc = fe[f].utc
        /\ x.snap = snap /\ x.pos = next /\ x.ntask = tasks /\ x.nkernel = kernels
    BY <1>1, <2>2 DEF IsFront, FrontPc
  <2>4. IsRecord(y) /\ y.live = record[f].live /\ y.ids = ids
    BY <1>1 DEF IsRecord
  <2> HIDE DEF x, y
  <2>5. Fronts' /\ fe'[f] = x /\ \A g \in Front \ {f} : fe'[g] = fe[g]
    BY <1>1, <2>1, <2>3, FrontUpdate
  <2>6. Records' /\ record'[f] = y /\ \A g \in Front \ {f} : record'[g] = record[g]
    BY <1>1, <2>1, <2>4, RecordUpdate
  <2>7. Types'
    BY <1>1, <1>3, <2>5, <2>6 DEF Types, Children
  <2>8. Left(f)' \subseteq Left(f) /\ Forked(f)' /\ Fresh(f)'
    BY <1>1, <1>3, <2>3, <2>4, <2>5, <2>6 DEF Left, Forked, Unwritten, Fresh, Early, Ended, Late
  <2>9. Snapshot(f)'
    BY <1>2, <1>3, <2>3, <2>5, SnapshotKept
  <2>10. Ids(f)' = Ids(f) \cup {row.id} /\ Kernels(f)' = Kernels(f) \cup {row.kernel}
    BY <1>1, <1>2, <1>3, <1>6, <2>3, <2>5, SeenNext DEF next
  <2>11. row.id \notin Ids(f) /\ (row.kernel \notin Kernels(f) <=> first)
    BY <1>2, <1>4, <1>6, RowIsNew
  <2> HIDE DEF row, first
  <2>12. PICK I, K : I = Ids(f) /\ K = Kernels(f)
    OBVIOUS
  <2>13. /\ IsFiniteSet(I \cup {row.id}) /\ Cardinality(I \cup {row.id}) = Cardinality(I) + 1
         /\ IsFiniteSet(K \cup {row.kernel})
         /\ Cardinality(K \cup {row.kernel}) = kernels
    <3>1. IsFiniteSet(I) /\ IsFiniteSet(K) /\ Cardinality(K) = fe[f].nkernel
      BY <1>2, <2>12 DEF Loop
    <3>2. /\ IsFiniteSet(K \cup {row.kernel})
          /\ Cardinality(K \cup {row.kernel}) =
                 IF row.kernel \in K THEN Cardinality(K) ELSE Cardinality(K) + 1
      BY <3>1, FS_AddElement
    <3>3. /\ IsFiniteSet(I \cup {row.id})
          /\ Cardinality(I \cup {row.id}) = Cardinality(I) + 1
      BY <2>11, <2>12, <3>1, FS_AddElement
    <3>4. QED
      BY <2>11, <2>12, <3>1, <3>2, <3>3 DEF kernels
  <2>14. /\ record[f].ids \in Seq(Range(record[f].ids)) /\ Range(record[f].ids) = I
         /\ fe[f].ntask = Len(record[f].ids) /\ Cardinality(I) = Len(record[f].ids)
    BY <1>2, <2>12 DEF Loop
  <2>15. /\ Range(ids) = I \cup {row.id} /\ ids \in Seq(Range(ids))
         /\ Len(ids) = Len(record[f].ids) + 1
    BY <2>14, Appended DEF ids
  <2>16. Loop(f)'
    BY <1>1, <2>3, <2>4, <2>5, <2>6, <2>10, <2>12, <2>13, <2>14, <2>15
       DEF Loop, Late, next, tasks
  <2>17. QED
    BY <1>1, <1>3, <2>3, <2>5, <2>6, <2>7, <2>8, <2>9, <2>16 DEF FrontMoves, Ending
<1>7. QED
  BY <1>5, <1>6
-----------------------------------------------------------------------------
(* The rows of the index over a step *)

(* A batch gets no row back: it goes on to a later handle, or has no more  *)
(* units left than before.                                                 *)
Onward(g) == fe[g].h < fe'[g].h \/ (fe[g].h = fe'[g].h /\ Left(g)' \subseteq Left(g))

LEMMA RowKept ==
    ASSUME Fronts, Fronts', NEW x, IsRow(x), RowOK(x), Onward(x.batch)
    PROVE  RowOK(x)'
<1>1. PICK g \in Front : g = x.batch
  BY DEF IsRow
<1>2. /\ fe[g].h \in DOMAIN Job[g].plan /\ fe'[g].h \in DOMAIN Job[g].plan
      /\ x.id[2] \in DOMAIN Job[g].plan
  BY <1>1 DEF Fronts, IsFront, RowOK
<1>3. x.id[2] \in Nat /\ fe[g].h \in Nat /\ fe'[g].h \in Nat
  BY <1>2, PlanFacts
<1>4. x.id[2] <= fe[g].h /\ (x.id[2] = fe[g].h => x.id[3] \notin Left(g)) /\ Onward(g)
  BY <1>1 DEF RowOK
<1>5. x.id[2] <= fe'[g].h /\ (x.id[2] = fe'[g].h => x.id[3] \notin Left(g)')
  BY <1>3, <1>4 DEF Onward
<1>6. QED
  BY <1>1, <1>5 DEF RowOK

LEMMA RowsKept ==
    ASSUME Fronts, Fronts', IndexType, Rows, UNCHANGED index, \A g \in Front : Onward(g)
    PROVE  IndexType' /\ Rows'
<1>1. ASSUME NEW k \in DOMAIN index
      PROVE  RowOK(index[k])'
  <2>1. PICK x : x = index[k]
    OBVIOUS
  <2>2. IsRow(x) /\ RowOK(x) /\ index'[k] = x
    BY <2>1 DEF IndexType, Rows
  <2>3. x.batch \in Front
    BY <2>2 DEF IsRow
  <2>4. RowOK(x)'
    BY <2>2, <2>3, RowKept
  <2>5. QED
    BY <2>2, <2>4 DEF RowOK
<1>2. Rows'
  BY <1>1 DEF Rows
<1>3. QED
  BY <1>2 DEF IndexType

LEMMA RowsAppended ==
    ASSUME Fronts, Fronts', Children, IndexType, Rows, \A g \in Front : Onward(g),
           NEW f \in Front, ch[f].pc # "none", ch'[f].pc # "none", UNCHANGED fe,
           index' = Append(index, NewRow(f)),
           ch[f].cur \in Todo(ch[f]), ch[f].cur \notin Todo(ch'[f])
    PROVE  IndexType' /\ Rows'
<1>1. PICK x, h, u, n : x = NewRow(f) /\ h = fe[f].h /\ u = ch[f].cur /\ n = Len(index) + 1
  OBVIOUS
<1>2. /\ IsRow(x) /\ x.batch = f /\ x.id = <<f, h, u>> /\ x.kernel = Job[f].plan[h]
  BY <1>1 DEF IsRow, NewRow, TaskId, TheKernel
<1>3. h \in DOMAIN Job[f].plan /\ h <= h /\ h \in Nat /\ fe'[f].h = h
  <2>1. h \in DOMAIN Job[f].plan /\ fe'[f].h = h
    BY <1>1 DEF Fronts, IsFront
  <2>2. QED
    BY <2>1, PlanFacts
<1>4. x.id[2] = h /\ x.id[3] = u /\ x.id = <<f, x.id[2], x.id[3]>>
  BY <1>2, IdParts
<1>5. u \in Left(f) /\ u \notin Left(f)'
  BY <1>1 DEF Left
<1>6. RowOK(x)'
  BY <1>2, <1>3, <1>4, <1>5 DEF RowOK
<1>7. index \in Seq(Range(index)) /\ index' = Append(index, x)
  BY <1>1 DEF IndexType
<1>8. /\ index' \in Seq(Range(index')) /\ DOMAIN index = 1..Len(index) /\ Len(index) \in Nat
      /\ DOMAIN index' = 1..n /\ index'[n] = x /\ \A k \in DOMAIN index : index'[k] = index[k]
  BY <1>1, <1>7, Appended
<1>9. \A k \in DOMAIN index' : k \in DOMAIN index \/ k = n
  BY <1>1, <1>8
<1>10. ASSUME NEW k \in DOMAIN index
       PROVE  RowOK(index[k])' /\ IsRow(index'[k]) /\ index[k].id # x.id
  <2>1. PICK y : y = index[k]
    OBVIOUS
  <2>2. IsRow(y) /\ RowOK(y) /\ index'[k] = y
    BY <1>8, <2>1 DEF IndexType, Rows
  <2>3. y.batch \in Front
    BY <2>2 DEF IsRow
  <2>4. RowOK(y)'
    BY <2>2, <2>3, RowKept
  <2>5. ASSUME y.id = x.id
        PROVE  FALSE
    <3>1. y.id = <<f, h, u>> /\ y.id = <<y.batch, y.id[2], y.id[3]>>
      BY <1>2, <2>2, <2>5 DEF RowOK
    <3>2. y.batch = f /\ y.id[2] = h /\ y.id[3] = u
      BY <3>1, IdParts
    <3>3. QED
      BY <1>1, <1>5, <2>2, <3>2 DEF RowOK
  <2>6. QED
    BY <2>1, <2>2, <2>4, <2>5 DEF RowOK
<1>11. \A k \in DOMAIN index' : RowOK(index[k])' /\ IsRow(index'[k])
  <2>1. RowOK(index[n])'
    BY <1>6, <1>8 DEF RowOK
  <2>2. QED
    BY <1>2, <1>8, <1>9, <1>10, <2>1
<1>12. \A j, k \in DOMAIN index' : index'[j].id = index'[k].id => j = k
  BY <1>8, <1>9, <1>10 DEF Rows
<1>13. QED
  BY <1>8, <1>11, <1>12 DEF IndexType, Rows

(* derive_to is set in rows of the own batch, and nothing else changes.    *)
LEMMA LinkEffect ==
    ASSUME IndexType, Rows, NEW f \in Front, NEW u \in Unit, Link(f, u)
    PROVE  /\ DOMAIN index' = DOMAIN index /\ index' \in Seq(Range(index'))
           /\ \A k \in DOMAIN index :
                  /\ IsRow(index'[k]) /\ index'[k].id = index[k].id
                  /\ index'[k].batch = index[k].batch /\ index'[k].kernel = index[k].kernel
                  /\ index[k].batch # f => index'[k] = index[k]
<1> DEFINE id == TaskId(f, u)
<1>1. index' = [k \in DOMAIN index |->
                  IF index[k].id = id THEN [index[k] EXCEPT !.linked = TRUE] ELSE index[k]]
  BY DEF Link
<1>2. id = <<f, fe[f].h, u>>
  BY DEF TaskId
<1> HIDE DEF id
<1>3. DOMAIN index = 1..Len(index) /\ Len(index) \in Nat
  BY DEF IndexType
<1>4. DOMAIN index' = DOMAIN index
  BY <1>1
<1>5. index' \in Seq(Range(index'))
  <2>1. \A k \in DOMAIN index' : index'[k] \in Range(index')
    BY DEF Range
  <2> HIDE DEF Range
  <2>2. PICK s, n : s = index' /\ n = Len(index)
    OBVIOUS
  <2>3. s = [k \in 1..n |-> s[k]]
    BY <1>1, <1>3, <2>2
  <2>4. \A k \in 1..n : s[k] \in Range(s)
    BY <1>3, <1>4, <2>1, <2>2
  <2>5. QED
    BY <2>2, <2>3, <2>4
<1>6. ASSUME NEW k \in DOMAIN index
      PROVE  /\ IsRow(index'[k]) /\ index'[k].id = index[k].id
             /\ index'[k].batch = index[k].batch /\ index'[k].kernel = index[k].kernel
             /\ index[k].batch # f => index'[k] = index[k]
  <2>1. IsRow(index[k]) /\ index[k].id = <<index[k].batch, index[k].id[2], index[k].id[3]>>
    BY DEF IndexType, Rows, RowOK
  <2>2. CASE index[k].id = id
    <3>1. index[k].batch = f
      BY <1>2, <2>1, <2>2, IdParts
    <3>2. index'[k] = [index[k] EXCEPT !.linked = TRUE]
      BY <1>1, <2>2
    <3>3. QED
      BY <2>1, <3>1, <3>2 DEF IsRow
  <2>3. CASE index[k].id # id
    BY <1>1, <2>1, <2>3
  <2>4. QED
    BY <2>2, <2>3
<1>7. QED
  BY <1>4, <1>5, <1>6

LEMMA RowsLinked ==
    ASSUME Fronts, Fronts', IndexType, Rows, \A g \in Front : Onward(g),
           NEW f \in Front, NEW u \in Unit, Link(f, u)
    PROVE  IndexType' /\ Rows'
<1>1. /\ DOMAIN index' = DOMAIN index /\ index' \in Seq(Range(index'))
      /\ \A k \in DOMAIN index :
             /\ IsRow(index'[k]) /\ index'[k].id = index[k].id
             /\ index'[k].batch = index[k].batch /\ index'[k].kernel = index[k].kernel
  BY LinkEffect
<1>2. ASSUME NEW k \in DOMAIN index
      PROVE  RowOK(index[k])'
  <2>1. PICK x : x = index[k]
    OBVIOUS
  <2>2. IsRow(x) /\ RowOK(x)
    BY <2>1 DEF IndexType, Rows
  <2>3. x.batch \in Front
    BY <2>2 DEF IsRow
  <2>4. RowOK(x)'
    BY <2>2, <2>3, RowKept
  <2>5. index'[k].id = x.id /\ index'[k].batch = x.batch /\ index'[k].kernel = x.kernel
    BY <1>1, <2>1
  <2>6. QED
    BY <2>4, <2>5 DEF RowOK
<1>3. QED
  BY <1>1, <1>2 DEF IndexType, Rows
-----------------------------------------------------------------------------
(* The steps preserve the invariant *)

(* A front end that a step leaves alone, if its snapshot is left alone. *)
LEMMA OthersKept ==
    ASSUME NEW g \in Front, fe'[g] = fe[g], ch'[g] = ch[g], record'[g] = record[g],
           Forked(g), Fresh(g), Ending(g), fe[g].pc \in Ended /\ Snapshot(g) => Snapshot(g)'
    PROVE  Forked(g)' /\ Fresh(g)' /\ Ending(g)' /\ Onward(g)
<1>1. Forked(g)' /\ Fresh(g)' /\ Left(g)' = Left(g) /\ fe'[g].h = fe[g].h
  BY DEF Forked, Fresh, Left
<1>2. Ending(g)'
  BY LoopKept DEF Ending
<1>3. QED
  BY <1>1, <1>2 DEF Onward

LEMMA PublishedKept ==
    ASSUME NEW f \in Front, fe[f].pc # "done", \A g \in Front \ {f} : fe'[g] = fe[g],
           entries \in Seq(Range(entries)), Published, UNCHANGED entries
    PROVE  entries' \in Seq(Range(entries')) /\ Published'
<1>1. \A e \in Range(entries) : e.batch \in Front /\ e.batch # f
  BY DEF Published
<1>2. QED
  BY <1>1 DEF Published

LEMMA FrontKeepsInv ==
    ASSUME IInv, NEW f \in Front, FrontMoves(f),
           UNCHANGED entries \/ Publish(f)
    PROVE  IInv'
<1> USE DEF IInv
<1>1. /\ UNCHANGED index /\ Types' /\ fe[f].pc # "done" /\ Onward(f)
      /\ Forked(f)' /\ Fresh(f)' /\ Ending(f)'
      /\ \A g \in Front \ {f} : fe'[g] = fe[g] /\ ch'[g] = ch[g] /\ record'[g] = record[g]
  BY DEF FrontMoves, Onward
<1>2. ASSUME NEW g \in Front \ {f}
      PROVE  Forked(g)' /\ Fresh(g)' /\ Ending(g)' /\ Onward(g)
  <2>1. fe'[g] = fe[g] /\ ch'[g] = ch[g] /\ record'[g] = record[g] /\ g \in Front
    BY <1>1
  <2>2. Snapshot(g) => Snapshot(g)'
    BY <1>1, <2>1, SnapshotKept
  <2>3. QED
    BY <2>1, <2>2, OthersKept
<1>3. \A g \in Front : Forked(g)' /\ Fresh(g)' /\ Ending(g)' /\ Onward(g)
  BY <1>1, <1>2
<1>4. IndexType' /\ Rows'
  BY <1>1, <1>3, RowsKept DEF Types
<1>5. entries' \in Seq(Range(entries')) /\ Published'
  <2>1. CASE UNCHANGED entries
    BY <1>1, <2>1, PublishedKept
  <2>2. CASE Publish(f)
    <3> DEFINE e == [batch |-> f, ntask |-> fe[f].ntask, nkernel |-> fe[f].nkernel]
               x == [fe[f] EXCEPT !.pc = "done"]
    <3>1. entries' = Append(entries, e) /\ fe' = [fe EXCEPT ![f] = x]
      BY <2>2 DEF Publish, Go
    <3>2. x.pc = "done" /\ x.ntask = fe[f].ntask /\ x.nkernel = fe[f].nkernel /\ fe'[f] = x
      BY <3>1 DEF Types, Fronts, IsFront
    <3>3. e.batch = f /\ e.ntask = fe[f].ntask /\ e.nkernel = fe[f].nkernel
      OBVIOUS
    <3> HIDE DEF e, x
    <3>4. entries' \in Seq(Range(entries')) /\ Range(entries') = Range(entries) \cup {e}
      BY <3>1, Appended
    <3>5. \A d \in Range(entries) : d.batch \in Front /\ d.batch # f
      BY <1>1 DEF Published
    <3>6. Published'
      BY <1>1, <3>2, <3>3, <3>4, <3>5 DEF Published
    <3>7. QED
      BY <3>4, <3>6
  <2>3. QED
    BY <2>1, <2>2
<1>6. QED
  BY <1>1, <1>3, <1>4, <1>5

(* A snapshot of another front end survives a row that is appended to or   *)
(* linked in the index.                                                    *)
LEMMA SnapshotAppended ==
    ASSUME IndexType, NEW f \in Front, NEW g \in Front, g # f, fe'[g] = fe[g],
           index' = Append(index, NewRow(f)), Snapshot(g)
    PROVE  Snapshot(g)'
<1>1. PICK x : x = NewRow(f)
  OBVIOUS
<1>2. x.batch = f
  BY <1>1 DEF NewRow
<1>3. /\ DOMAIN index = 1..Len(index) /\ Len(index) \in Nat
      /\ DOMAIN index' = 1..Len(index) + 1 /\ index'[Len(index) + 1] = x
      /\ \A k \in DOMAIN index : index'[k] = index[k]
  BY <1>1, Appended DEF IndexType
<1>4. /\ DOMAIN index \subseteq DOMAIN index'
      /\ \A k \in DOMAIN index' \ DOMAIN index : index'[k] = x
  BY <1>3
<1>5. QED
  BY <1>2, <1>3, <1>4 DEF Snapshot

LEMMA SnapshotLinked ==
    ASSUME IndexType, Rows, NEW f \in Front, NEW g \in Front, g # f, fe'[g] = fe[g],
           NEW u \in Unit, Link(f, u), Snapshot(g)
    PROVE  Snapshot(g)'
<1>1. /\ DOMAIN index' = DOMAIN index
      /\ \A k \in DOMAIN index :
             /\ index'[k].batch = index[k].batch
             /\ index[k].batch # f => index'[k] = index[k]
  BY LinkEffect
<1>2. QED
  BY <1>1 DEF Snapshot

LEMMA ChildKeepsInv ==
    ASSUME IInv, NEW f \in Front, ChildMoves(f),
           \/ UNCHANGED index
           \/ /\ index' = Append(index, NewRow(f))
              /\ ch[f].cur \in Todo(ch[f]) /\ ch[f].cur \notin Todo(ch'[f])
           \/ \E u \in Unit : Link(f, u)
    PROVE  IInv'
<1> USE DEF IInv
<1>1. /\ UNCHANGED <<fe, record, entries>> /\ Children' /\ Scalars' /\ Unwritten(ch'[f])
      /\ ch[f].pc # "none" /\ ch'[f].pc # "none" /\ Todo(ch'[f]) \subseteq Todo(ch[f])
      /\ \A g \in Front \ {f} : ch'[g] = ch[g]
  BY DEF ChildMoves
<1>2. Fronts /\ Fronts' /\ Types' /\ Children
  BY <1>1 DEF Types, Fronts, Records
<1>3. fe[f].pc \in {"wait", "dead"} /\ fe'[f].pc = fe[f].pc
  BY <1>1 DEF Forked
<1>4. Forked(f)' /\ Fresh(f)' /\ Ending(f)'
  BY <1>1, <1>3 DEF Forked, Fresh, Ending, Ended, Late
<1>5. Onward(f)
  BY <1>1 DEF Onward, Left
<1>6. ASSUME NEW g \in Front \ {f}
      PROVE  Forked(g)' /\ Fresh(g)' /\ Ending(g)' /\ Onward(g)
  <2>1. fe'[g] = fe[g] /\ ch'[g] = ch[g] /\ record'[g] = record[g] /\ g \in Front /\ g # f
    BY <1>1
  <2>2. Snapshot(g) => Snapshot(g)'
    BY <2>1, SnapshotKept, SnapshotAppended, SnapshotLinked
  <2>3. QED
    BY <2>1, <2>2, OthersKept
<1>7. \A g \in Front : Forked(g)' /\ Fresh(g)' /\ Ending(g)' /\ Onward(g)
  BY <1>4, <1>5, <1>6
<1>8. IndexType' /\ Rows'
  BY <1>1, <1>2, <1>7, RowsKept, RowsAppended, RowsLinked
<1>9. entries' \in Seq(Range(entries')) /\ Published'
  BY <1>1 DEF Published
<1>10. QED
  BY <1>2, <1>7, <1>8, <1>9

LEMMA ClockKeepsInv ==
    ASSUME IInv, SetClockBack
    PROVE  IInv'
<1> USE DEF IInv
<1>1. UNCHANGED <<fe, ch, index, record, entries>>
  BY DEF SetClockBack
<1>2. Types'
  BY <1>1, JobFacts DEF Types, Fronts, Children, Records, Scalars, SetClockBack, Fail
<1>3. ASSUME NEW g \in Front
      PROVE  Forked(g)' /\ Fresh(g)' /\ Ending(g)' /\ Onward(g)
  <2>1. fe'[g] = fe[g] /\ ch'[g] = ch[g] /\ record'[g] = record[g]
    BY <1>1
  <2>2. Snapshot(g) => Snapshot(g)'
    BY <1>1, <2>1, SnapshotKept
  <2>3. QED
    BY <2>1, <2>2, OthersKept
<1>4. IndexType' /\ Rows'
  BY <1>1, <1>2, <1>3, RowsKept DEF Types
<1>5. QED
  BY <1>1, <1>2, <1>3, <1>4 DEF Published
LEMMA InitInv == Init => IInv
<1> SUFFICES ASSUME Init
             PROVE  IInv
  OBVIOUS
<1>1. /\ <<>> \in Seq({}) /\ DOMAIN <<>> = {} /\ Range(<<>>) = {} /\ Len(<<>>) = 0
  BY DEF Range
<1>2. index = <<>> /\ entries = <<>>
  BY DEF Init
<1>3. Fronts
  <2>1. \A f \in Front : 1 \in DOMAIN Job[f].plan
    BY PlanFacts
  <2>2. QED
    BY <2>1 DEF Init, Fronts, IsFront, FrontPc
<1>4. Children
  BY JobFacts DEF Init, Children, IsChild, ChildPc, Exit, Units
<1>5. Records
  BY DEF Init, Skeleton, Records, IsRecord
<1>6. Scalars
  <2>1. /\ writer = NoFront /\ broken = FALSE /\ raced = FALSE
        /\ clock = MaxFail /\ fails = 0
    BY DEF Init
  <2>2. fails \in 0..MaxFail /\ clock \in Int /\ clock <= MaxFail /\ clock + fails >= MaxFail
    BY <2>1, JobFacts
  <2>3. QED
    BY <2>1, <2>2 DEF Scalars
<1>7. IndexType /\ Rows
  BY <1>1, <1>2 DEF IndexType, Rows
<1>8. ASSUME NEW f \in Front
      PROVE  Forked(f) /\ Fresh(f) /\ Ending(f)
  <2>1. /\ fe[f].pc = "new" /\ fe[f].ntask = 0 /\ fe[f].nkernel = 0 /\ ch[f].pc = "none"
        /\ record[f].ids = <<>>
    BY DEF Init, Skeleton
  <2>2. QED
    BY <2>1 DEF Forked, Unwritten, Fresh, Ending, Early, Ended, Late
<1>9. entries \in Seq(Range(entries)) /\ Published
  BY <1>1, <1>2 DEF Published
<1>10. QED
  BY <1>3, <1>4, <1>5, <1>6, <1>7, <1>8, <1>9 DEF IInv, Types

FrontSteps(f) ==
    \/ Begin(f) \/ BeginFail(f) \/ FrontStep(f) \/ SpawnFail(f) \/ ScanFail(f)
    \/ EndFail(f) \/ Killed(f)

ChildSteps(f) ==
    \/ ChildStep(f) \/ CountTaskFail(f) \/ CreateCapsuleFail(f)
    \/ \E exit \in {"verify", "fail"}, units \in SUBSET Unit : RunFail(f, exit, units)
    \/ \E u \in Unit : WriteRecordFail(f, u) \/ LinkFail(f, u)
    \/ \E killed \in BOOLEAN : AppendFail(f, killed)

LEMMA FrontStepsMove ==
    ASSUME IInv, NEW f \in Front, FrontSteps(f)
    PROVE  FrontMoves(f) /\ (UNCHANGED entries \/ Publish(f))
<1>1. Types /\ IndexType /\ Rows /\ Forked(f) /\ Fresh(f) /\ Ending(f)
  BY DEF IInv
<1>2. FrontMoves(f)
  BY <1>1, BeginMoves, SpawnMoves, ReapMoves, ScanMoves, CollectMoves, PatchMoves,
     PlainFrontSteps DEF FrontSteps, FrontStep
<1>3. UNCHANGED entries \/ Publish(f)
  BY DEF FrontSteps, FrontStep, Begin, BeginFail, Spawn, Reap, Scan, Collect, PatchCounters,
         CountBatch, CountBatchRow, SpawnFail, ScanFail, EndFail, Killed
<1>4. QED
  BY <1>2, <1>3

LEMMA ChildStepsMove ==
    ASSUME IInv, NEW f \in Front, ChildSteps(f)
    PROVE  /\ ChildMoves(f)
           /\ \/ UNCHANGED index
              \/ /\ AppendEnd(f) /\ index' = Append(index, NewRow(f))
                 /\ ch[f].cur \in Todo(ch[f]) /\ ch[f].cur \notin Todo(ch'[f])
              \/ \E u \in Unit : Link(f, u)
<1>1. Children /\ Scalars /\ Forked(f)
  BY DEF IInv, Types
<1>2. CASE AppendEnd(f)
  BY <1>1, <1>2, AppendEndMoves
<1>3. CASE \E u \in Unit : Link(f, u)
  BY <1>1, <1>3, LinkMoves
<1>4. CASE ~AppendEnd(f) /\ ~(\E u \in Unit : Link(f, u))
  BY <1>1, <1>4, RunOkMoves, RunFailMoves, WriteRecordMoves, WriteRecordFailMoves,
     AppendBeginMoves, AppendRefuseMoves, AppendFailMoves, CountTaskMoves,
     CountTaskRowMoves, CountTaskFailMoves, WrittenMoves, CreateCapsuleMoves,
     CreateCapsuleFailMoves, LinkFailMoves, LinkedMoves DEF ChildSteps, ChildStep
<1>5. QED
  BY <1>2, <1>3, <1>4

LEMMA NextSteps ==
    ASSUME Next
    PROVE  SetClockBack \/ \E f \in Front : FrontSteps(f) \/ ChildSteps(f)
  BY DEF Next, FrontSteps, ChildSteps

LEMMA NextInv ==
    ASSUME IInv, [Next]_vars
    PROVE  IInv'
<1>1. CASE UNCHANGED vars
  <2>1. UNCHANGED <<fe, ch, index, writer, broken, record, entries, clock, raced, fails>>
    BY <1>1 DEF vars
  <2>2. ASSUME NEW g \in Front
        PROVE  Forked(g)' /\ Fresh(g)' /\ Ending(g)' /\ Onward(g)
    <3>1. fe'[g] = fe[g] /\ ch'[g] = ch[g] /\ record'[g] = record[g]
      BY <2>1
    <3>2. Snapshot(g) => Snapshot(g)'
      BY <2>1, <3>1, SnapshotKept
    <3>3. QED
      BY <3>1, <3>2, OthersKept DEF IInv
  <2>3. Types'
    BY <2>1 DEF IInv, Types, Fronts, Children, Records, Scalars
  <2>4. IndexType' /\ Rows'
    BY <2>1, <2>2, <2>3, RowsKept DEF IInv, Types
  <2>5. QED
    BY <2>1, <2>2, <2>3, <2>4 DEF IInv, Published
<1>2. CASE SetClockBack
  BY <1>2, ClockKeepsInv
<1>3. ASSUME NEW f \in Front, FrontSteps(f)
      PROVE  IInv'
  BY <1>3, FrontStepsMove, FrontKeepsInv
<1>4. ASSUME NEW f \in Front, ChildSteps(f)
      PROVE  IInv'
  BY <1>4, ChildStepsMove, ChildKeepsInv
<1>5. QED
  BY <1>1, <1>2, <1>3, <1>4, NextSteps

(* The inductive invariant.  The rows of a batch come in the order of its  *)
(* handles and never twice, because the kernel of the current handle only  *)
(* records units that are left to it; the snapshot of a front end has all  *)
(* rows of its batch, because no kernel of its own is alive any more.      *)
THEOREM Invariance == Spec => []IInv
<1>1. Init => IInv
  BY InitInv
<1>2. IInv /\ [Next]_vars => IInv'
  BY NextInv
<1>3. QED
  BY <1>1, <1>2, PTL DEF Spec

(* Positions, handles, units, the index lock and the bounded counters keep *)
(* their ranges.                                                           *)
THEOREM TypeCorrect == Spec => []TypeOK
<1>1. IInv => TypeOK
  <2> SUFFICES ASSUME IInv
               PROVE  TypeOK
    OBVIOUS
  <2>1. ASSUME NEW f \in Front
        PROVE  /\ fe[f].pc \in FrontPc /\ fe[f].h \in DOMAIN Job[f].plan
               /\ ch[f].pc \in ChildPc /\ ch[f].todo \subseteq Unit
               /\ ch[f].exit \in {"ok", "verify", "fail"}
               /\ ch[f].cur \in Unit \cup {Capsule}
    <3>1. IsFront(f, fe[f]) /\ IsChild(ch[f])
      BY DEF IInv, Types, Fronts, Children
    <3>2. QED
      BY <3>1 DEF IsFront, IsChild, Exit, Units
  <2>2. Scalars
    BY DEF IInv, Types
  <2>3. clock \in 0..MaxFail
    BY <2>2, JobFacts DEF Scalars
  <2>4. QED
    BY <2>1, <2>2, <2>3 DEF TypeOK, Scalars
<1>2. QED
  BY <1>1, Invariance, PTL

(* Of a batch that has been collected, the list names the rows of its own  *)
(* that count now, and each row is named as its kernel.                    *)
LEMMA Collection ==
    ASSUME IInv, NEW f \in Front, fe[f].pc \in Late
    PROVE  /\ Ids(f) = {r.id : r \in {q \in Range(index) : EntryPoint(f, q)}}
           /\ Kernels(f) = {KernelOf(id) : id \in Ids(f)}
<1> DEFINE snap == fe[f].snap
<1>1. Snapshot(f) /\ Loop(f)
  BY DEF IInv, Ending, Ended
<1>2. DOMAIN snap = 1..Len(snap) /\ Len(snap) \in Nat /\ fe[f].pos \in Nat
  BY <1>1 DEF Snapshot, IInv, Types, Fronts, IsFront
<1>3. fe[f].pos > Len(snap)
  BY <1>1 DEF Loop
<1>4. Seen(f) = {k \in DOMAIN snap : EntryPoint(f, snap[k])}
  BY <1>2, <1>3 DEF Seen
<1>5. \A k : k \in Seen(f) <=> k \in DOMAIN index /\ EntryPoint(f, index[k])
  BY <1>1, <1>4 DEF Snapshot, EntryPoint
<1>6. \A k \in Seen(f) : snap[k] = index[k]
  BY <1>1, <1>4 DEF Snapshot, EntryPoint
<1>7. Ids(f) = {index[k].id : k \in Seen(f)} /\ Kernels(f) = {index[k].kernel : k \in Seen(f)}
  BY <1>6 DEF Ids, Kernels
<1>8. Ids(f) = {r.id : r \in {q \in Range(index) : EntryPoint(f, q)}}
  BY <1>5, <1>7 DEF Range
<1>9. ASSUME NEW k \in Seen(f)
      PROVE  KernelOf(index[k].id) = index[k].kernel
  <2>1. RowOK(index[k])
    BY <1>5 DEF IInv, Rows
  <2>2. index[k].id[1] = index[k].batch
    BY <2>1, IdParts DEF RowOK
  <2>3. QED
    BY <2>1, <2>2 DEF RowOK, KernelOf
<1>10. QED
  BY <1>7, <1>8, <1>9

(* Whichever step of tpb_record_end_batch failed or was not reached, in    *)
(* this batch or another: a row of tbatch.tpbe gives the numbers of tasks  *)
(* and of kernels that the tbatch record has and that its list shows.      *)
THEOREM RowsAgree == Spec => []PublishedAgrees
<1>1. IInv => PublishedAgrees
  <2> SUFFICES ASSUME IInv, NEW e \in Range(entries)
               PROVE  LET r == record[e.batch] IN
                      /\ r.live /\ e.ntask = r.ntask /\ e.nkernel = r.nkernel
                      /\ r.ntask = Len(r.ids)
                      /\ r.nkernel = Cardinality({KernelOf(id) : id \in Range(r.ids)})
    BY DEF PublishedAgrees
  <2>1. PICK f \in Front : f = e.batch
    BY DEF IInv, Published
  <2>2. /\ fe[f].pc = "done" /\ fe[f].pc \in Late /\ fe[f].pc \in Ended
        /\ e.ntask = fe[f].ntask /\ e.nkernel = fe[f].nkernel
    BY <2>1 DEF IInv, Published, Late, Ended
  <2>3. Loop(f) /\ record[f].live
    BY <2>2 DEF IInv, Ending, Fresh
  <2>4. Kernels(f) = {KernelOf(id) : id \in Ids(f)}
    BY <2>2, Collection
  <2>5. QED
    BY <2>1, <2>2, <2>3, <2>4 DEF Loop
<1>2. QED
  BY <1>1, Invariance, PTL

(* A published batch lists the entry points of its own that task.tpbe has, *)
(* all of them and each once, however the appends and links of the other   *)
(* kernels fell between the list of the index and the end of the batch.    *)
THEOREM ListsAreExact == Spec => []ListsItsEntryPoints
<1>1. IInv => ListsItsEntryPoints
  <2> SUFFICES ASSUME IInv, NEW f \in Front, At(f, "done")
               PROVE  /\ Range(record[f].ids) =
                             {r.id : r \in {q \in Range(index) : EntryPoint(f, q)}}
                      /\ Cardinality(Range(record[f].ids)) = Len(record[f].ids)
    BY DEF ListsItsEntryPoints
  <2>1. fe[f].pc \in Late /\ fe[f].pc \in Ended
    BY DEF At, Late, Ended
  <2>2. Loop(f)
    BY <2>1 DEF IInv, Ending
  <2>3. QED
    BY <2>1, <2>2, Collection DEF Loop
<1>2. QED
  BY <1>1, Invariance, PTL

-----------------------------------------------------------------------------
(* One entry point per handle *)

Ranks(f) == IF TheKernel(f) \in Mpi THEN Unit ELSE {0}
Entry(f, h) == IF Job[f].plan[h] \in Mpi THEN Capsule ELSE 0

(* The units that occur in the rows, and those that a kernel works on. *)
RowUnits ==
    \A k \in DOMAIN index :
        /\ index[k].id[3] \in Units
        /\ index[k].kernel \notin Mpi => index[k].id[3] = 0 /\ ~index[k].linked
        /\ index[k].linked => index[k].id[3] # Capsule

ChildUnits(f) ==
    ch[f].pc # "none" =>
        /\ ch[f].todo \subseteq Ranks(f)
        /\ ch[f].pc \in {"append", "append_end"} =>
               ch[f].cur \in Ranks(f) \/ (ch[f].cur = Capsule /\ TheKernel(f) \in Mpi)
        /\ ch[f].pc = "link" => TheKernel(f) \in Mpi

(* The rows of a batch are in the order of its handles. *)
Ordered ==
    \A j, k \in DOMAIN index :
        j < k /\ index[j].batch = index[k].batch => index[j].id[2] <= index[k].id[2]

(* What a handle leaves when nothing fails: its entry point, and no other  *)
(* row that is not linked to it.                                           *)
HasTask(f, h, u) == \E k \in DOMAIN index : index[k].id = <<f, h, u>>
AllLinked(f, h, S) ==
    \A k \in DOMAIN index : index[k].id \in {<<f, h, u>> : u \in S} => index[k].linked
Complete(f, h) ==
    /\ HasTask(f, h, Entry(f, h))
    /\ Job[f].plan[h] \in Mpi => AllLinked(f, h, Unit)

Good == fails = 0 /\ ~raced

(* What the kernel of the current handle has done by now. *)
StageOf(f, h, c) ==
    c.pc # "none" =>
        /\ c.exit = "ok"
        /\ c.pc \in {"write", "env_record", "env_row"} /\ 0 \notin c.todo => HasTask(f, h, 0)
        /\ c.pc = "write" /\ 0 \notin c.todo => c.ok
        /\ c.pc \in {"env_record", "env_row"} /\ 0 \notin c.todo \cup {c.cur} => c.ok
        /\ c.pc \in {"append", "append_end"} =>
               /\ c.utc = MaxFail
               /\ 0 \notin c.todo \cup {c.cur} => c.ok /\ HasTask(f, h, 0)
        /\ c.pc = "link" => HasTask(f, h, Capsule) /\ AllLinked(f, h, Unit \ c.todo)
        /\ c.pc = "exit" => Complete(f, h)
Stage(f) == StageOf(f, fe[f].h, ch[f])

Handles(f) ==
    \A h \in DOMAIN Job[f].plan :
        h < fe[f].h \/ fe[f].pc \in {"scan"} \cup Ended => Complete(f, h)

InOrder(f) ==
    fe[f].pc \in Ended => \A i \in 1..Len(record[f].ids) : record[f].ids[i] = <<f, i, Entry(f, i)>>

OnTime ==
    /\ \A k \in DOMAIN index : index[k].utc = MaxFail
    /\ \A f \in Front : fe[f].pc # "new" => fe[f].utc = MaxFail

Tidy ==
    /\ ~broken /\ OnTime
    /\ \A f \in Front : Stage(f) /\ Handles(f) /\ InOrder(f)

TidyInv ==
    /\ IInv /\ RowUnits /\ Ordered /\ \A f \in Front : ChildUnits(f)
    /\ Good => Tidy

(* Rows stay, with what they say of the task; a link is never taken back.  *)
Grows ==
    /\ DOMAIN index \subseteq DOMAIN index'
    /\ \A k \in DOMAIN index :
           /\ index'[k].id = index[k].id /\ index'[k].batch = index[k].batch
           /\ index'[k].kernel = index[k].kernel /\ index'[k].utc = index[k].utc
           /\ index[k].linked => index'[k].linked

LEMMA LinkGrows ==
    ASSUME IndexType, Rows, NEW f \in Front, NEW u \in Unit, Link(f, u)
    PROVE  /\ Grows /\ DOMAIN index' = DOMAIN index
           /\ \A k \in DOMAIN index :
                  index'[k].linked = (index[k].linked \/ index[k].id = TaskId(f, u))
<1> DEFINE id == TaskId(f, u)
<1>1. index' = [k \in DOMAIN index |->
                  IF index[k].id = id THEN [index[k] EXCEPT !.linked = TRUE] ELSE index[k]]
  BY DEF Link
<1> HIDE DEF id
<1>2. DOMAIN index' = DOMAIN index
  BY <1>1
<1>3. ASSUME NEW k \in DOMAIN index
      PROVE  /\ index'[k].id = index[k].id /\ index'[k].batch = index[k].batch
             /\ index'[k].kernel = index[k].kernel /\ index'[k].utc = index[k].utc
             /\ index'[k].linked = (index[k].linked \/ index[k].id = id)
             /\ index[k].linked => index'[k].linked
  <2>1. IsRow(index[k])
    BY DEF IndexType
  <2>2. CASE index[k].id = id
    <3>1. index'[k] = [index[k] EXCEPT !.linked = TRUE]
      BY <1>1, <2>2
    <3>2. QED
      BY <2>1, <2>2, <3>1 DEF IsRow
  <2>3. CASE index[k].id # id
    <3>1. index'[k] = index[k]
      BY <1>1, <2>3
    <3>2. index[k].linked \in BOOLEAN
      BY <2>1 DEF IsRow
    <3>3. QED
      BY <2>3, <3>1, <3>2
  <2>4. QED
    BY <2>2, <2>3
<1>4. QED
  BY <1>2, <1>3 DEF Grows, id

LEMMA AppendGrows ==
    ASSUME IndexType, NEW x, index' = Append(index, x)
    PROVE  /\ Grows /\ DOMAIN index' = DOMAIN index \cup {Len(index) + 1}
           /\ index'[Len(index) + 1] = x
           /\ \A k \in DOMAIN index : index'[k] = index[k] /\ k < Len(index) + 1
<1>1. /\ DOMAIN index = 1..Len(index) /\ Len(index) \in Nat
      /\ DOMAIN index' = 1..Len(index) + 1 /\ index'[Len(index) + 1] = x
      /\ \A k \in DOMAIN index : index'[k] = index[k]
  BY Appended DEF IndexType
<1>2. DOMAIN index' = DOMAIN index \cup {Len(index) + 1} /\ \A k \in DOMAIN index : k < Len(index) + 1
  BY <1>1
<1>3. QED
  BY <1>1, <1>2 DEF Grows

LEMMA NewRowFacts ==
    ASSUME Fronts, NEW f \in Front
    PROVE  LET x == NewRow(f) IN
           /\ x.id = <<f, fe[f].h, ch[f].cur>> /\ x.id[2] = fe[f].h /\ x.id[3] = ch[f].cur
           /\ x.batch = f /\ x.kernel = TheKernel(f) /\ x.linked = FALSE /\ x.utc = ch[f].utc
  BY IdParts DEF NewRow, TaskId

LEMMA TaskKept ==
    ASSUME Grows, NEW f, NEW h, NEW u, HasTask(f, h, u)
    PROVE  HasTask(f, h, u)'
  BY DEF Grows, HasTask

LEMMA LinkedKept ==
    ASSUME Grows, NEW f, NEW h, NEW S, AllLinked(f, h, S),
           \A k \in DOMAIN index' \ DOMAIN index : index'[k].id \notin {<<f, h, u>> : u \in S}
    PROVE  AllLinked(f, h, S)'
<1>1. ASSUME NEW k \in DOMAIN index', index'[k].id \in {<<f, h, u>> : u \in S}
      PROVE  index'[k].linked
  BY <1>1 DEF Grows, AllLinked
<1>2. QED
  BY <1>1 DEF AllLinked

LEMMA CompleteKept ==
    ASSUME Grows, NEW f, NEW h, Complete(f, h),
           \A k \in DOMAIN index' \ DOMAIN index :
               \A u : index'[k].id # <<f, h, u>>
    PROVE  Complete(f, h)'
<1>1. PICK e : e = Entry(f, h)
  OBVIOUS
<1>2. HasTask(f, h, e)'
  BY <1>1, TaskKept DEF Complete
<1>3. Job[f].plan[h] \in Mpi => AllLinked(f, h, Unit)'
  BY LinkedKept DEF Complete
<1>4. e = Entry(f, h)'
  BY <1>1 DEF Entry
<1>5. QED
  BY <1>2, <1>3, <1>4 DEF Complete, HasTask

-----------------------------------------------------------------------------
(* The layout of the index over a step *)

LEMMA LayoutAppended ==
    ASSUME IInv, RowUnits, Ordered, NEW f \in Front, ChildUnits(f), AppendEnd(f)
    PROVE  RowUnits' /\ Ordered'
<1>1. PICK x, n : x = NewRow(f) /\ n = Len(index) + 1
  OBVIOUS
<1>2. /\ x.id[2] = fe[f].h /\ x.id[3] = ch[f].cur /\ x.batch = f
      /\ x.kernel = TheKernel(f) /\ x.linked = FALSE
  BY <1>1, NewRowFacts DEF IInv, Types
<1>3. /\ DOMAIN index' = DOMAIN index \cup {n} /\ index'[n] = x
      /\ \A k \in DOMAIN index : index'[k] = index[k] /\ k < n
  <2>1. index' = Append(index, x)
    BY <1>1 DEF AppendEnd
  <2>2. QED
    BY <1>1, <2>1, AppendGrows DEF IInv
<1>4. x.id[3] \in Units /\ (x.kernel \notin Mpi => x.id[3] = 0)
  BY <1>2, JobFacts DEF AppendEnd, ChildAt, ChildUnits, Ranks, Units
<1>5. RowUnits'
  BY <1>2, <1>3, <1>4 DEF RowUnits
<1>6. \A k \in DOMAIN index : index[k].batch = f => index[k].id[2] <= fe[f].h
  BY DEF IInv, Rows, RowOK
<1>7. n \in Nat /\ \A k \in DOMAIN index : k \in Nat
  BY <1>1 DEF IInv, IndexType
<1>8. Ordered'
  <2> SUFFICES ASSUME NEW j \in DOMAIN index', NEW k \in DOMAIN index', j < k,
                      index'[j].batch = index'[k].batch
               PROVE  index'[j].id[2] <= index'[k].id[2]
    BY DEF Ordered
  <2>1. CASE k \in DOMAIN index
    <3>1. j \in DOMAIN index
      BY <1>3, <1>7, <2>1
    <3>2. QED
      BY <1>3, <2>1, <3>1 DEF Ordered
  <2>2. CASE k = n
    <3>1. j \in DOMAIN index
      BY <1>3, <1>7, <2>2
    <3>2. QED
      BY <1>2, <1>3, <1>6, <2>2, <3>1
  <2>3. QED
    BY <1>3, <2>1, <2>2
<1>9. QED
  BY <1>5, <1>8

LEMMA LayoutLinked ==
    ASSUME IInv, RowUnits, Ordered, NEW f \in Front, ChildUnits(f), NEW u \in Unit, Link(f, u)
    PROVE  RowUnits' /\ Ordered'
<1>1. /\ DOMAIN index' = DOMAIN index
      /\ \A k \in DOMAIN index :
             /\ index'[k].id = index[k].id /\ index'[k].batch = index[k].batch
             /\ index'[k].kernel = index[k].kernel
             /\ index'[k].linked = (index[k].linked \/ index[k].id = TaskId(f, u))
  BY LinkGrows DEF IInv, Grows
<1>2. Ordered'
  BY <1>1 DEF Ordered
<1>3. ASSUME NEW k \in DOMAIN index, index[k].id = TaskId(f, u)
      PROVE  index[k].kernel \in Mpi /\ index[k].id[3] # Capsule
  <2>1. RowOK(index[k])
    BY DEF IInv, Rows
  <2>2. index[k].batch = f /\ index[k].id[2] = fe[f].h /\ index[k].id[3] = u
    BY <1>3, <2>1, IdParts DEF RowOK, TaskId
  <2>3. TheKernel(f) \in Mpi
    BY DEF Link, ChildAt, ChildUnits
  <2>4. QED
    BY <2>1, <2>2, <2>3, JobFacts DEF RowOK, TheKernel
<1>4. RowUnits'
  BY <1>1, <1>3 DEF RowUnits
<1>5. QED
  BY <1>2, <1>4
(* The units that a kernel works on, over each of its steps. *)
LEMMA UnitsKept ==
    ASSUME Types, NEW f \in Front, ChildUnits(f), ChildSteps(f)
    PROVE  ChildUnits(f)' /\ UNCHANGED fe
<1> USE JobFacts DEF ChildAt, ChildGo
<1>1. ch = [g \in Front |-> ch[g]] /\ IsChild(ch[f])
  BY DEF Types, Children
<1>2. UNCHANGED fe => Ranks(f)' = Ranks(f) /\ TheKernel(f)' = TheKernel(f)
  BY DEF Ranks, TheKernel
<1>3. CASE RunOk(f)
  BY <1>1, <1>2, <1>3 DEF RunOk, ChildUnits, IsChild, Ranks
<1>4. ASSUME NEW exit \in {"verify", "fail"}, NEW units \in SUBSET Unit, RunFail(f, exit, units)
      PROVE  ChildUnits(f)' /\ UNCHANGED fe
  BY <1>1, <1>2, <1>4 DEF RunFail, ChildUnits, IsChild, Ranks
<1>5. ASSUME NEW u \in Unit, WriteRecord(f, u)
      PROVE  ChildUnits(f)' /\ UNCHANGED fe
  BY <1>1, <1>2, <1>5 DEF WriteRecord, ChildUnits, IsChild, Ranks
<1>6. ASSUME NEW u \in Unit, WriteRecordFail(f, u)
      PROVE  ChildUnits(f)' /\ UNCHANGED fe
  BY <1>1, <1>2, <1>6 DEF WriteRecordFail, ChildUnits, IsChild, Ranks
<1>7. CASE AppendBegin(f)
  BY <1>1, <1>2, <1>7 DEF AppendBegin, ChildUnits, IsChild, Ranks
<1>8. CASE AppendRefuse(f)
  BY <1>1, <1>2, <1>8 DEF AppendRefuse, ChildUnits, IsChild, Ranks, AfterAppend
<1>9. CASE AppendEnd(f)
  BY <1>1, <1>2, <1>9 DEF AppendEnd, ChildUnits, IsChild, Ranks
<1>10. ASSUME NEW killed \in BOOLEAN, AppendFail(f, killed)
      PROVE  ChildUnits(f)' /\ UNCHANGED fe
  BY <1>1, <1>2, <1>10 DEF AppendFail, ChildUnits, IsChild, Ranks, AfterAppend
<1>11. CASE CountTask(f)
  BY <1>1, <1>2, <1>11 DEF CountTask, ChildUnits, IsChild, Ranks
<1>12. CASE CountTaskRow(f)
  BY <1>1, <1>2, <1>12 DEF CountTaskRow, ChildUnits, IsChild, Ranks
<1>13. CASE CountTaskFail(f)
  BY <1>1, <1>2, <1>13 DEF CountTaskFail, ChildUnits, IsChild, Ranks
<1>14. CASE Written(f)
  BY <1>1, <1>2, <1>14 DEF Written, ChildUnits, IsChild, Ranks
<1>15. CASE CreateCapsule(f)
  BY <1>1, <1>2, <1>15 DEF CreateCapsule, ChildUnits, IsChild, Ranks, WantsCapsule
<1>16. CASE CreateCapsuleFail(f)
  BY <1>1, <1>2, <1>16 DEF CreateCapsuleFail, ChildUnits, IsChild, Ranks
<1>17. ASSUME NEW u \in Unit, Link(f, u)
      PROVE  ChildUnits(f)' /\ UNCHANGED fe
  BY <1>1, <1>2, <1>17 DEF Link, ChildUnits, IsChild, Ranks
<1>18. ASSUME NEW u \in Unit, LinkFail(f, u)
      PROVE  ChildUnits(f)' /\ UNCHANGED fe
  BY <1>1, <1>2, <1>18 DEF LinkFail, ChildUnits, IsChild, Ranks
<1>19. CASE Linked(f)
  BY <1>1, <1>2, <1>19 DEF Linked, ChildUnits, IsChild, Ranks
<1>20. QED
  BY <1>3, <1>4, <1>5, <1>6, <1>7, <1>8, <1>9, <1>10, <1>11, <1>12, <1>13,
     <1>14, <1>15, <1>16, <1>17, <1>18, <1>19 DEF ChildSteps, ChildStep
(* A front end that has a kernel waits for it: its other steps are taken   *)
(* without one.                                                            *)
LEMMA FrontUnits ==
    ASSUME IInv, NEW f \in Front, ChildUnits(f), FrontSteps(f)
    PROVE  ChildUnits(f)'
<1>1. /\ IsFront(f, fe[f]) /\ IsChild(ch[f]) /\ Fronts /\ Children
      /\ ch[f].pc # "none" => fe[f].pc \in {"wait", "dead"}
  BY DEF IInv, Types, Fronts, Children, Forked
<1>2. CASE Spawn(f)
  <2>1. ch'[f].todo = {} /\ ch'[f].pc = "run"
    BY <1>1, <1>2 DEF Spawn, Children
  <2>2. QED
    BY <2>1 DEF ChildUnits
<1>3. CASE Reap(f)
  <2>1. ch'[f].pc = "none"
    BY <1>1, <1>3 DEF Reap, ChildGo, Children, IsChild
  <2>2. QED
    BY <2>1 DEF ChildUnits
<1>4. CASE Killed(f)
  <2>1. ch' = ch /\ fe'[f].h = fe[f].h
    BY <1>1, <1>4 DEF Killed, Go, Fronts, IsFront
  <2>2. QED
    BY <2>1 DEF ChildUnits, Ranks, TheKernel
<1>5. CASE ~Spawn(f) /\ ~Reap(f) /\ ~Killed(f)
  <2>1. ch' = ch /\ fe[f].pc \notin {"wait", "dead"}
    BY <1>5 DEF FrontSteps, FrontStep, At, Begin, BeginFail, Scan, Collect, PatchCounters,
                CountBatch, CountBatchRow, Publish, SpawnFail, ScanFail, EndFail
  <2>2. QED
    BY <1>1, <2>1 DEF ChildUnits
<1>6. QED
  BY <1>2, <1>3, <1>4, <1>5

LEMMA LayoutKept ==
    ASSUME IInv, RowUnits, Ordered, \A g \in Front : ChildUnits(g), [Next]_vars
    PROVE  RowUnits' /\ Ordered' /\ \A g \in Front : ChildUnits(g)'
<1>1. ASSUME NEW g \in Front, fe'[g] = fe[g], ch'[g] = ch[g]
      PROVE  ChildUnits(g)'
  BY <1>1 DEF ChildUnits, Ranks, TheKernel
<1>2. CASE UNCHANGED index
  <2>1. RowUnits' /\ Ordered'
    BY <1>2 DEF RowUnits, Ordered
  <2>2. CASE UNCHANGED <<fe, ch>>
    BY <1>1, <2>1, <2>2
  <2>3. ASSUME NEW f \in Front, FrontSteps(f)
        PROVE  \A g \in Front : ChildUnits(g)'
    <3>1. \A g \in Front \ {f} : fe'[g] = fe[g] /\ ch'[g] = ch[g]
      BY <2>3, FrontStepsMove DEF FrontMoves
    <3>2. ChildUnits(f)'
      BY <2>3, FrontUnits
    <3>3. QED
      BY <1>1, <3>1, <3>2
  <2>4. ASSUME NEW f \in Front, ChildSteps(f)
        PROVE  \A g \in Front : ChildUnits(g)'
    <3>1. \A g \in Front \ {f} : fe'[g] = fe[g] /\ ch'[g] = ch[g]
      BY <2>4, ChildStepsMove DEF ChildMoves
    <3>2. ChildUnits(f)'
      BY <2>4, UnitsKept DEF IInv
    <3>3. QED
      BY <1>1, <3>1, <3>2
  <2>5. SetClockBack \/ UNCHANGED vars => UNCHANGED <<fe, ch>>
    BY DEF SetClockBack, vars
  <2>6. QED
    BY <2>1, <2>2, <2>3, <2>4, <2>5, NextSteps
<1>3. CASE ~UNCHANGED index
  <2>1. PICK f \in Front : ChildSteps(f)
    <3>1. ~(SetClockBack \/ UNCHANGED vars)
      BY <1>3 DEF SetClockBack, vars
    <3>2. \A f \in Front : ~FrontSteps(f)
      BY <1>3, FrontStepsMove DEF FrontMoves
    <3>3. QED
      BY <3>1, <3>2, NextSteps
  <2>2. AppendEnd(f) \/ \E u \in Unit : Link(f, u)
    BY <1>3, <2>1, ChildStepsMove
  <2>3. RowUnits' /\ Ordered'
    BY <2>2, LayoutAppended, LayoutLinked
  <2>4. \A g \in Front \ {f} : fe'[g] = fe[g] /\ ch'[g] = ch[g]
    BY <2>1, ChildStepsMove DEF ChildMoves
  <2>5. ChildUnits(f)'
    BY <2>1, UnitsKept DEF IInv
  <2>6. QED
    BY <1>1, <2>3, <2>4, <2>5
<1>4. QED
  BY <1>2, <1>3
-----------------------------------------------------------------------------
(* The steps of a batch in which nothing fails *)

LEMMA GoodSteps ==
    ASSUME Types, Next, Good'
    PROVE  Good /\ \E f \in Front : Begin(f) \/ FrontStep(f) \/ ChildStep(f)
<1>1. fails \in Nat /\ raced \in BOOLEAN
  BY JobFacts DEF Types, Scalars
<1>2. ~Fail /\ raced' # TRUE
  <2>1. fails' = 0 /\ ~raced'
    BY DEF Good
  <2>2. ~Fail
    BY <1>1, <2>1 DEF Fail
  <2>3. QED
    BY <2>1, <2>2, Zenon
<1>3. PICK f \in Front : Begin(f) \/ FrontStep(f) \/ ChildStep(f)
  BY <1>2 DEF Next, BeginFail, SpawnFail, ScanFail, EndFail, Killed, CountTaskFail,
              CreateCapsuleFail, RunFail, WriteRecordFail, LinkFail, AppendFail, SetClockBack
<1>4. UNCHANGED <<raced, fails>>
  BY <1>3 DEF FrontStep, ChildStep, Begin, Spawn, Reap, Scan, Collect, PatchCounters,
         CountBatch, CountBatchRow, Publish, RunOk, WriteRecord, Link, AppendBegin,
         AppendRefuse, AppendEnd, CountTask, CountTaskRow, Written, CreateCapsule, Linked
<1>5. QED
  BY <1>3, <1>4 DEF Good

(* No row of this handle is new. *)
NoneNew(f, h) == \A k \in DOMAIN index' \ DOMAIN index : \A u : index'[k].id # <<f, h, u>>

LEMMA StageKept ==
    ASSUME Grows, NEW f, NEW h, NEW c, StageOf(f, h, c), NoneNew(f, h)
    PROVE  StageOf(f, h, c)'
<1>1. \A u : HasTask(f, h, u) => HasTask(f, h, u)'
  BY TaskKept
<1>2. AllLinked(f, h, Unit \ c.todo) => AllLinked(f, h, Unit \ c.todo)'
  BY LinkedKept DEF NoneNew
<1>3. Complete(f, h) => Complete(f, h)'
  BY CompleteKept DEF NoneNew
<1>4. QED
  BY <1>1, <1>2, <1>3 DEF StageOf

LEMMA OthersGood ==
    ASSUME Grows, NEW g \in Front, fe'[g] = fe[g], ch'[g] = ch[g], record'[g] = record[g],
           \A h : NoneNew(g, h), Stage(g), Handles(g), InOrder(g)
    PROVE  Stage(g)' /\ Handles(g)' /\ InOrder(g)'
<1>1. PICK h, c : h = fe[g].h /\ c = ch[g]
  OBVIOUS
<1>2. StageOf(g, h, c)'
  BY <1>1, StageKept DEF Stage
<1>3. Stage(g)'
  BY <1>1, <1>2 DEF Stage
<1>4. \A n : Complete(g, n) => Complete(g, n)'
  BY CompleteKept DEF NoneNew
<1>5. Handles(g)'
  BY <1>4 DEF Handles
<1>6. QED
  BY <1>3, <1>5 DEF InOrder, Entry

(* The handles before the current one, while a kernel takes a step. *)
LEMMA HandlesKept ==
    ASSUME Grows, Fronts, NEW f \in Front, UNCHANGED fe, fe[f].pc \in {"wait", "dead"},
           \A h : h # fe[f].h => NoneNew(f, h), Handles(f)
    PROVE  Handles(f)' /\ InOrder(f)'
<1>1. \A n \in DOMAIN Job[f].plan : n < fe[f].h => n # fe[f].h
  <2>1. fe[f].h \in DOMAIN Job[f].plan
    BY DEF Fronts, IsFront
  <2>2. QED
    BY <2>1, PlanFacts
<1>2. \A n \in DOMAIN Job[f].plan : n < fe[f].h => Complete(f, n) /\ NoneNew(f, n)
  BY <1>1 DEF Handles
<1>3. \A n \in DOMAIN Job[f].plan : n < fe[f].h => Complete(f, n)'
  BY <1>2, CompleteKept DEF NoneNew
<1>4. QED
  BY <1>3 DEF Handles, InOrder, Ended, Late
(* What a kernel has done, over a step that leaves the index alone. *)
LEMMA StageUpdate ==
    ASSUME Children, NEW f \in Front, NEW x, ch' = [ch EXCEPT ![f] = x],
           UNCHANGED <<fe, index>>, StageOf(f, fe[f].h, x)
    PROVE  Stage(f)'
<1>1. ch'[f] = x
  BY DEF Children
<1>2. PICK h : h = fe[f].h
  OBVIOUS
<1>3. StageOf(f, h, x)'
  BY <1>2 DEF StageOf, HasTask, AllLinked, Complete, Entry
<1>4. QED
  BY <1>1, <1>2, <1>3 DEF Stage

LEMMA QuietStage ==
    ASSUME IInv, NEW f \in Front, ChildUnits(f), Stage(f), ~broken, OnTime, clock = MaxFail,
           ChildStep(f), ~AppendEnd(f), ~\E u \in Unit : Link(f, u)
    PROVE  Stage(f)'
<1> DEFINE c == ch[f]
           h == fe[f].h
<1>1. Children /\ IsChild(c) /\ StageOf(f, h, c)
  BY DEF IInv, Types, Children, Stage
<1>2. CASE RunOk(f)
  <2> DEFINE todo == IF TheKernel(f) \in Mpi THEN Unit ELSE {0}
             x == [c EXCEPT !.pc = "write", !.todo = todo]
  <2>1. c.pc = "run" /\ ch' = [ch EXCEPT ![f] = x] /\ UNCHANGED <<fe, index>> /\ 0 \in todo
    BY <1>2, JobFacts DEF RunOk, ChildAt
  <2> HIDE DEF todo
  <2>2. StageOf(f, h, x)
    BY <1>1, <2>1 DEF StageOf, IsChild
  <2>3. QED
    BY <1>1, <2>1, <2>2, StageUpdate
<1>3. ASSUME NEW u \in Unit, WriteRecord(f, u)
      PROVE  Stage(f)'
  <2> DEFINE x == [c EXCEPT !.pc = "append", !.cur = u, !.utc = clock, !.todo = c.todo \ {u}]
  <2>1. c.pc = "write" /\ ch' = [ch EXCEPT ![f] = x] /\ UNCHANGED <<fe, index>>
    BY <1>1, <1>3 DEF WriteRecord, ChildAt, Children, IsChild
  <2>2. StageOf(f, h, x)
    BY <1>1, <2>1 DEF StageOf, IsChild
  <2>3. QED
    BY <1>1, <2>1, <2>2, StageUpdate
<1>4. CASE AppendBegin(f)
  <2> DEFINE x == [c EXCEPT !.pc = "append_end"]
  <2>1. c.pc = "append" /\ ch' = [ch EXCEPT ![f] = x] /\ UNCHANGED <<fe, index>>
    BY <1>4 DEF AppendBegin, ChildAt, ChildGo
  <2>2. StageOf(f, h, x)
    BY <1>1, <2>1 DEF StageOf, IsChild
  <2>3. QED
    BY <1>1, <2>1, <2>2, StageUpdate
<1>5. CASE CountTask(f)
  <2> DEFINE x == [c EXCEPT !.pc = "env_row"]
  <2>1. c.pc = "env_record" /\ ch' = [ch EXCEPT ![f] = x] /\ UNCHANGED <<fe, index>>
    BY <1>5 DEF CountTask, ChildAt, ChildGo
  <2>2. StageOf(f, h, x)
    BY <1>1, <2>1 DEF StageOf, IsChild
  <2>3. QED
    BY <1>1, <2>1, <2>2, StageUpdate
<1>6. CASE CountTaskRow(f)
  <2> DEFINE ok == c.ok \/ c.cur = 0
             x == [c EXCEPT !.pc = "write", !.ok = ok]
  <2>1. c.pc = "env_row" /\ ch' = [ch EXCEPT ![f] = x] /\ UNCHANGED <<fe, index>>
    BY <1>1, <1>6 DEF CountTaskRow, ChildAt, Children, IsChild
  <2>2. 0 \notin c.todo => ok
    BY <1>1, <2>1 DEF StageOf
  <2> HIDE DEF ok
  <2>3. StageOf(f, h, x)
    BY <1>1, <2>1, <2>2 DEF StageOf, IsChild
  <2>4. QED
    BY <1>1, <2>1, <2>3, StageUpdate
<1>7. CASE Written(f)
  <2> DEFINE x == [c EXCEPT !.pc = "exit"]
  <2>1. /\ c.pc = "write" /\ ch' = [ch EXCEPT ![f] = x] /\ UNCHANGED <<fe, index>>
        /\ 0 \notin c.todo /\ ~WantsCapsule(f)
    BY <1>7 DEF Written, ChildAt, ChildGo
  <2>2. c.ok /\ c.exit = "ok" /\ HasTask(f, h, 0)
    BY <1>1, <2>1 DEF StageOf
  <2>3. Complete(f, h)
    BY <2>1, <2>2 DEF WantsCapsule, TheKernel, Complete, Entry
  <2>4. StageOf(f, h, x)
    BY <1>1, <2>1, <2>3 DEF StageOf, IsChild
  <2>5. QED
    BY <1>1, <2>1, <2>4, StageUpdate
<1>8. CASE CreateCapsule(f)
  <2> DEFINE utc == UtcOf(TaskId(f, 0))
             x == [c EXCEPT !.pc = "append", !.cur = Capsule, !.utc = utc]
  <2>1. /\ c.pc = "write" /\ ch' = [ch EXCEPT ![f] = x] /\ UNCHANGED <<fe, index>>
        /\ c.todo = {}
    BY <1>8 DEF CreateCapsule, ChildAt
  <2>2. c.ok /\ HasTask(f, h, 0)
    BY <1>1, <2>1 DEF StageOf
  <2>3. utc = MaxFail
    <3> DEFINE rows == {index[k] : k \in DOMAIN index}
    <3>1. \E r \in rows : r.id = TaskId(f, 0)
      BY <2>2 DEF HasTask, TaskId
    <3>2. (CHOOSE r \in rows : r.id = TaskId(f, 0)) \in rows
      BY <3>1, Zenon
    <3>3. \A r \in rows : r.utc = MaxFail
      BY DEF OnTime
    <3>4. QED
      BY <3>2, <3>3 DEF UtcOf
  <2> HIDE DEF utc
  <2>4. StageOf(f, h, x)
    BY <1>1, <2>1, <2>2, <2>3 DEF StageOf, IsChild
  <2>5. QED
    BY <1>1, <2>1, <2>4, StageUpdate
<1>9. CASE Linked(f)
  <2> DEFINE x == [c EXCEPT !.pc = "exit"]
  <2>1. /\ c.pc = "link" /\ ch' = [ch EXCEPT ![f] = x] /\ UNCHANGED <<fe, index>>
        /\ Unit \ c.todo = Unit
    BY <1>9 DEF Linked, ChildAt, ChildGo
  <2>2. HasTask(f, h, Capsule) /\ AllLinked(f, h, Unit) /\ TheKernel(f) \in Mpi
    BY <1>1, <2>1 DEF StageOf, ChildUnits
  <2>3. Complete(f, h)
    BY <2>2 DEF TheKernel, Complete, Entry
  <2>4. StageOf(f, h, x)
    BY <1>1, <2>1, <2>3 DEF StageOf, IsChild
  <2>5. QED
    BY <1>1, <2>1, <2>4, StageUpdate
<1>10. ~AppendRefuse(f)
  BY DEF AppendRefuse
<1>11. QED
  BY <1>2, <1>3, <1>4, <1>5, <1>6, <1>7, <1>8, <1>9, <1>10 DEF ChildStep
LEMMA AppendStage ==
    ASSUME IInv, NEW f \in Front, Stage(f), AppendEnd(f)
    PROVE  Stage(f)'
<1>1. PICK c, h, r, n : c = ch[f] /\ h = fe[f].h /\ r = NewRow(f) /\ n = Len(index) + 1
  OBVIOUS
<1> DEFINE x == [c EXCEPT !.pc = IF c.cur = Capsule THEN "link" ELSE "env_record",
                          !.todo = IF c.cur = Capsule THEN Unit ELSE c.todo]
<1>2. /\ IsChild(c) /\ StageOf(f, h, c) /\ c.pc = "append_end" /\ r.id = <<f, h, c.cur>>
      /\ ch' = [ch EXCEPT ![f] = x] /\ index' = Append(index, r) /\ UNCHANGED fe
      /\ Children /\ Fronts /\ IndexType
  <2>1. Children /\ Fronts /\ IndexType /\ IsChild(ch[f])
    BY DEF IInv, Types, Children
  <2>2. ch' = [ch EXCEPT ![f] = x]
    BY <1>1, <2>1 DEF AppendEnd, Children, IsChild
  <2>3. r.id = <<f, h, c.cur>>
    BY <1>1, <2>1, NewRowFacts
  <2>4. QED
    BY <1>1, <2>1, <2>2, <2>3 DEF AppendEnd, ChildAt, Stage
<1>3. Grows /\ n \in DOMAIN index' /\ index'[n] = r
  BY <1>1, <1>2, AppendGrows
<1>4. HasTask(f, h, c.cur)'
  BY <1>2, <1>3 DEF HasTask
<1>5. \A u : HasTask(f, h, u) => HasTask(f, h, u)'
  BY <1>3, TaskKept
<1>6. x.exit = "ok" /\ x.ok = c.ok /\ x.cur = c.cur
  BY <1>2 DEF StageOf, IsChild
<1>7. StageOf(f, h, x)'
  <2>1. CASE c.cur = Capsule
    <3>1. x.pc = "link" /\ x.todo = Unit
      BY <1>2, <2>1 DEF IsChild
    <3>2. AllLinked(f, h, Unit \ x.todo)'
      BY <3>1 DEF AllLinked
    <3>3. HasTask(f, h, Capsule)'
      BY <1>4, <2>1
    <3> HIDE DEF x
    <3>4. QED
      BY <1>6, <3>1, <3>2, <3>3 DEF StageOf
  <2>2. CASE c.cur # Capsule
    <3>1. x.pc = "env_record" /\ x.todo = c.todo
      BY <1>2, <2>2 DEF IsChild
    <3>2. 0 \notin c.todo \cup {c.cur} => c.ok /\ HasTask(f, h, 0)
      BY <1>2 DEF StageOf
    <3>3. 0 \notin c.todo => HasTask(f, h, 0)'
      BY <1>4, <1>5, <3>2
    <3> HIDE DEF x
    <3>4. QED
      BY <1>6, <3>1, <3>2, <3>3 DEF StageOf
  <2>3. QED
    BY <2>1, <2>2
<1>8. ch'[f] = x /\ fe'[f].h = h
  BY <1>1, <1>2 DEF Children
<1>9. QED
  BY <1>7, <1>8 DEF Stage

LEMMA LinkStage ==
    ASSUME IInv, NEW f \in Front, NEW v \in Unit, Stage(f), Link(f, v)
    PROVE  Stage(f)'
<1>1. PICK c, h : c = ch[f] /\ h = fe[f].h
  OBVIOUS
<1> DEFINE todo == c.todo \ {v}
           x == [c EXCEPT !.todo = todo]
<1>2. /\ IsChild(c) /\ StageOf(f, h, c) /\ c.pc = "link" /\ ch' = [ch EXCEPT ![f] = x]
      /\ UNCHANGED fe /\ Children /\ IndexType /\ Rows
  <2>1. Children /\ IndexType /\ Rows /\ IsChild(ch[f])
    BY DEF IInv, Types, Children
  <2>2. ch' = [ch EXCEPT ![f] = x]
    BY <1>1, <2>1 DEF Link, Children, IsChild
  <2>3. QED
    BY <1>1, <2>1, <2>2 DEF Link, ChildAt, Stage
<1>3. /\ Grows /\ DOMAIN index' = DOMAIN index
      /\ \A k \in DOMAIN index :
             index'[k].linked = (index[k].linked \/ index[k].id = <<f, h, v>>)
  BY <1>1, <1>2, LinkGrows DEF TaskId
<1>4. x.pc = "link" /\ x.exit = "ok" /\ x.todo = todo
  BY <1>2 DEF StageOf, IsChild
<1> HIDE DEF x
<1>5. HasTask(f, h, Capsule)'
  <2>1. PICK e : e = Capsule
    OBVIOUS
  <2>2. HasTask(f, h, e)
    BY <1>2, <2>1 DEF StageOf
  <2>3. HasTask(f, h, e)'
    BY <1>3, <2>2, TaskKept
  <2>4. QED
    BY <2>1, <2>3 DEF HasTask, Capsule
<1>6. AllLinked(f, h, Unit \ todo)'
  <2> SUFFICES ASSUME NEW k \in DOMAIN index', NEW u \in Unit \ todo, index'[k].id = <<f, h, u>>
               PROVE  index'[k].linked
    BY DEF AllLinked
  <2>1. index[k].id = <<f, h, u>> /\ k \in DOMAIN index
    BY <1>3 DEF Grows
  <2>2. CASE u = v
    BY <1>3, <2>1, <2>2
  <2>3. CASE u # v
    <3>1. u \in Unit \ c.todo
      BY <2>3
    <3>2. index[k].linked
      BY <1>2, <2>1, <3>1 DEF StageOf, AllLinked
    <3>3. QED
      BY <1>3, <2>1, <3>2 DEF Grows
  <2>4. QED
    BY <2>2, <2>3
<1>7. StageOf(f, h, x)'
  BY <1>4, <1>5, <1>6 DEF StageOf
<1>8. ch'[f] = x /\ fe'[f].h = h
  BY <1>1, <1>2 DEF Children
<1>9. QED
  BY <1>7, <1>8 DEF Stage

(* The rows of other handles are left alone, all rows are in time, and the *)
(* kernel gets on.                                                         *)
Advances(f) ==
    /\ Grows /\ (\A g \in Front \ {f} : \A h : NoneNew(g, h))
    /\ (\A h : h # fe[f].h => NoneNew(f, h)) /\ Stage(f)'
    /\ \A k \in DOMAIN index' : index'[k].utc = MaxFail

LEMMA ChildTidy ==
    ASSUME IInv, Tidy, clock = MaxFail, NEW f \in Front, ChildUnits(f), ChildStep(f)
    PROVE  Tidy'
<1>1. /\ ChildSteps(f) /\ Stage(f) /\ Handles(f) /\ ~broken /\ OnTime /\ Fronts /\ IndexType
      /\ Rows
  BY DEF ChildSteps, Tidy, IInv, Types
<1>2. ChildMoves(f)
  BY <1>1, ChildStepsMove
<1>3. /\ UNCHANGED <<fe, record>> /\ fe[f].pc \in {"wait", "dead"}
      /\ \A g \in Front \ {f} : ch'[g] = ch[g]
  BY <1>2 DEF ChildMoves, IInv, Forked
<1>4. ~broken'
  BY <1>1 DEF ChildStep, RunOk, WriteRecord, Link, AppendBegin, AppendRefuse, AppendEnd,
              CountTask, CountTaskRow, Written, CreateCapsule, Linked
<1>5. Advances(f)
  <2>1. CASE AppendEnd(f)
    <3>1. PICK r, n, u : r = NewRow(f) /\ n = Len(index) + 1 /\ u = ch[f].cur
      OBVIOUS
    <3>2. r.id = <<f, fe[f].h, u>> /\ r.utc = ch[f].utc
      BY <1>1, <3>1, NewRowFacts
    <3>3. /\ Grows /\ DOMAIN index' = DOMAIN index \cup {n} /\ index'[n] = r
          /\ \A k \in DOMAIN index : index'[k] = index[k]
      BY <1>1, <2>1, <3>1, AppendGrows DEF AppendEnd
    <3>4. ch[f].utc = MaxFail
      BY <1>1, <2>1 DEF AppendEnd, ChildAt, Stage, StageOf
    <3>5. \A g, h : g # f \/ h # fe[f].h => NoneNew(g, h)
      BY <3>2, <3>3, IdParts DEF NoneNew
    <3>6. \A k \in DOMAIN index' : index'[k].utc = MaxFail
      BY <1>1, <3>2, <3>3, <3>4 DEF OnTime
    <3>7. QED
      BY <1>1, <2>1, <3>3, <3>5, <3>6, AppendStage DEF Advances
  <2>2. ASSUME NEW u \in Unit, Link(f, u)
        PROVE  Advances(f)
    <3>1. Grows /\ DOMAIN index' = DOMAIN index
      BY <1>1, <2>2, LinkGrows
    <3>2. \A g, h : NoneNew(g, h)
      BY <3>1 DEF NoneNew
    <3>3. \A k \in DOMAIN index' : index'[k].utc = MaxFail
      BY <1>1, <3>1 DEF Grows, OnTime
    <3>4. QED
      BY <1>1, <2>2, <3>1, <3>2, <3>3, LinkStage DEF Advances
  <2>3. CASE ~AppendEnd(f) /\ ~\E u \in Unit : Link(f, u)
    <3>1. UNCHANGED index
      BY <1>1, <2>3, ChildStepsMove
    <3>2. Grows /\ (\A g, h : NoneNew(g, h)) /\ \A k \in DOMAIN index' : index'[k].utc = MaxFail
      BY <1>1, <3>1 DEF Grows, NoneNew, OnTime
    <3>3. QED
      BY <1>1, <2>3, <3>2, QuietStage DEF Advances
  <2>4. QED
    BY <2>1, <2>2, <2>3
<1>6. OnTime'
  BY <1>1, <1>3, <1>5 DEF OnTime, Advances
<1>7. Handles(f)' /\ InOrder(f)'
  BY <1>1, <1>3, <1>5, HandlesKept DEF Advances
<1>8. ASSUME NEW g \in Front \ {f}
      PROVE  Stage(g)' /\ Handles(g)' /\ InOrder(g)'
  BY <1>3, <1>5, OthersGood DEF Tidy, Advances
<1>9. QED
  BY <1>4, <1>5, <1>6, <1>7, <1>8 DEF Tidy, Advances
(* The entry point of a finished handle, in the snapshot. *)
LEMMA EntryRow ==
    ASSUME IInv, RowUnits, OnTime, NEW f \in Front, fe[f].pc \in Ended,
           NEW h \in DOMAIN Job[f].plan, Complete(f, h)
    PROVE  \E k \in DOMAIN fe[f].snap :
               /\ EntryPoint(f, fe[f].snap[k]) /\ fe[f].snap[k].id = <<f, h, Entry(f, h)>>
               /\ fe[f].snap[k] = index[k]
<1>1. PICK k \in DOMAIN index : index[k].id = <<f, h, Entry(f, h)>>
  BY DEF Complete, HasTask
<1>2. RowOK(index[k]) /\ IsRow(index[k]) /\ Snapshot(f)
  BY DEF IInv, IndexType, Rows, Ending
<1>3. index[k].batch = f /\ index[k].id[2] = h /\ index[k].id[3] = Entry(f, h)
  BY <1>1, <1>2, IdParts DEF RowOK
<1>4. ~index[k].linked
  BY <1>2, <1>3 DEF RowOK, RowUnits, Entry
<1>5. index[k].utc >= fe[f].utc
  <2>1. index[k].utc = MaxFail /\ fe[f].utc = MaxFail
    BY DEF OnTime, Ended, Late
  <2>2. QED
    BY <2>1, JobFacts
<1>6. k \in DOMAIN fe[f].snap /\ fe[f].snap[k] = index[k]
  BY <1>2, <1>3 DEF Snapshot
<1>7. QED
  BY <1>1, <1>3, <1>4, <1>5, <1>6 DEF EntryPoint

(* The next row that counts is the entry point of the next handle: its     *)
(* other rows are linked, and the rows of the handles are in order.        *)
LEMMA NextEntry ==
    ASSUME IInv, RowUnits, Ordered, OnTime, NEW f \in Front, fe[f].pc = "collect",
           Handles(f), InOrder(f), fe[f].pos \in DOMAIN fe[f].snap,
           EntryPoint(f, fe[f].snap[fe[f].pos])
    PROVE  LET n == Len(record[f].ids) + 1 IN
           fe[f].snap[fe[f].pos].id = <<f, n, Entry(f, n)>>
<1> DEFINE p == fe[f].pos
           x == fe[f].snap[p]
           ids == record[f].ids
           L == Len(ids)
           h == x.id[2]
<1>1. fe[f].pc \in Ended /\ Snapshot(f) /\ Loop(f) /\ Rows
  BY DEF IInv, Ending, Ended
<1>2. /\ x = index[p] /\ p \in DOMAIN index /\ RowOK(x) /\ IsRow(x) /\ x.batch = f
      /\ ~x.linked
  <2>1. x.batch = f /\ ~x.linked
    BY DEF EntryPoint
  <2>2. x = index[p] /\ p \in DOMAIN index
    BY <1>1, <2>1 DEF Snapshot
  <2>3. QED
    BY <2>1, <2>2 DEF IInv, IndexType, Rows
<1>3. /\ h \in DOMAIN Job[f].plan /\ x.kernel = Job[f].plan[h] /\ x.id = <<f, h, x.id[3]>>
  BY <1>2 DEF RowOK
<1>4. L \in Nat /\ Range(ids) = Ids(f) /\ DOMAIN ids = 1..L
  BY <1>1 DEF Loop
<1>5. h \in Nat /\ h >= 1 /\ \A m \in Nat : m >= 1 /\ m <= h => m \in DOMAIN Job[f].plan
  <2>1. PICK n \in DOMAIN Job[f].plan : n = h
    BY <1>3
  <2>2. Len(Job[f].plan) \in Nat /\ DOMAIN Job[f].plan = 1..Len(Job[f].plan)
    BY PlanFacts
  <2>3. n \in Nat /\ n >= 1 /\ \A m \in Nat : m >= 1 /\ m <= n => m \in DOMAIN Job[f].plan
    BY <2>2
  <2>4. QED
    BY <2>1, <2>3
<1>6. \A m \in DOMAIN Job[f].plan : Complete(f, m)
  BY <1>1 DEF Handles
<1>7. x.id[3] = Entry(f, h)
  <2>1. CASE Job[f].plan[h] \in Mpi
    <3>1. x.id[3] \in Unit => x.linked
      BY <1>2, <1>3, <1>6, <2>1 DEF Complete, AllLinked
    <3>2. x.id[3] \in Units
      BY <1>2 DEF RowUnits
    <3>3. QED
      BY <1>2, <2>1, <3>1, <3>2 DEF Units, Entry
  <2>2. CASE Job[f].plan[h] \notin Mpi
    BY <1>2, <1>3, <2>2 DEF RowUnits, Entry
  <2>3. QED
    BY <2>1, <2>2
<1>8. \A i \in 1..L : ids[i] = <<f, i, Entry(f, i)>>
  BY <1>1 DEF InOrder
<1>9. x.id \notin Ids(f)
  BY <1>1, RowIsNew
<1> HIDE DEF h, L, ids, x, p
<1>10. ~(h <= L)
  <2> SUFFICES ASSUME h <= L
               PROVE  FALSE
    OBVIOUS
  <2>1. h \in 1..L
    BY <1>4, <1>5
  <2>2. ids[h] = x.id
    BY <1>3, <1>7, <1>8, <2>1
  <2>3. ids[h] \in Range(ids)
    BY <1>4, <2>1 DEF Range
  <2>4. QED
    BY <1>4, <1>9, <2>2, <2>3
<1>11. ~(L + 1 < h)
  <2> SUFFICES ASSUME L + 1 < h
               PROVE  FALSE
    OBVIOUS
  <2>1. PICK m \in DOMAIN Job[f].plan : m = L + 1
    BY <1>4, <1>5
  <2>2. PICK k \in DOMAIN fe[f].snap :
            /\ EntryPoint(f, fe[f].snap[k]) /\ fe[f].snap[k].id = <<f, m, Entry(f, m)>>
            /\ fe[f].snap[k] = index[k]
    BY <1>1, <1>6, EntryRow
  <2>3. /\ index[k].batch = f /\ index[k].id[2] = m /\ k \in DOMAIN index
        /\ k \in Nat /\ p \in Nat
    <3>1. index[k].batch = f
      BY <2>2 DEF EntryPoint
    <3>2. index[k].id[2] = m
      BY <2>2, IdParts
    <3>3. k \in DOMAIN index /\ k \in Nat /\ p \in Nat
      BY <1>1 DEF Snapshot, p
    <3>4. QED
      BY <3>1, <3>2, <3>3
  <2>4. CASE k < p
    <3>1. index[k].id \in Range(ids)
      BY <1>4, <2>2, <2>4 DEF Ids, Seen, p
    <3>2. PICK i \in 1..L : index[k].id = <<f, i, Entry(f, i)>>
      BY <1>4, <1>8, <3>1 DEF Range
    <3>3. m = i
      BY <2>3, <3>2, IdParts
    <3>4. QED
      BY <1>4, <2>1, <3>3
  <2>5. CASE k = p
    BY <1>2, <1>4, <1>5, <2>1, <2>3, <2>5 DEF h
  <2>6. CASE p < k
    <3>1. h <= m
      BY <1>2, <2>3, <2>6 DEF Ordered, h
    <3>2. QED
      BY <1>4, <1>5, <2>1, <3>1
  <2>7. QED
    BY <2>3, <2>4, <2>5, <2>6
<1>12. h = L + 1
  BY <1>4, <1>5, <1>10, <1>11
<1>13. QED
  BY <1>3, <1>7, <1>12 DEF L, ids, x, p
LEMMA HandlesReaped ==
    ASSUME IInv, NEW f \in Front, Stage(f), Handles(f), Reap(f)
    PROVE  Handles(f)' /\ InOrder(f)'
<1>1. /\ Fronts /\ Children /\ IsFront(f, fe[f]) /\ IsChild(ch[f]) /\ fe[f].pc = "wait"
      /\ ch[f].pc = "exit" /\ UNCHANGED index
  BY DEF IInv, Types, Fronts, Children, Reap, At, ChildAt
<1>2. ch[f].exit = "ok" /\ Complete(f, fe[f].h)
  BY <1>1 DEF Stage, StageOf
<1>3. PICK h \in DOMAIN Job[f].plan : h = fe[f].h
  BY <1>1 DEF IsFront
<1>4. PICK last \in Nat : last = Len(Job[f].plan) /\ DOMAIN Job[f].plan = 1..last
  BY PlanFacts
<1>5. IF h < last THEN fe'[f].pc = "spawn" /\ fe'[f].h = h + 1
                  ELSE fe'[f].pc = "scan" /\ fe'[f].h = h
  BY <1>1, <1>2, <1>3, <1>4 DEF Reap, Fronts, IsFront
<1>6. \A n \in DOMAIN Job[f].plan : n <= h => Complete(f, n)'
  <2>1. \A n \in DOMAIN Job[f].plan : n <= h => n < h \/ n = h
    BY <1>4
  <2>2. \A n \in DOMAIN Job[f].plan : n <= h => Complete(f, n)
    BY <1>2, <1>3, <2>1 DEF Handles
  <2>3. QED
    BY <1>1, <2>2 DEF Complete, HasTask, AllLinked, Entry
<1>7. CASE h < last
  <2>1. \A n \in DOMAIN Job[f].plan : n < h + 1 => n <= h
    BY <1>4
  <2>2. QED
    BY <1>5, <1>6, <1>7, <2>1 DEF Handles, InOrder, Ended, Late
<1>8. CASE ~(h < last)
  <2>1. \A n \in DOMAIN Job[f].plan : n <= h
    BY <1>4, <1>8
  <2>2. QED
    BY <1>5, <1>6, <1>8, <2>1 DEF Handles, InOrder, Ended, Late
<1>9. QED
  BY <1>7, <1>8

LEMMA OrderCollected ==
    ASSUME IInv, RowUnits, Ordered, OnTime, NEW f \in Front, Handles(f), InOrder(f), Collect(f)
    PROVE  InOrder(f)'
<1> DEFINE row == fe[f].snap[fe[f].pos]
           ids == record[f].ids
<1>1. /\ fe[f].pc = "collect" /\ Snapshot(f) /\ Loop(f) /\ fe[f].pos <= Len(fe[f].snap)
      /\ fe[f].pos \in Nat /\ Records /\ IsRecord(record[f])
  BY DEF IInv, Types, Fronts, Records, IsFront, Collect, At, Ending, Ended
<1>2. fe[f].pos \in DOMAIN fe[f].snap
  BY <1>1 DEF Snapshot, Loop
<1>3. \A i \in 1..Len(ids) : ids[i] = <<f, i, Entry(f, i)>>
  BY <1>1 DEF InOrder, Ended
<1>4. ids \in Seq(Range(ids)) /\ Len(ids) \in Nat /\ DOMAIN ids = 1..Len(ids)
  BY <1>1 DEF Loop
<1>5. CASE ~EntryPoint(f, row)
  <2>1. record' = record
    BY <1>5 DEF Collect
  <2>2. QED
    BY <1>3, <2>1 DEF InOrder, Entry
<1>6. CASE EntryPoint(f, row)
  <2>1. PICK n, id, s : n = Len(ids) + 1 /\ id = row.id /\ s = Append(ids, id)
    OBVIOUS
  <2>2. id = <<f, n, Entry(f, n)>>
    BY <1>1, <1>2, <1>6, <2>1, NextEntry
  <2>3. record'[f].ids = s
    <3>1. record' = [record EXCEPT ![f].ids = Append(@, id), ![f]["note"] = n]
      BY <1>6, <2>1, DimIsNote DEF Collect, Collected
    <3>2. QED
      BY <1>1, <2>1, <3>1 DEF Records, IsRecord
  <2>4. Len(s) = n /\ s[n] = id /\ \A i \in 1..Len(ids) : s[i] = ids[i]
    BY <1>4, <2>1, Appended
  <2>5. \A i \in 1..n : i \in 1..Len(ids) \/ i = n
    BY <1>4, <2>1
  <2>6. \A i \in 1..Len(s) : s[i] = <<f, i, Entry(f, i)>>
    BY <1>3, <2>2, <2>4, <2>5
  <2>7. QED
    BY <2>3, <2>6 DEF InOrder, Entry
<1>7. QED
  BY <1>5, <1>6

LEMMA FrontTidy ==
    ASSUME IInv, RowUnits, Ordered, Tidy, clock = MaxFail, NEW f \in Front,
           Begin(f) \/ FrontStep(f)
    PROVE  Tidy'
<1>1. FrontSteps(f) /\ Stage(f) /\ Handles(f) /\ InOrder(f) /\ OnTime /\ ~broken
  BY DEF FrontSteps, Tidy
<1>2. /\ UNCHANGED index
      /\ \A g \in Front \ {f} : fe'[g] = fe[g] /\ ch'[g] = ch[g] /\ record'[g] = record[g]
  BY <1>1, FrontStepsMove DEF FrontMoves
<1>3. Grows /\ \A g, h : NoneNew(g, h)
  BY <1>2 DEF Grows, NoneNew
<1>4. ASSUME NEW g \in Front \ {f}
      PROVE  Stage(g)' /\ Handles(g)' /\ InOrder(g)'
  BY <1>2, <1>3, OthersGood DEF Tidy
<1>5. ~broken'
  BY <1>1 DEF FrontStep, Begin, Spawn, Reap, Scan, Collect, PatchCounters, CountBatch,
              CountBatchRow, Publish
<1>6. /\ Fronts /\ IsFront(f, fe[f]) /\ Children /\ IsChild(ch[f]) /\ Records
      /\ IsRecord(record[f]) /\ (ch[f].pc # "none" => fe[f].pc \in {"wait", "dead"})
  BY DEF IInv, Types, Fronts, Children, Records, Forked
<1>7. OnTime'
  <2>1. fe'[f].utc = MaxFail
    <3>1. CASE Begin(f)
      BY <1>6, <3>1 DEF Begin, Fronts, IsFront
    <3>2. CASE FrontStep(f)
      <4>1. fe[f].pc # "new"
        BY <3>2 DEF FrontStep, At, Spawn, Reap, Scan, Collect, PatchCounters, CountBatch,
                    CountBatchRow, Publish
      <4>2. fe'[f].utc = fe[f].utc
        BY <1>6, <3>2 DEF FrontStep, Go, Spawn, Reap, Scan, Collect, PatchCounters, CountBatch,
                    CountBatchRow, Publish, Fronts, IsFront
      <4>3. QED
        BY <1>1, <4>1, <4>2 DEF OnTime
    <3>3. QED
      BY <3>1, <3>2
  <2>2. QED
    BY <1>1, <1>2, <2>1 DEF OnTime
<1>8. Stage(f)'
  <2>1. CASE Spawn(f)
    <3>1. ch'[f].pc = "run" /\ ch'[f].exit = "ok"
      BY <1>6, <2>1 DEF Spawn, Children
    <3>2. QED
      BY <3>1 DEF Stage, StageOf
  <2>2. CASE Reap(f)
    <3>1. ch'[f].pc = "none"
      BY <1>6, <2>2 DEF Reap, ChildGo, Children, IsChild
    <3>2. QED
      BY <3>1 DEF Stage, StageOf
  <2>3. CASE ~Spawn(f) /\ ~Reap(f)
    <3>1. ch'[f] = ch[f] /\ ch[f].pc = "none"
      BY <1>6, <2>3 DEF FrontStep, At, Begin, Scan, Collect, PatchCounters, CountBatch,
                  CountBatchRow, Publish
    <3>2. QED
      BY <3>1 DEF Stage, StageOf
  <2>4. QED
    BY <2>1, <2>2, <2>3
<1>9. ASSUME ~Reap(f)
      PROVE  Handles(f)'
  <2>1. /\ fe'[f].h = fe[f].h
        /\ fe'[f].pc \in {"scan"} \cup Ended => fe[f].pc \in {"scan"} \cup Ended
    BY <1>6, <1>9 DEF FrontStep, At, Go, Begin, Spawn, Scan, Collect, PatchCounters, CountBatch,
                CountBatchRow, Publish, Fronts, IsFront, Ended, Late
  <2>2. \A n : Complete(f, n) => Complete(f, n)'
    BY <1>3, CompleteKept DEF NoneNew
  <2>3. QED
    BY <1>1, <2>1, <2>2 DEF Handles
<1>10. ASSUME ~Reap(f), ~Collect(f), ~Scan(f)
       PROVE  InOrder(f)'
  <2>1. /\ record'[f].ids = record[f].ids
        /\ fe'[f].pc \in Ended => fe[f].pc \in Ended
    <3>1. CASE Begin(f)
      BY <1>6, <3>1 DEF Begin, At, Skeleton, IInv, Fresh, Early, Fronts, IsFront, Records,
                        IsRecord, Ended, Late
    <3>2. CASE FrontStep(f)
      BY <1>6, <1>10, <3>2 DEF FrontStep, At, Go, Spawn, PatchCounters, CountBatch,
                CountBatchRow, Publish, Fronts, IsFront, Records, IsRecord, Ended, Late
    <3>3. QED
      BY <3>1, <3>2
  <2>2. QED
    BY <1>1, <2>1 DEF InOrder, Entry
<1>11. CASE Scan(f)
  <2>1. record[f].ids = <<>> /\ UNCHANGED record
    BY <1>11 DEF Scan, At, IInv, Fresh, Early
  <2>2. Len(<<>>) = 0
    OBVIOUS
  <2>3. InOrder(f)'
    BY <2>1, <2>2 DEF InOrder
  <2>4. ~Reap(f)
    BY <1>11 DEF Scan, Reap, At
  <2>5. QED
    BY <1>4, <1>5, <1>7, <1>8, <1>9, <2>3, <2>4 DEF Tidy
<1>12. CASE Collect(f)
  <2>1. InOrder(f)'
    BY <1>1, <1>12, OrderCollected
  <2>2. ~Reap(f)
    BY <1>12 DEF Collect, Reap, At
  <2>3. QED
    BY <1>4, <1>5, <1>7, <1>8, <1>9, <2>1, <2>2 DEF Tidy
<1>13. CASE Reap(f)
  BY <1>1, <1>4, <1>5, <1>7, <1>8, <1>13, HandlesReaped DEF Tidy
<1>14. QED
  BY <1>4, <1>5, <1>7, <1>8, <1>9, <1>10, <1>11, <1>12, <1>13 DEF Tidy
LEMMA TidyInit ==
    ASSUME Init
    PROVE  TidyInv
<1>1. IInv
  BY InitInv
<1>2. /\ DOMAIN index = {} /\ broken = FALSE
      /\ \A f \in Front : fe[f].pc = "new" /\ fe[f].h = 1 /\ ch[f].pc = "none"
  BY DEF Init
<1>3. RowUnits /\ Ordered /\ \A f \in Front : ChildUnits(f)
  BY <1>2 DEF RowUnits, Ordered, ChildUnits
<1>4. OnTime
  BY <1>2 DEF OnTime
<1>5. ASSUME NEW f \in Front
      PROVE  Stage(f) /\ Handles(f) /\ InOrder(f)
  <2>1. \A h \in DOMAIN Job[f].plan : ~(h < 1)
    BY PlanFacts
  <2>2. QED
    BY <1>2, <2>1 DEF Stage, StageOf, Handles, InOrder, Ended, Late
<1>6. QED
  BY <1>1, <1>2, <1>3, <1>4, <1>5 DEF TidyInv, Tidy

LEMMA TidyNext ==
    ASSUME TidyInv, [Next]_vars
    PROVE  TidyInv'
<1>1. IInv /\ RowUnits /\ Ordered /\ (\A f \in Front : ChildUnits(f)) /\ Types
  BY DEF TidyInv, IInv
<1>2. IInv' /\ RowUnits' /\ Ordered' /\ \A f \in Front : ChildUnits(f)'
  BY <1>1, NextInv, LayoutKept
<1>3. ASSUME Good'
      PROVE  Tidy'
  <2>1. CASE UNCHANGED vars
    <3>1. UNCHANGED <<fe, ch, index, broken, record, raced, fails>>
      BY <2>1 DEF vars
    <3>2. Good /\ Tidy
      BY <1>3, <3>1 DEF Good, TidyInv
    <3>3. Grows /\ \A g, h : NoneNew(g, h)
      BY <3>1 DEF Grows, NoneNew
    <3>4. \A g \in Front : Stage(g)' /\ Handles(g)' /\ InOrder(g)'
      BY <3>1, <3>2, <3>3, OthersGood DEF Tidy
    <3>5. QED
      BY <3>1, <3>2, <3>4 DEF Tidy, OnTime
  <2>2. CASE Next
    <3>1. Good /\ \E f \in Front : Begin(f) \/ FrontStep(f) \/ ChildStep(f)
      BY <1>1, <1>3, <2>2, GoodSteps
    <3>2. Tidy /\ clock = MaxFail
      BY <1>1, <3>1, JobFacts DEF TidyInv, Good, Types, Scalars
    <3>3. QED
      BY <1>1, <3>1, <3>2, FrontTidy, ChildTidy
  <2>3. QED
    BY <2>1, <2>2
<1>4. QED
  BY <1>2, <1>3 DEF TidyInv

LEMMA ListInOrder ==
    ASSUME TidyInv, Good, NEW f \in Front, At(f, "done")
    PROVE  record[f].ids = [h \in DOMAIN Job[f].plan |->
               <<f, h, IF Job[f].plan[h] \in Mpi THEN Capsule ELSE 0>>]
<1> DEFINE ids == record[f].ids
           L == Len(ids)
           plan == Job[f].plan
<1>1. /\ IInv /\ RowUnits /\ OnTime /\ Handles(f) /\ InOrder(f)
      /\ fe[f].pc \in Ended /\ fe[f].pc \in Late
  BY DEF TidyInv, Tidy, At, Ended, Late
<1>2. Snapshot(f) /\ Loop(f)
  BY <1>1 DEF IInv, Ending
<1>3. ids \in Seq(Ids(f)) /\ L \in Nat /\ Range(ids) = Ids(f) /\ DOMAIN ids = 1..L
  BY <1>2 DEF Loop
<1>4. \A i \in 1..L : ids[i] = <<f, i, Entry(f, i)>>
  BY <1>1 DEF InOrder
<1>5. ASSUME NEW h \in DOMAIN plan
      PROVE  h \in 1..L
  <2>1. PICK k \in DOMAIN fe[f].snap :
            EntryPoint(f, fe[f].snap[k]) /\ fe[f].snap[k].id = <<f, h, Entry(f, h)>>
    BY <1>1, EntryRow DEF Handles
  <2>2. k < fe[f].pos
    <3>1. fe[f].pos > Len(fe[f].snap) /\ fe[f].pos \in Nat
      BY <1>1, <1>2 DEF Loop, IInv, Types, Fronts, IsFront
    <3>2. QED
      BY <1>2, <3>1 DEF Snapshot
  <2>3. <<f, h, Entry(f, h)>> \in Range(ids)
    BY <1>3, <2>1, <2>2 DEF Ids, Seen
  <2>4. PICK i \in 1..L : <<f, h, Entry(f, h)>> = <<f, i, Entry(f, i)>>
    BY <1>3, <1>4, <2>3 DEF Range
  <2>5. QED
    BY <2>4, IdParts
<1>6. ASSUME NEW i \in 1..L
      PROVE  i \in DOMAIN plan
  <2>1. ids[i] \in Ids(f)
    BY <1>3 DEF Range
  <2>2. PICK k \in DOMAIN index : RowOK(index[k]) /\ index[k].batch = f /\ index[k].id = ids[i]
    <3>1. PICK k \in Seen(f) : ids[i] = fe[f].snap[k].id
      BY <2>1 DEF Ids
    <3>2. k \in DOMAIN fe[f].snap /\ fe[f].snap[k].batch = f
      BY DEF Seen, EntryPoint
    <3>3. k \in DOMAIN index /\ index[k] = fe[f].snap[k]
      BY <1>2, <3>2 DEF Snapshot
    <3>4. QED
      BY <1>1, <3>1, <3>2, <3>3 DEF IInv, Rows
  <2>3. index[k].id[2] = i
    BY <1>4, <2>2, IdParts
  <2>4. QED
    BY <2>2, <2>3 DEF RowOK
<1>7. 1..L = DOMAIN plan
  BY <1>5, <1>6
<1>8. ids = [i \in 1..L |-> ids[i]]
  BY <1>3
<1> HIDE DEF ids, L, plan
<1>9. ids = [h \in DOMAIN plan |-> <<f, h, Entry(f, h)>>]
  BY <1>4, <1>7, <1>8
<1>10. QED
  BY <1>9 DEF ids, plan, Entry

(* A batch in which nothing failed and nothing was raced lists one entry   *)
(* point per handle, in their order, for any plan and number of ranks.     *)
(* The invariant follows each kernel: its rows are appended in the order   *)
(* of the handles, the ranks of an MPI kernel are linked before it ends,   *)
(* and every time stamp is the one of the unchanged clock.                 *)
THEOREM OneEntryPerHandle == Spec => []OnePerHandle
<1>1. Init => TidyInv
  BY TidyInit
<1>2. TidyInv /\ [Next]_vars => TidyInv'
  BY TidyNext
<1>3. TidyInv => OnePerHandle
  BY ListInOrder DEF OnePerHandle, Good
<1>4. QED
  BY <1>1, <1>2, <1>3, PTL DEF Spec
=============================================================================
