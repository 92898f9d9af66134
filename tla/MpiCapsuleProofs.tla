-------------------------- MODULE MpiCapsuleProofs --------------------------
(***************************************************************************)
(* Proofs about MpiCapsule, for any number of ranks and any number of      *)
(* failed calls and disturbing appends: the ranks that finish the          *)
(* recording agree on its verdict, success means that the capsule lists    *)
(* every rank's task, and nothing fails without a cause.                   *)
(***************************************************************************)
EXTENDS MpiCapsule, TLAPS

-----------------------------------------------------------------------------
(* The inductive invariant *)

(* Before the record is written; after the barrier behind the writing;     *)
(* after the broadcast of the creation; while the members are collected.   *)
Early == {"init_root", "init_bcast", "init", "init_reduce", "setup", "run", "write"}
Collecting == {"gather", "append", "append_bcast"}
Members == Collecting \cup {"alloc"}
AfterBcast == {"derive", "derive_reduce"} \cup Members \cup Finalized
AfterBarrier == {"create", "create_row", "bcast"} \cup AfterBcast

(* Where a rank is, from the calls it has passed. *)
Stage(r) ==
    /\ "barrier" \in passed[r] <=> pc[r] \in AfterBarrier
    /\ "bcast" \in passed[r] <=> pc[r] \in AfterBcast
    /\ "derive_reduce" \in passed[r] => pc[r] \in Members \cup Finalized
    /\ pc[r] \in Members => "derive_reduce" \in passed[r] /\ NRank >= 2
    /\ "alloc" \in passed[r] => pc[r] \in Collecting \cup Finalized
    /\ pc[r] \in Collecting => "alloc" \in passed[r]
    /\ "append_bcast" \in passed[r] => pc[r] \in Finalized
    /\ pc[r] \in {"create", "create_row", "append"} => r = 0

Stages == \A r \in Rank : Stage(r)

(* Nobody has passed a barrier or a reduction before all have entered it,  *)
(* nor a broadcast before rank 0 has.                                      *)
Meeting(q) ==
    /\ "barrier" \in passed[q] => All("barrier")
    /\ "derive_reduce" \in passed[q] => All("derive_reduce")
    /\ "alloc" \in passed[q] => All("alloc")
    /\ "bcast" \in passed[q] => Reached(0, "bcast")
    /\ "append_bcast" \in passed[q] => Reached(0, "append_bcast")

Meetings == \A q \in Rank : Meeting(q)

(* The verdict a rank carries is a function of what all ranks know: the    *)
(* broadcast creation, the reduced links, the broadcast appends.  Only the *)
(* failure of rank 0's allocation overrules it, on all ranks at once.      *)
AllGaveUp == \A q \in Rank : pc[q] \in Finalized /\ ~ok[q]

VerdictOf(r) ==
    /\ pc[r] \in {"derive", "derive_reduce"} \cup Members => capok
    /\ pc[r] \in Members => ok[r] = (linked = Rank)
    /\ pc[r] \in Finalized /\ ~capok => ~ok[r]
    /\ pc[r] \in Finalized /\ capok => "derive_reduce" \in passed[r]
    /\ pc[r] \in Finalized /\ capok /\ NRank = 1 => ok[r] = (linked = Rank)
    /\ pc[r] \in Finalized /\ capok /\ NRank # 1 =>
           \/ "append_bcast" \in passed[r] /\ ok[r] = (linked = Rank /\ agg)
           \/ AllGaveUp

Verdicts == \A r \in Rank : VerdictOf(r)

(* The capsule lists the identifiers of the first ranks, and a rank that   *)
(* has a record, hence every linked rank, has handed out its own.          *)
Identity(r) ==
    /\ pc[r] \in Early => r \notin records /\ r \notin linked
    /\ pc[r] \in AfterBarrier \cup {"row", "barrier"} /\ r \in records => id[r] = TaskId(r)
    /\ r \in linked => id[r] = TaskId(r) /\ pc[r] \in AfterBcast

Identities == \A r \in Rank : Identity(r)

CapsuleList ==
    /\ \A k \in 1..Len(capsule) : capsule[k] = id[k - 1]
    /\ capsule # <<>> => pc[0] \in AfterBarrier \ {"create"}
    /\ pc[0] = "create_row" => Len(capsule) >= 1
    /\ pc[0] \in AfterBcast \cup {"bcast"} /\ capok => Len(capsule) >= 1
    /\ Reached(0, "append_bcast") /\ agg => Len(capsule) = NRank

IInv == MpiTypeOK /\ Stages /\ Meetings /\ Verdicts /\ Identities /\ CapsuleList

(* As long as no call has failed and nobody else appends. *)
Smooth(r) ==
    /\ ok[r] /\ pc[r] \notin {"quit", "failed", "aborted"}
    /\ r \in busy => pc[r] \in {"row", "create_row"}
    /\ pc[r] \in {"row", "barrier"} \cup AfterBarrier => r \in records
    /\ pc[r] \in {"barrier"} \cup AfterBarrier => r \in rows
    /\ Reached(r, "derive_reduce") => r \in linked

Undisturbed ==
    fails = 0 /\ setup =>
        /\ capok /\ agg /\ Others \notin busy
        /\ \A r \in Rank : Smooth(r)

(* The types without the sequence, which most steps do not touch. *)
Kinds ==
    /\ pc \in [Rank -> Working \cup Over] /\ passed \in [Rank -> SUBSET Working]
    /\ ok \in [Rank -> BOOLEAN] /\ id \in [Rank -> 0..NRank]
    /\ records \subseteq Rank /\ rows \subseteq Rank /\ linked \subseteq Rank
    /\ busy \subseteq Rank \cup {Others}
    /\ setup \in BOOLEAN /\ capok \in BOOLEAN /\ agg \in BOOLEAN
    /\ fails \in 0..MaxFail

-----------------------------------------------------------------------------
(* The steps *)

LEMMA KindsOf == MpiTypeOK => Kinds
  BY DEF MpiTypeOK, Kinds

(* Ranks, and the identifiers they generate. *)
LEMMA RankFacts ==
    /\ 0 \in Rank /\ NRank \in Nat /\ NRank >= 1 /\ MaxFail \in Nat
    /\ \A r \in Rank : r \in Nat /\ r < NRank /\ TaskId(r) \in 0..NRank
  BY MpiCapsuleAssumption DEF Rank, TaskId

(* A failed call uses up one of the failures. *)
LEMMA CallType ==
    ASSUME fails \in 0..MaxFail, NEW v \in BOOLEAN, Call(v)
    PROVE  fails' \in 0..MaxFail
  BY RankFacts DEF Call

(* A rank goes on to its next stage. *)
LEMMA GotoType ==
    ASSUME MpiTypeOK, NEW r \in Rank, pc[r] \in Working,
           NEW s \in Working \cup Over, GoTo(r, s)
    PROVE  pc' \in [Rank -> Working \cup Over] /\ passed' \in [Rank -> SUBSET Working]
  BY DEF MpiTypeOK, GoTo

(* Every step keeps the types. *)
LEMMA TypeStep ==
    ASSUME MpiTypeOK, [MpiNext]_mpiVars
    PROVE  MpiTypeOK'
<1>1. ASSUME NEW r \in Rank, NEW v \in BOOLEAN, InitRoot(r, v) PROVE MpiTypeOK'
  BY <1>1, RankFacts, CallType DEF InitRoot, MpiTypeOK, Stands, GoTo, Stop, Verdict,
     Working, Over
<1>2. ASSUME NEW r \in Rank, InitBcast(r) PROVE MpiTypeOK'
  BY <1>2, RankFacts, CallType DEF InitBcast, MpiTypeOK, Stands, GoTo, Stop, Verdict,
     Working, Over
<1>3. ASSUME NEW r \in Rank, NEW v \in BOOLEAN, InitLocal(r, v) PROVE MpiTypeOK'
  <2>1. CASE v
    BY <2>1, <1>3, RankFacts, CallType DEF InitLocal, MpiTypeOK, Stands, GoTo, Stop,
       Verdict, Working, Over
  <2>2. CASE ~v
    BY <2>2, <1>3, RankFacts, CallType DEF InitLocal, MpiTypeOK, Stands, GoTo, Stop,
       Verdict, Working, Over
  <2>3. QED
    BY <2>1, <2>2
<1>4. ASSUME NEW r \in Rank, InitReduce(r) PROVE MpiTypeOK'
  BY <1>4, RankFacts, CallType DEF InitReduce, MpiTypeOK, Stands, GoTo, Stop, Verdict,
     Working, Over
<1>5. ASSUME NEW r \in Rank, Setup(r) PROVE MpiTypeOK'
  BY <1>5, RankFacts, CallType DEF Setup, MpiTypeOK, Stands, GoTo, Stop, Verdict,
     Working, Over
<1>6. ASSUME NEW r \in Rank, Run(r) PROVE MpiTypeOK'
  BY <1>6, RankFacts, CallType DEF Run, MpiTypeOK, Stands, GoTo, Stop, Verdict,
     Working, Over
<1>7. ASSUME NEW r \in Rank, NEW v \in BOOLEAN, WriteRecord(r, v) PROVE MpiTypeOK'
  <2>1. fails' \in 0..MaxFail
    BY <1>7, CallType DEF WriteRecord, MpiTypeOK
  <2>2. pc' \in [Rank -> Working \cup Over] /\ passed' \in [Rank -> SUBSET Working]
    <3>1. {"write", "row", "barrier"} \subseteq Working
      BY DEF Working
    <3>2. \E s \in Working : GoTo(r, s)
      BY <1>7, <3>1 DEF WriteRecord
    <3>3. QED
      BY <1>7, <3>1, <3>2, GotoType DEF WriteRecord, Stands
  <2>3. ok' \in [Rank -> BOOLEAN]
    BY <1>7 DEF WriteRecord, Verdict, MpiTypeOK
  <2>4. id' \in [Rank -> 0..NRank] /\ records' \subseteq Rank /\ busy' \subseteq Rank \cup {Others}
    BY <1>7, RankFacts DEF WriteRecord, MpiTypeOK
  <2>5. QED
    BY <1>7, <2>1, <2>2, <2>3, <2>4 DEF WriteRecord, MpiTypeOK
<1>8. ASSUME NEW r \in Rank, NEW row \in BOOLEAN, NEW count \in BOOLEAN,
   WriteRow(r, row, count) PROVE MpiTypeOK'
  BY <1>8, RankFacts, CallType DEF WriteRow, MpiTypeOK, Stands, GoTo, Stop, Verdict,
     Working, Over
<1>9. ASSUME NEW r \in Rank, Barrier(r) PROVE MpiTypeOK'
  BY <1>9, RankFacts, CallType DEF Barrier, MpiTypeOK, Stands, GoTo, Stop, Verdict,
     Working, Over
<1>10. ASSUME NEW v \in BOOLEAN, CreateRecord(v) PROVE MpiTypeOK'
  <2>1. fails' \in 0..MaxFail
    BY <1>10, CallType DEF CreateRecord, MpiTypeOK
  <2>2. pc' \in [Rank -> Working \cup Over] /\ passed' \in [Rank -> SUBSET Working]
    <3>1. {"create", "create_row", "bcast"} \subseteq Working
      BY DEF Working
    <3>2. \E s \in Working : GoTo(0, s)
      BY <1>10, <3>1 DEF CreateRecord
    <3>3. QED
      BY <1>10, <3>1, <3>2, GotoType, RankFacts DEF CreateRecord, Stands
  <2>3. capsule' \in Seq(0..NRank) /\ Len(capsule') <= NRank
    <3>1. id[0] \in 0..NRank
      BY RankFacts DEF MpiTypeOK
    <3>2. <<id[0]>> \in Seq(0..NRank) /\ Len(<<id[0]>>) = 1
      BY <3>1
    <3>3. QED
      BY <1>10, <3>2, RankFacts DEF CreateRecord, MpiTypeOK
  <2>4. busy' \subseteq Rank \cup {Others} /\ capok' \in BOOLEAN
    BY <1>10, RankFacts DEF CreateRecord, MpiTypeOK
  <2>5. QED
    BY <1>10, <2>1, <2>2, <2>3, <2>4 DEF CreateRecord, MpiTypeOK
<1>11. ASSUME NEW v \in BOOLEAN, CreateRow(v) PROVE MpiTypeOK'
  BY <1>11, RankFacts, CallType DEF CreateRow, MpiTypeOK, Stands, GoTo, Stop, Verdict,
     Working, Over
<1>12. ASSUME NEW r \in Rank, Bcast(r) PROVE MpiTypeOK'
  BY <1>12, RankFacts, CallType DEF Bcast, MpiTypeOK, Stands, GoTo, Stop, Verdict,
     Working, Over
<1>13. ASSUME NEW r \in Rank, NEW v \in BOOLEAN, Derive(r, v) PROVE MpiTypeOK'
  BY <1>13, RankFacts, CallType DEF Derive, MpiTypeOK, Stands, GoTo, Stop, Verdict,
     Working, Over
<1>14. ASSUME NEW r \in Rank, DeriveReduce(r) PROVE MpiTypeOK'
  BY <1>14, RankFacts, CallType DEF DeriveReduce, MpiTypeOK, Stands, GoTo, Stop,
     Verdict, Working, Over
<1>15. ASSUME NEW r \in Rank, Alloc(r) PROVE MpiTypeOK'
  BY <1>15, RankFacts, CallType DEF Alloc, MpiTypeOK, Stands, GoTo, Stop, Verdict,
     Working, Over
<1>16. ASSUME NEW r \in Rank, Gather(r) PROVE MpiTypeOK'
  BY <1>16, RankFacts, CallType DEF Gather, MpiTypeOK, Stands, GoTo, Stop, Verdict,
     Working, Over
<1>17. ASSUME NEW v \in BOOLEAN, AppendOne(v) PROVE MpiTypeOK'
  <2>1. fails' \in 0..MaxFail
    BY <1>17, CallType DEF AppendOne, MpiTypeOK
  <2>2. capsule' \in Seq(0..NRank) /\ Len(capsule') <= NRank
    <3>1. Len(capsule) \in Rank /\ Len(capsule) \in Nat
      BY <1>17, RankFacts DEF AppendOne, MpiTypeOK, Rank
    <3>2. id[Len(capsule)] \in 0..NRank
      BY <3>1 DEF MpiTypeOK
    <3>3. CASE v
      BY <1>17, <3>1, <3>2, <3>3, RankFacts DEF AppendOne, MpiTypeOK
    <3>4. CASE ~v
      BY <1>17, <3>4 DEF AppendOne, MpiTypeOK
    <3>5. QED
      BY <3>3, <3>4
  <2>3. QED
    BY <1>17, <2>1, <2>2 DEF AppendOne, MpiTypeOK
<1>18. ASSUME AppendStop PROVE MpiTypeOK'
  BY <1>18, RankFacts, CallType DEF AppendStop, MpiTypeOK, Stands, GoTo, Stop, Verdict,
     Working, Over
<1>19. ASSUME NEW r \in Rank, AppendBcast(r) PROVE MpiTypeOK'
  BY <1>19, RankFacts, CallType DEF AppendBcast, MpiTypeOK, Stands, GoTo, Stop,
     Verdict, Working, Over
<1>20. ASSUME NEW r \in Rank, EndBarrier(r) PROVE MpiTypeOK'
  BY <1>20, RankFacts, CallType DEF EndBarrier, MpiTypeOK, Stands, GoTo, Stop, Verdict,
     Working, Over
<1>21. ASSUME NEW r \in Rank, RunAbort(r) PROVE MpiTypeOK'
  BY <1>21, RankFacts, CallType DEF RunAbort, MpiTypeOK, Stands, GoTo, Stop, Verdict,
     Working, Over
<1>22. ASSUME NEW r \in Rank, NEW written \in BOOLEAN, RunFail(r, written) PROVE
   MpiTypeOK'
  BY <1>22, RankFacts, CallType DEF RunFail, MpiTypeOK, Stands, GoTo, Stop, Verdict,
     Working, Over
<1>23. ASSUME InitAllocFail PROVE MpiTypeOK'
  BY <1>23, RankFacts, CallType DEF InitAllocFail, MpiTypeOK, Stands, GoTo, Stop,
     Verdict, Working, Over
<1>24. ASSUME AllocFail PROVE MpiTypeOK'
  BY <1>24, RankFacts, CallType DEF AllocFail, MpiTypeOK, Stands, GoTo, Stop, Verdict,
     Working, Over
<1>25. ASSUME OthersAppend PROVE MpiTypeOK'
  BY <1>25, RankFacts, CallType DEF OthersAppend, MpiTypeOK, Stands, GoTo, Stop,
     Verdict, Working, Over
<1>26. CASE UNCHANGED mpiVars
  BY <1>26 , RankFacts, CallType DEF mpiVars, MpiTypeOK, Stands, GoTo, Stop, Verdict,
     Working, Over
<1>27. QED
  BY <1>1, <1>2, <1>3, <1>4, <1>5, <1>6, <1>7, <1>8, <1>9, <1>10, <1>11, <1>12,
     <1>13, <1>14, <1>15, <1>16, <1>17, <1>18, <1>19, <1>20, <1>21, <1>22,
     <1>23, <1>24, <1>25, <1>26 DEF MpiNext, RankStep

(* The stages of a rank follow the code's order. *)
LEMMA StagesStep ==
    ASSUME IInv, [MpiNext]_mpiVars
    PROVE  Stages'
<1>0. Kinds /\ Stages /\ Meetings
  BY KindsOf DEF IInv
<1> USE <1>0, RankFacts DEF Kinds, Stages, Stage, Meetings, Meeting, All,
   Reached, Stands, GoTo, Stop, Early, Collecting, Members, AfterBcast,
   AfterBarrier, Finalized
<1>1. ASSUME NEW r \in Rank, NEW v \in BOOLEAN, InitRoot(r, v) PROVE Stages'
  BY <1>1 DEF InitRoot
<1>2. ASSUME NEW r \in Rank, InitBcast(r) PROVE Stages'
  BY <1>2 DEF InitBcast
<1>3. ASSUME NEW r \in Rank, NEW v \in BOOLEAN, InitLocal(r, v) PROVE Stages'
  BY <1>3 DEF InitLocal
<1>4. ASSUME NEW r \in Rank, InitReduce(r) PROVE Stages'
  BY <1>4 DEF InitReduce
<1>5. ASSUME NEW r \in Rank, Setup(r) PROVE Stages'
  BY <1>5 DEF Setup
<1>6. ASSUME NEW r \in Rank, Run(r) PROVE Stages'
  BY <1>6 DEF Run
<1>7. ASSUME NEW r \in Rank, NEW v \in BOOLEAN, WriteRecord(r, v) PROVE
   Stages'
  <2>1. Stands(r, "write") /\ (GoTo(r, "row") \/ GoTo(r, "barrier"))
    BY <1>7 DEF WriteRecord
  <2>2. Stage(r)'
    <3>1. pc'[r] \in {"row", "barrier"} /\ passed'[r] = passed[r] \cup {"write"}
      BY <2>1
    <3>2. passed[r] \cap {"barrier", "bcast", "derive_reduce", "alloc", "append_bcast"} = {}
      BY <2>1
    <3>3. QED
      BY <3>1, <3>2
  <2>3. ASSUME NEW q \in Rank, q # r PROVE Stage(q)'
    <3>1. pc'[q] = pc[q] /\ passed'[q] = passed[q]
      BY <2>1, <2>3
    <3>2. QED
      BY <3>1
  <2>4. QED
    BY <2>2, <2>3
<1>8. ASSUME NEW r \in Rank, NEW row \in BOOLEAN, NEW count \in BOOLEAN,
   WriteRow(r, row, count) PROVE Stages'
  BY <1>8 DEF WriteRow
<1>9. ASSUME NEW r \in Rank, Barrier(r) PROVE Stages'
  BY <1>9 DEF Barrier
<1>10. ASSUME NEW v \in BOOLEAN, CreateRecord(v) PROVE Stages'
  BY <1>10 DEF CreateRecord
<1>11. ASSUME NEW v \in BOOLEAN, CreateRow(v) PROVE Stages'
  BY <1>11 DEF CreateRow
<1>12. ASSUME NEW r \in Rank, Bcast(r) PROVE Stages'
  BY <1>12 DEF Bcast
<1>13. ASSUME NEW r \in Rank, NEW v \in BOOLEAN, Derive(r, v) PROVE Stages'
  BY <1>13 DEF Derive
<1>14. ASSUME NEW r \in Rank, DeriveReduce(r) PROVE Stages'
  BY <1>14 DEF DeriveReduce
<1>15. ASSUME NEW r \in Rank, Alloc(r) PROVE Stages'
  BY <1>15 DEF Alloc
<1>16. ASSUME NEW r \in Rank, Gather(r) PROVE Stages'
  BY <1>16 DEF Gather
<1>17. ASSUME NEW v \in BOOLEAN, AppendOne(v) PROVE Stages'
  BY <1>17 DEF AppendOne
<1>18. ASSUME AppendStop PROVE Stages'
  BY <1>18 DEF AppendStop
<1>19. ASSUME NEW r \in Rank, AppendBcast(r) PROVE Stages'
  BY <1>19 DEF AppendBcast
<1>20. ASSUME NEW r \in Rank, EndBarrier(r) PROVE Stages'
  BY <1>20 DEF EndBarrier
<1>21. ASSUME NEW r \in Rank, RunAbort(r) PROVE Stages'
  <2>1. \A q \in Rank : "barrier" \notin passed[q]
    BY <1>21 DEF RunAbort
  <2>2. QED
    BY <1>21, <2>1 DEF RunAbort
<1>22. ASSUME NEW r \in Rank, NEW written \in BOOLEAN, RunFail(r, written)
   PROVE Stages'
  BY <1>22 DEF RunFail
<1>23. ASSUME InitAllocFail PROVE Stages'
  BY <1>23 DEF InitAllocFail
<1>24. ASSUME AllocFail PROVE Stages'
  BY <1>24 DEF AllocFail
<1>25. ASSUME OthersAppend PROVE Stages'
  BY <1>25 DEF OthersAppend
<1>26. CASE UNCHANGED mpiVars
  BY <1>26 DEF mpiVars
<1>27. QED
  BY <1>1, <1>2, <1>3, <1>4, <1>5, <1>6, <1>7, <1>8, <1>9, <1>10, <1>11,
     <1>12, <1>13, <1>14, <1>15, <1>16, <1>17, <1>18, <1>19, <1>20, <1>21,
     <1>22, <1>23, <1>24, <1>25, <1>26 DEF MpiNext, RankStep

(* The collective calls keep the ranks together. *)
LEMMA MeetingsStep ==
    ASSUME IInv, [MpiNext]_mpiVars
    PROVE  Meetings'
<1>0. Kinds /\ Stages /\ Meetings
  BY KindsOf DEF IInv
<1> USE <1>0, RankFacts DEF Kinds, Stages, Stage, Meetings, Meeting, All,
   Reached, Stands, GoTo, Stop, Early, Collecting, Members, AfterBcast,
   AfterBarrier, Finalized
<1>1. ASSUME NEW r \in Rank, NEW v \in BOOLEAN, InitRoot(r, v) PROVE Meetings'
  BY <1>1 DEF InitRoot
<1>2. ASSUME NEW r \in Rank, InitBcast(r) PROVE Meetings'
  BY <1>2 DEF InitBcast
<1>3. ASSUME NEW r \in Rank, NEW v \in BOOLEAN, InitLocal(r, v) PROVE
   Meetings'
  BY <1>3 DEF InitLocal
<1>4. ASSUME NEW r \in Rank, InitReduce(r) PROVE Meetings'
  BY <1>4 DEF InitReduce
<1>5. ASSUME NEW r \in Rank, Setup(r) PROVE Meetings'
  BY <1>5 DEF Setup
<1>6. ASSUME NEW r \in Rank, Run(r) PROVE Meetings'
  BY <1>6 DEF Run
<1>7. ASSUME NEW r \in Rank, NEW v \in BOOLEAN, WriteRecord(r, v) PROVE
   Meetings'
  <2>1. Stands(r, "write") /\ (GoTo(r, "row") \/ GoTo(r, "barrier"))
    BY <1>7 DEF WriteRecord
  <2>2. \A q \in Rank : passed[q] \cap {"barrier", "bcast", "derive_reduce",
     "alloc", "append_bcast"} = {}
    <3>1. \A q \in Rank : "barrier" \notin passed[q]
      BY <2>1
    <3>2. QED
      BY <3>1
  <2>3. \A q \in Rank : passed'[q] \subseteq passed[q] \cup {"write"}
    BY <2>1
  <2>4. \A q \in Rank : passed'[q] \cap {"barrier", "bcast", "derive_reduce",
     "alloc", "append_bcast"} = {}
    BY <2>2, <2>3
  <2>5. QED
    BY <2>4
<1>8. ASSUME NEW r \in Rank, NEW row \in BOOLEAN, NEW count \in BOOLEAN,
   WriteRow(r, row, count) PROVE Meetings'
  BY <1>8 DEF WriteRow
<1>9. ASSUME NEW r \in Rank, Barrier(r) PROVE Meetings'
  BY <1>9 DEF Barrier
<1>10. ASSUME NEW v \in BOOLEAN, CreateRecord(v) PROVE Meetings'
  BY <1>10 DEF CreateRecord
<1>11. ASSUME NEW v \in BOOLEAN, CreateRow(v) PROVE Meetings'
  BY <1>11 DEF CreateRow
<1>12. ASSUME NEW r \in Rank, Bcast(r) PROVE Meetings'
  BY <1>12 DEF Bcast
<1>13. ASSUME NEW r \in Rank, NEW v \in BOOLEAN, Derive(r, v) PROVE Meetings'
  BY <1>13 DEF Derive
<1>14. ASSUME NEW r \in Rank, DeriveReduce(r) PROVE Meetings'
  BY <1>14 DEF DeriveReduce
<1>15. ASSUME NEW r \in Rank, Alloc(r) PROVE Meetings'
  BY <1>15 DEF Alloc
<1>16. ASSUME NEW r \in Rank, Gather(r) PROVE Meetings'
  BY <1>16 DEF Gather
<1>17. ASSUME NEW v \in BOOLEAN, AppendOne(v) PROVE Meetings'
  BY <1>17 DEF AppendOne
<1>18. ASSUME AppendStop PROVE Meetings'
  BY <1>18 DEF AppendStop
<1>19. ASSUME NEW r \in Rank, AppendBcast(r) PROVE Meetings'
  BY <1>19 DEF AppendBcast
<1>20. ASSUME NEW r \in Rank, EndBarrier(r) PROVE Meetings'
  BY <1>20 DEF EndBarrier
<1>21. ASSUME NEW r \in Rank, RunAbort(r) PROVE Meetings'
  BY <1>21 DEF RunAbort
<1>22. ASSUME NEW r \in Rank, NEW written \in BOOLEAN, RunFail(r, written)
   PROVE Meetings'
  BY <1>22 DEF RunFail
<1>23. ASSUME InitAllocFail PROVE Meetings'
  BY <1>23 DEF InitAllocFail
<1>24. ASSUME AllocFail PROVE Meetings'
  BY <1>24 DEF AllocFail
<1>25. ASSUME OthersAppend PROVE Meetings'
  BY <1>25 DEF OthersAppend
<1>26. CASE UNCHANGED mpiVars
  BY <1>26 DEF mpiVars
<1>27. QED
  BY <1>1, <1>2, <1>3, <1>4, <1>5, <1>6, <1>7, <1>8, <1>9, <1>10, <1>11,
     <1>12, <1>13, <1>14, <1>15, <1>16, <1>17, <1>18, <1>19, <1>20, <1>21,
     <1>22, <1>23, <1>24, <1>25, <1>26 DEF MpiNext, RankStep

(* The verdicts follow from what the ranks know together. *)
LEMMA VerdictsStep ==
    ASSUME IInv, [MpiNext]_mpiVars
    PROVE  Verdicts'
<1>0. Kinds /\ Stages /\ Meetings /\ Verdicts
  BY KindsOf DEF IInv
<1> USE <1>0, RankFacts DEF Kinds, Stages, Stage, Meetings, Meeting, Verdicts,
    VerdictOf, AllGaveUp, All, Reached, Stands, GoTo, Stop, Verdict,
   Early, Collecting, Members, AfterBcast, AfterBarrier, Finalized
<1>1. ASSUME NEW r \in Rank, NEW v \in BOOLEAN, InitRoot(r, v) PROVE Verdicts'
  BY <1>1 DEF InitRoot
<1>2. ASSUME NEW r \in Rank, InitBcast(r) PROVE Verdicts'
  BY <1>2 DEF InitBcast
<1>3. ASSUME NEW r \in Rank, NEW v \in BOOLEAN, InitLocal(r, v) PROVE
   Verdicts'
  BY <1>3 DEF InitLocal
<1>4. ASSUME NEW r \in Rank, InitReduce(r) PROVE Verdicts'
  BY <1>4 DEF InitReduce
<1>5. ASSUME NEW r \in Rank, Setup(r) PROVE Verdicts'
  BY <1>5 DEF Setup
<1>6. ASSUME NEW r \in Rank, Run(r) PROVE Verdicts'
  BY <1>6 DEF Run
<1>7. ASSUME NEW r \in Rank, NEW v \in BOOLEAN, WriteRecord(r, v) PROVE
   Verdicts'
  <2>1. Stands(r, "write") /\ (GoTo(r, "row") \/ GoTo(r, "barrier"))
    BY <1>7 DEF WriteRecord
  <2>2. \A q \in Rank : pc[q] \notin AfterBarrier
    BY <2>1
  <2>3. \A q \in Rank : pc'[q] \notin AfterBarrier
    BY <2>1, <2>2
  <2>4. QED
    BY <2>3
<1>8. ASSUME NEW r \in Rank, NEW row \in BOOLEAN, NEW count \in BOOLEAN,
   WriteRow(r, row, count) PROVE Verdicts'
  BY <1>8 DEF WriteRow
<1>9. ASSUME NEW r \in Rank, Barrier(r) PROVE Verdicts'
  BY <1>9 DEF Barrier
<1>10. ASSUME NEW v \in BOOLEAN, CreateRecord(v) PROVE Verdicts'
  BY <1>10 DEF CreateRecord
<1>11. ASSUME NEW v \in BOOLEAN, CreateRow(v) PROVE Verdicts'
  BY <1>11 DEF CreateRow
<1>12. ASSUME NEW r \in Rank, Bcast(r) PROVE Verdicts'
  BY <1>12 DEF Bcast
<1>13. ASSUME NEW r \in Rank, NEW v \in BOOLEAN, Derive(r, v) PROVE Verdicts'
  BY <1>13 DEF Derive
<1>14. ASSUME NEW r \in Rank, DeriveReduce(r) PROVE Verdicts'
  BY <1>14 DEF DeriveReduce
<1>15. ASSUME NEW r \in Rank, Alloc(r) PROVE Verdicts'
  BY <1>15 DEF Alloc
<1>16. ASSUME NEW r \in Rank, Gather(r) PROVE Verdicts'
  BY <1>16 DEF Gather
<1>17. ASSUME NEW v \in BOOLEAN, AppendOne(v) PROVE Verdicts'
  BY <1>17 DEF AppendOne
<1>18. ASSUME AppendStop PROVE Verdicts'
  BY <1>18 DEF AppendStop
<1>19. ASSUME NEW r \in Rank, AppendBcast(r) PROVE Verdicts'
  <2>1. /\ Stands(r, "append_bcast") /\ GoTo(r, "end_barrier")
        /\ ok' = [ok EXCEPT ![r] = ok[r] /\ agg] /\ UNCHANGED <<linked, capok, agg>>
    BY <1>19 DEF AppendBcast
  <2>2. /\ pc'[r] = "end_barrier" /\ passed'[r] = passed[r] \cup {"append_bcast"}
        /\ ok'[r] = (ok[r] /\ agg)
    BY <2>1
  <2>3. capok /\ ok[r] = (linked = Rank) /\ NRank >= 2 /\ "derive_reduce" \in passed[r]
    BY <2>1
  <2>4. VerdictOf(r)'
    BY <2>1, <2>2, <2>3
  <2>5. ASSUME NEW q \in Rank, q # r PROVE VerdictOf(q)'
    <3>1. pc'[q] = pc[q] /\ passed'[q] = passed[q] /\ ok'[q] = ok[q]
      BY <2>1, <2>5
    <3>2. ~AllGaveUp
      BY <2>1
    <3>3. QED
      BY <2>1, <3>1, <3>2
  <2>6. QED
    BY <2>4, <2>5
<1>20. ASSUME NEW r \in Rank, EndBarrier(r) PROVE Verdicts'
  BY <1>20 DEF EndBarrier
<1>21. ASSUME NEW r \in Rank, RunAbort(r) PROVE Verdicts'
  BY <1>21 DEF RunAbort
<1>22. ASSUME NEW r \in Rank, NEW written \in BOOLEAN, RunFail(r, written)
   PROVE Verdicts'
  BY <1>22 DEF RunFail
<1>23. ASSUME InitAllocFail PROVE Verdicts'
  BY <1>23 DEF InitAllocFail
<1>24. ASSUME AllocFail PROVE Verdicts'
  <2>1. \A q \in Rank : pc'[q] = "end_barrier" /\ ~ok'[q] /\ "derive_reduce" \in
     passed'[q]
    BY <1>24 DEF AllocFail
  <2>2. AllGaveUp'
    BY <2>1
  <2>3. capok' = TRUE
    BY <1>24 DEF AllocFail
  <2>4. SUFFICES ASSUME NEW q \in Rank PROVE VerdictOf(q)'
    OBVIOUS
  <2>5. pc'[q] = "end_barrier" /\ ~ok'[q] /\ "derive_reduce" \in passed'[q]
    BY <2>1
  <2>6. NRank # 1
    BY <1>24 DEF AllocFail
  <2>7. QED
    BY <2>2, <2>3, <2>5, <2>6
<1>25. ASSUME OthersAppend PROVE Verdicts'
  BY <1>25 DEF OthersAppend
<1>26. CASE UNCHANGED mpiVars
  BY <1>26 DEF mpiVars
<1>27. QED
  BY <1>1, <1>2, <1>3, <1>4, <1>5, <1>6, <1>7, <1>8, <1>9, <1>10, <1>11,
     <1>12, <1>13, <1>14, <1>15, <1>16, <1>17, <1>18, <1>19, <1>20, <1>21,
     <1>22, <1>23, <1>24, <1>25, <1>26 DEF MpiNext, RankStep

(* A rank is linked by the identifier it generated. *)
LEMMA IdentitiesStep ==
    ASSUME IInv, [MpiNext]_mpiVars
    PROVE  Identities'
<1>0. Kinds /\ Stages /\ Meetings /\ Identities
  BY KindsOf DEF IInv
<1> USE <1>0, RankFacts DEF Kinds, Identities, Identity, Linkable, Stands, GoTo,
   Stop, Early, Collecting, Members, AfterBcast, AfterBarrier, Finalized
<1>1. ASSUME NEW r \in Rank, NEW v \in BOOLEAN, InitRoot(r, v) PROVE
   Identities'
  BY <1>1 DEF InitRoot
<1>2. ASSUME NEW r \in Rank, InitBcast(r) PROVE Identities'
  BY <1>2 DEF InitBcast
<1>3. ASSUME NEW r \in Rank, NEW v \in BOOLEAN, InitLocal(r, v) PROVE
   Identities'
  BY <1>3 DEF InitLocal
<1>4. ASSUME NEW r \in Rank, InitReduce(r) PROVE Identities'
  BY <1>4 DEF InitReduce
<1>5. ASSUME NEW r \in Rank, Setup(r) PROVE Identities'
  BY <1>5 DEF Setup
<1>6. ASSUME NEW r \in Rank, Run(r) PROVE Identities'
  BY <1>6 DEF Run
<1>7. ASSUME NEW r \in Rank, NEW v \in BOOLEAN, WriteRecord(r, v) PROVE
   Identities'
  <2>1. /\ Stands(r, "write") /\ (GoTo(r, "row") \/ GoTo(r, "barrier")) /\ UNCHANGED linked
        /\ \A q \in Rank : q # r => id'[q] = id[q] /\ (q \in records' <=> q \in records)
    <3>1. CASE v
      BY <1>7, <3>1 DEF WriteRecord
    <3>2. CASE ~v
      BY <1>7, <3>2 DEF WriteRecord
    <3>3. QED
      BY <3>1, <3>2
  <2>2. r \in records' => id'[r] = TaskId(r)
    <3>1. r \notin records
      BY <2>1
    <3>2. QED
      BY <1>7, <3>1 DEF WriteRecord
  <2>3. Identity(r)'
    BY <2>1, <2>2
  <2>4. ASSUME NEW q \in Rank, q # r PROVE Identity(q)'
    <3>1. pc'[q] = pc[q]
      BY <2>1, <2>4
    <3>2. QED
      BY <2>1, <2>4, <3>1
  <2>5. QED
    BY <2>3, <2>4
<1>8. ASSUME NEW r \in Rank, NEW row \in BOOLEAN, NEW count \in BOOLEAN,
   WriteRow(r, row, count) PROVE Identities'
  BY <1>8 DEF WriteRow
<1>9. ASSUME NEW r \in Rank, Barrier(r) PROVE Identities'
  BY <1>9 DEF Barrier
<1>10. ASSUME NEW v \in BOOLEAN, CreateRecord(v) PROVE Identities'
  BY <1>10 DEF CreateRecord
<1>11. ASSUME NEW v \in BOOLEAN, CreateRow(v) PROVE Identities'
  BY <1>11 DEF CreateRow
<1>12. ASSUME NEW r \in Rank, Bcast(r) PROVE Identities'
  BY <1>12 DEF Bcast
<1>13. ASSUME NEW r \in Rank, NEW v \in BOOLEAN, Derive(r, v) PROVE
   Identities'
  BY <1>13 DEF Derive
<1>14. ASSUME NEW r \in Rank, DeriveReduce(r) PROVE Identities'
  BY <1>14 DEF DeriveReduce
<1>15. ASSUME NEW r \in Rank, Alloc(r) PROVE Identities'
  BY <1>15 DEF Alloc
<1>16. ASSUME NEW r \in Rank, Gather(r) PROVE Identities'
  BY <1>16 DEF Gather
<1>17. ASSUME NEW v \in BOOLEAN, AppendOne(v) PROVE Identities'
  BY <1>17 DEF AppendOne
<1>18. ASSUME AppendStop PROVE Identities'
  BY <1>18 DEF AppendStop
<1>19. ASSUME NEW r \in Rank, AppendBcast(r) PROVE Identities'
  BY <1>19 DEF AppendBcast
<1>20. ASSUME NEW r \in Rank, EndBarrier(r) PROVE Identities'
  BY <1>20 DEF EndBarrier
<1>21. ASSUME NEW r \in Rank, RunAbort(r) PROVE Identities'
  <2>1. \A q \in Rank : "barrier" \notin passed[q]
    BY <1>21 DEF RunAbort, Stages, Stage, Meetings, Meeting, All, Reached
  <2>2. linked = {}
    BY <2>1 DEF Stages, Stage
  <2>3. QED
    BY <1>21, <2>2 DEF RunAbort
<1>22. ASSUME NEW r \in Rank, NEW written \in BOOLEAN, RunFail(r, written)
   PROVE Identities'
  BY <1>22 DEF RunFail
<1>23. ASSUME InitAllocFail PROVE Identities'
  BY <1>23 DEF InitAllocFail
<1>24. ASSUME AllocFail PROVE Identities'
  BY <1>24 DEF AllocFail
<1>25. ASSUME OthersAppend PROVE Identities'
  BY <1>25 DEF OthersAppend
<1>26. CASE UNCHANGED mpiVars
  BY <1>26 DEF mpiVars
<1>27. QED
  BY <1>1, <1>2, <1>3, <1>4, <1>5, <1>6, <1>7, <1>8, <1>9, <1>10, <1>11,
     <1>12, <1>13, <1>14, <1>15, <1>16, <1>17, <1>18, <1>19, <1>20, <1>21,
     <1>22, <1>23, <1>24, <1>25, <1>26 DEF MpiNext, RankStep

(* The capsule grows in rank order. *)
LEMMA CapsuleListStep ==
    ASSUME IInv, [MpiNext]_mpiVars
    PROVE  CapsuleList'
<1>0. Kinds /\ Stages /\ Meetings /\ Identities /\ CapsuleList
  BY KindsOf DEF IInv
<1>00. capsule \in Seq(0..NRank) /\ Len(capsule) <= NRank
  BY DEF IInv, MpiTypeOK
<1> USE <1>0, <1>00, RankFacts DEF Kinds, Stages, Stage, Meetings, Meeting,
   CapsuleList, Identities, Identity, All, Reached, Stands, GoTo, Stop, Early,
   Collecting, Members, AfterBcast, AfterBarrier, Finalized
<1>1. ASSUME NEW r \in Rank, NEW v \in BOOLEAN, InitRoot(r, v) PROVE
   CapsuleList'
  BY <1>1 DEF InitRoot
<1>2. ASSUME NEW r \in Rank, InitBcast(r) PROVE CapsuleList'
  BY <1>2 DEF InitBcast
<1>3. ASSUME NEW r \in Rank, NEW v \in BOOLEAN, InitLocal(r, v) PROVE
   CapsuleList'
  BY <1>3 DEF InitLocal
<1>4. ASSUME NEW r \in Rank, InitReduce(r) PROVE CapsuleList'
  BY <1>4 DEF InitReduce
<1>5. ASSUME NEW r \in Rank, Setup(r) PROVE CapsuleList'
  BY <1>5 DEF Setup
<1>6. ASSUME NEW r \in Rank, Run(r) PROVE CapsuleList'
  BY <1>6 DEF Run
<1>7. ASSUME NEW r \in Rank, NEW v \in BOOLEAN, WriteRecord(r, v) PROVE
   CapsuleList'
  <2>1. Stands(r, "write") /\ (GoTo(r, "row") \/ GoTo(r, "barrier"))
    BY <1>7 DEF WriteRecord
  <2>2. \A q \in Rank : pc[q] \notin AfterBarrier
    BY <2>1
  <2>3. capsule = <<>> /\ capsule' = capsule
    BY <1>7, <2>2 DEF WriteRecord
  <2>4. \A q \in Rank : "append_bcast" \notin passed[q]
    BY <2>2
  <2>5. /\ pc'[0] = pc[0] \/ pc'[0] = "row" \/ pc'[0] = "barrier"
        /\ passed'[0] = passed[0] \/ passed'[0] = passed[0] \cup {"write"}
    BY <2>1
  <2>6. pc'[0] \notin AfterBarrier /\ "append_bcast" \notin passed'[0]
    BY <2>2, <2>4, <2>5
  <2>7. QED
    BY <2>3, <2>6
<1>8. ASSUME NEW r \in Rank, NEW row \in BOOLEAN, NEW count \in BOOLEAN,
   WriteRow(r, row, count) PROVE CapsuleList'
  BY <1>8 DEF WriteRow
<1>9. ASSUME NEW r \in Rank, Barrier(r) PROVE CapsuleList'
  BY <1>9 DEF Barrier
<1>10. ASSUME NEW v \in BOOLEAN, CreateRecord(v) PROVE CapsuleList'
  BY <1>10 DEF CreateRecord
<1>11. ASSUME NEW v \in BOOLEAN, CreateRow(v) PROVE CapsuleList'
  <2>1. Stands(0, "create_row") /\ GoTo(0, "bcast") /\ UNCHANGED <<capsule, agg, id>>
    BY <1>11 DEF CreateRow
  <2>2. Len(capsule) >= 1
    BY <1>11 DEF CreateRow
  <2>3. QED
    BY <2>1, <2>2
<1>12. ASSUME NEW r \in Rank, Bcast(r) PROVE CapsuleList'
  BY <1>12 DEF Bcast
<1>13. ASSUME NEW r \in Rank, NEW v \in BOOLEAN, Derive(r, v) PROVE
   CapsuleList'
  BY <1>13 DEF Derive
<1>14. ASSUME NEW r \in Rank, DeriveReduce(r) PROVE CapsuleList'
  BY <1>14 DEF DeriveReduce
<1>15. ASSUME NEW r \in Rank, Alloc(r) PROVE CapsuleList'
  BY <1>15 DEF Alloc
<1>16. ASSUME NEW r \in Rank, Gather(r) PROVE CapsuleList'
  BY <1>16 DEF Gather
<1>17. ASSUME NEW v \in BOOLEAN, AppendOne(v) PROVE CapsuleList'
  <2>1. /\ Stands(0, "append") /\ Len(capsule) < NRank /\ UNCHANGED <<pc, passed, id, capok>>
        /\ ~v => UNCHANGED capsule /\ agg' = FALSE
        /\ v => capsule' = Append(capsule, id[Len(capsule)])
    BY <1>17 DEF AppendOne
  <2>2. ~Reached(0, "append_bcast")
    BY <2>1
  <2>3. Len(capsule') >= Len(capsule) /\ (v => capsule' # <<>>)
    BY <2>1
  <2>4. ASSUME NEW k \in 1..Len(capsule') PROVE capsule'[k] = id[k - 1]
    <3>1. CASE v
      <4>1. Len(capsule') = Len(capsule) + 1
        BY <2>1, <3>1
      <4>2. CASE k \in 1..Len(capsule)
        <5>1. capsule' = Append(capsule, id[Len(capsule)]) /\ capsule \in Seq(0..NRank)
          BY <2>1, <3>1
        <5>2. capsule'[k] = capsule[k]
          BY ONLY <5>1, <4>2
        <5>3. capsule[k] = id[k - 1]
          BY <4>2
        <5>4. QED
          BY ONLY <5>2, <5>3
      <4>3. CASE k = Len(capsule) + 1
        BY <2>1, <3>1, <4>3
      <4>4. QED
        BY <4>1, <4>2, <4>3
    <3>2. CASE ~v
      BY <2>1, <3>2
    <3>3. QED
      BY <3>1, <3>2
  <2>5. QED
    BY <2>1, <2>2, <2>3, <2>4
<1>18. ASSUME AppendStop PROVE CapsuleList'
  BY <1>18 DEF AppendStop
<1>19. ASSUME NEW r \in Rank, AppendBcast(r) PROVE CapsuleList'
  BY <1>19 DEF AppendBcast
<1>20. ASSUME NEW r \in Rank, EndBarrier(r) PROVE CapsuleList'
  BY <1>20 DEF EndBarrier
<1>21. ASSUME NEW r \in Rank, RunAbort(r) PROVE CapsuleList'
  BY <1>21 DEF RunAbort
<1>22. ASSUME NEW r \in Rank, NEW written \in BOOLEAN, RunFail(r, written)
   PROVE CapsuleList'
  BY <1>22 DEF RunFail
<1>23. ASSUME InitAllocFail PROVE CapsuleList'
  BY <1>23 DEF InitAllocFail
<1>24. ASSUME AllocFail PROVE CapsuleList'
  BY <1>24 DEF AllocFail
<1>25. ASSUME OthersAppend PROVE CapsuleList'
  BY <1>25 DEF OthersAppend
<1>26. CASE UNCHANGED mpiVars
  BY <1>26 DEF mpiVars
<1>27. QED
  BY <1>1, <1>2, <1>3, <1>4, <1>5, <1>6, <1>7, <1>8, <1>9, <1>10, <1>11,
     <1>12, <1>13, <1>14, <1>15, <1>16, <1>17, <1>18, <1>19, <1>20, <1>21,
     <1>22, <1>23, <1>24, <1>25, <1>26 DEF MpiNext, RankStep

(* The count of failures is still zero: the call succeeded. *)
LEMMA CallSucceeds ==
    ASSUME fails \in 0..MaxFail, NEW v \in BOOLEAN, Call(v), fails' = 0
    PROVE  v /\ fails = 0
  BY RankFacts DEF Call

(* Nothing fails without a failed call or a disturbing append. *)
LEMMA UndisturbedStep ==
    ASSUME IInv, Undisturbed, [MpiNext]_mpiVars
    PROVE  Undisturbed'
<1>0. Kinds /\ Stages /\ Meetings /\ Undisturbed
  BY KindsOf DEF IInv
<1> USE <1>0, RankFacts DEF Kinds, Undisturbed, Smooth, Linkable, Stages,
   Stage, Meetings, Meeting, All, Reached, Stands, GoTo, Stop, Verdict, Early,
   Collecting, Members, AfterBcast, AfterBarrier, Finalized
<1>1. ASSUME NEW r \in Rank, NEW v \in BOOLEAN, InitRoot(r, v) PROVE
   Undisturbed'
  <2> SUFFICES ASSUME fails' = 0, setup'
               PROVE  Undisturbed'
    OBVIOUS
  <2>1. setup /\ fails = 0
    BY <1>1, CallSucceeds DEF InitRoot
  <2>2. v
    BY <1>1, <2>1, CallSucceeds DEF InitRoot
  <2>3. /\ Stands(r, "init_root") /\ GoTo(r, "init_bcast")
        /\ UNCHANGED <<records, rows, busy, linked, capok, agg>>
    BY <1>1 DEF InitRoot
  <2>4. \A q \in Rank : ok'[q]
    BY <1>1, <2>1, <2>2 DEF InitRoot
  <2>5. \A q \in Rank : Smooth(q)'
    BY <2>1, <2>3, <2>4
  <2>6. QED
    BY <2>1, <2>3, <2>5
<1>2. ASSUME NEW r \in Rank, InitBcast(r) PROVE Undisturbed'
  BY <1>2 DEF InitBcast
<1>3. ASSUME NEW r \in Rank, NEW v \in BOOLEAN, InitLocal(r, v) PROVE
   Undisturbed'
  <2> SUFFICES ASSUME fails' = 0, setup'
               PROVE  Undisturbed'
    OBVIOUS
  <2>1. setup /\ fails = 0
    BY <1>3, CallSucceeds DEF InitLocal
  <2>2. v
    BY <1>3, <2>1, CallSucceeds DEF InitLocal
  <2>3. /\ Stands(r, "init") /\ GoTo(r, "init_reduce")
        /\ UNCHANGED <<records, rows, busy, linked, capok, agg>>
    BY <1>3 DEF InitLocal
  <2>4. \A q \in Rank : ok'[q]
    BY <1>3, <2>1, <2>2 DEF InitLocal
  <2>5. \A q \in Rank : Smooth(q)'
    BY <2>1, <2>3, <2>4
  <2>6. QED
    BY <2>1, <2>3, <2>5
<1>4. ASSUME NEW r \in Rank, InitReduce(r) PROVE Undisturbed'
  BY <1>4 DEF InitReduce
<1>5. ASSUME NEW r \in Rank, Setup(r) PROVE Undisturbed'
  BY <1>5 DEF Setup
<1>6. ASSUME NEW r \in Rank, Run(r) PROVE Undisturbed'
  BY <1>6 DEF Run
<1>7. ASSUME NEW r \in Rank, NEW v \in BOOLEAN, WriteRecord(r, v) PROVE
   Undisturbed'
  <2> SUFFICES ASSUME fails' = 0, setup'
               PROVE  Undisturbed'
    OBVIOUS
  <2>1. setup /\ fails = 0
    BY <1>7, CallSucceeds DEF WriteRecord
  <2>2. v
    BY <1>7, <2>1, CallSucceeds DEF WriteRecord
  <2>3. /\ Stands(r, "write") /\ GoTo(r, "row") /\ UNCHANGED <<ok, capok, agg, linked, rows>>
        /\ records' = records \cup {r} /\ busy' = busy \cup {r}
    BY <1>7, <2>2 DEF WriteRecord
  <2>4. \A q \in Rank : Smooth(q)'
    BY <2>1, <2>3
  <2>5. Others \notin busy'
    BY <2>1, <2>3 DEF Others
  <2>6. QED
    BY <2>1, <2>3, <2>4, <2>5
<1>8. ASSUME NEW r \in Rank, NEW row \in BOOLEAN, NEW count \in BOOLEAN,
   WriteRow(r, row, count) PROVE Undisturbed'
  <2> SUFFICES ASSUME fails' = 0, setup'
               PROVE  Undisturbed'
    OBVIOUS
  <2>1. setup /\ fails = 0
    BY <1>8, CallSucceeds DEF WriteRow
  <2>2. row /\ count
    BY <1>8, <2>1, CallSucceeds DEF WriteRow
  <2>3. QED
    BY <1>8, <2>1, <2>2 DEF WriteRow
<1>9. ASSUME NEW r \in Rank, Barrier(r) PROVE Undisturbed'
  BY <1>9 DEF Barrier
<1>10. ASSUME NEW v \in BOOLEAN, CreateRecord(v) PROVE Undisturbed'
  <2> SUFFICES ASSUME fails' = 0, setup'
               PROVE  Undisturbed'
    OBVIOUS
  <2>1. setup /\ fails = 0
    BY <1>10, CallSucceeds DEF CreateRecord
  <2>2. v
    BY <1>10, <2>1, CallSucceeds DEF CreateRecord
  <2>3. /\ Stands(0, "create") /\ GoTo(0, "create_row") /\ UNCHANGED <<ok, agg, linked, rows, records>>
        /\ capok' = TRUE /\ busy' = busy \cup {0}
    BY <1>10, <2>2 DEF CreateRecord
  <2>4. \A q \in Rank : Smooth(q)'
    BY <2>1, <2>3
  <2>5. Others \notin busy'
    BY <2>1, <2>3 DEF Others
  <2>6. QED
    BY <2>1, <2>3, <2>4, <2>5
<1>11. ASSUME NEW v \in BOOLEAN, CreateRow(v) PROVE Undisturbed'
  <2> SUFFICES ASSUME fails' = 0, setup'
               PROVE  Undisturbed'
    OBVIOUS
  <2>1. setup /\ fails = 0
    BY <1>11, CallSucceeds DEF CreateRow
  <2>2. v
    BY <1>11, <2>1, CallSucceeds DEF CreateRow
  <2>3. QED
    BY <1>11, <2>1, <2>2 DEF CreateRow
<1>12. ASSUME NEW r \in Rank, Bcast(r) PROVE Undisturbed'
  BY <1>12 DEF Bcast
<1>13. ASSUME NEW r \in Rank, NEW v \in BOOLEAN, Derive(r, v) PROVE
   Undisturbed'
  <2> SUFFICES ASSUME fails' = 0, setup'
               PROVE  Undisturbed'
    OBVIOUS
  <2>1. setup /\ fails = 0
    BY <1>13, CallSucceeds DEF Derive
  <2>2. v
    BY <1>13, <2>1, CallSucceeds DEF Derive
  <2>3. QED
    BY <1>13, <2>1, <2>2 DEF Derive
<1>14. ASSUME NEW r \in Rank, DeriveReduce(r) PROVE Undisturbed'
  <2> SUFFICES ASSUME fails' = 0, setup'
               PROVE  Undisturbed'
    OBVIOUS
  <2>1. /\ setup /\ fails = 0 /\ Stands(r, "derive_reduce") /\ All("derive_reduce")
        /\ GoTo(r, "alloc") \/ GoTo(r, "end_barrier")
        /\ UNCHANGED <<records, rows, busy, linked, capok, agg>>
    BY <1>14 DEF DeriveReduce
  <2>2. linked = Rank
    BY <2>1
  <2>3. \A q \in Rank : ok'[q]
    BY <1>14, <2>1, <2>2 DEF DeriveReduce
  <2>4. \A q \in Rank : Smooth(q)'
    BY <2>1, <2>3
  <2>5. QED
    BY <2>1, <2>4
<1>15. ASSUME NEW r \in Rank, Alloc(r) PROVE Undisturbed'
  BY <1>15 DEF Alloc
<1>16. ASSUME NEW r \in Rank, Gather(r) PROVE Undisturbed'
  BY <1>16 DEF Gather
<1>17. ASSUME NEW v \in BOOLEAN, AppendOne(v) PROVE Undisturbed'
  <2> SUFFICES ASSUME fails' = 0, setup'
               PROVE  Undisturbed'
    OBVIOUS
  <2>1. setup /\ fails = 0
    BY <1>17, CallSucceeds DEF AppendOne
  <2>2. v
    BY <1>17, <2>1, CallSucceeds DEF AppendOne
  <2>3. QED
    BY <1>17, <2>1, <2>2 DEF AppendOne
<1>18. ASSUME AppendStop PROVE Undisturbed'
  BY <1>18 DEF AppendStop
<1>19. ASSUME NEW r \in Rank, AppendBcast(r) PROVE Undisturbed'
  BY <1>19 DEF AppendBcast
<1>20. ASSUME NEW r \in Rank, EndBarrier(r) PROVE Undisturbed'
  BY <1>20 DEF EndBarrier
<1>21. ASSUME NEW r \in Rank, RunAbort(r) PROVE Undisturbed'
  <2>1. fails' # 0
    BY <1>21, CallSucceeds DEF RunAbort
  <2>2. QED
    BY <2>1
<1>22. ASSUME NEW r \in Rank, NEW written \in BOOLEAN, RunFail(r, written)
   PROVE Undisturbed'
  <2>1. fails' # 0
    BY <1>22, CallSucceeds DEF RunFail
  <2>2. QED
    BY <2>1
<1>23. ASSUME InitAllocFail PROVE Undisturbed'
  <2>1. fails' # 0
    BY <1>23, CallSucceeds DEF InitAllocFail
  <2>2. QED
    BY <2>1
<1>24. ASSUME AllocFail PROVE Undisturbed'
  <2>1. fails' # 0
    BY <1>24, CallSucceeds DEF AllocFail
  <2>2. QED
    BY <2>1
<1>25. ASSUME OthersAppend PROVE Undisturbed'
  BY <1>25 DEF OthersAppend
<1>26. CASE UNCHANGED mpiVars
  BY <1>26 DEF mpiVars
<1>27. QED
  BY <1>1, <1>2, <1>3, <1>4, <1>5, <1>6, <1>7, <1>8, <1>9, <1>10, <1>11,
     <1>12, <1>13, <1>14, <1>15, <1>16, <1>17, <1>18, <1>19, <1>20, <1>21,
     <1>22, <1>23, <1>24, <1>25, <1>26 DEF MpiNext, RankStep

-----------------------------------------------------------------------------
(* The theorems *)

LEMMA InitInv ==
    ASSUME MpiInit
    PROVE  IInv /\ Undisturbed
<1> USE RankFacts DEF MpiInit, Early, Collecting, Members, AfterBcast, AfterBarrier, Finalized
<1>1. MpiTypeOK
  <2>1. /\ pc \in [Rank -> Working \cup Over] /\ passed \in [Rank -> SUBSET Working]
        /\ ok \in [Rank -> BOOLEAN] /\ id \in [Rank -> 0..NRank] /\ setup \in BOOLEAN
    BY DEF Working, ZeroId
  <2>2. fails \in 0..MaxFail
    OBVIOUS
  <2>3. capsule \in Seq(0..NRank) /\ Len(capsule) <= NRank
    <3>1. <<>> \in Seq(0..NRank) /\ Len(<<>>) = 0
      OBVIOUS
    <3>2. capsule = <<>> /\ 0 <= NRank
      OBVIOUS
    <3>3. QED
      BY ONLY <3>1, <3>2
  <2>4. /\ records \subseteq Rank /\ rows \subseteq Rank /\ linked \subseteq Rank
        /\ busy \subseteq Rank \cup {Others}
        /\ capok \in BOOLEAN /\ agg \in BOOLEAN /\ object \in BOOLEAN
    OBVIOUS
  <2>5. QED
    BY ONLY <2>1, <2>2, <2>3, <2>4 DEF MpiTypeOK
<1>2. Stages /\ Meetings
  BY DEF Stages, Stage, Meetings, Meeting
<1>3. Verdicts /\ Identities
  BY DEF Verdicts, VerdictOf, Identities, Identity
<1>4. CapsuleList
  BY DEF CapsuleList, Reached, Stands
<1>5. Undisturbed
  BY DEF Undisturbed, Smooth, Reached, Stands
<1>6. QED
  BY <1>1, <1>2, <1>3, <1>4, <1>5 DEF IInv

(* The inductive invariant holds in every state of the job. *)
THEOREM Invariance == MpiSpec => [](IInv /\ Undisturbed)
<1>1. MpiInit => IInv /\ Undisturbed
  BY InitInv
<1>2. (IInv /\ Undisturbed) /\ [MpiNext]_mpiVars => (IInv /\ Undisturbed)'
  <2> SUFFICES ASSUME IInv, Undisturbed, [MpiNext]_mpiVars
               PROVE  IInv' /\ Undisturbed'
    OBVIOUS
  <2>1. MpiTypeOK'
    BY TypeStep DEF IInv
  <2>2. Stages' /\ Meetings' /\ Verdicts'
    BY StagesStep, MeetingsStep, VerdictsStep
  <2>3. Identities' /\ CapsuleList' /\ Undisturbed'
    BY IdentitiesStep, CapsuleListStep, UndisturbedStep
  <2>4. QED
    BY <2>1, <2>2, <2>3 DEF IInv
<1>3. QED
  BY <1>1, <1>2, PTL DEF MpiSpec

(* The types of the stages, identifiers and lists of one MPI job. *)
THEOREM TypeCorrect == MpiSpec => []MpiTypeOK
<1>1. IInv => MpiTypeOK
  BY DEF IInv
<1>2. QED
  BY <1>1, Invariance, PTL

(* _sf_mpik_write_task returns the same verdict on every rank, whichever   *)
(* calls fail on whichever ranks, for any number of ranks.                 *)
THEOREM Agreement == MpiSpec => []VerdictAgreed
<1>1. IInv => VerdictAgreed
  <2> SUFFICES ASSUME IInv, NEW q \in Rank, NEW r \in Rank,
                      pc[q] \in Finalized, pc[r] \in Finalized
               PROVE  ok[q] = ok[r]
    BY DEF VerdictAgreed
  <2>1. VerdictOf(q) /\ VerdictOf(r)
    BY DEF IInv, Verdicts
  <2>2. ok[q] \in BOOLEAN /\ ok[r] \in BOOLEAN /\ capok \in BOOLEAN
    BY DEF IInv, MpiTypeOK
  <2>3. CASE ~capok
    BY <2>1, <2>2, <2>3 DEF VerdictOf
  <2>4. CASE capok /\ NRank = 1
    BY <2>1, <2>2, <2>4 DEF VerdictOf
  <2>5. CASE capok /\ NRank # 1
    BY <2>1, <2>2, <2>5 DEF VerdictOf, AllGaveUp
  <2>6. QED
    BY <2>2, <2>3, <2>4, <2>5
<1>2. QED
  BY <1>1, Invariance, PTL

(* "MPI Task recorded ... included n tasks" is said only of a capsule that *)
(* lists the task of each of the n ranks, in rank order, all of them       *)
(* linked to it, for any number of ranks.                                  *)
THEOREM Completeness == MpiSpec => []SuccessIsComplete
<1>1. IInv => SuccessIsComplete
  <2> SUFFICES ASSUME IInv, NEW r \in Rank, pc[r] \in Finalized, ok[r]
               PROVE  /\ Len(capsule) = NRank
                      /\ \A q \in Rank : capsule[q + 1] = TaskId(q)
                      /\ linked = Rank
    BY DEF SuccessIsComplete
  <2>1. VerdictOf(r)
    BY DEF IInv, Verdicts
  <2>2. capok
    BY <2>1 DEF VerdictOf, IInv, MpiTypeOK
  <2>3. linked = Rank
    BY <2>1, <2>2 DEF VerdictOf, AllGaveUp
  <2>4. Len(capsule) = NRank
    <3>1. CASE NRank = 1
      <4>1. r = 0
        BY <3>1 DEF Rank
      <4>2. Len(capsule) >= 1
        BY <2>2, <4>1 DEF IInv, CapsuleList, AfterBcast
      <4>3. capsule \in Seq(0..NRank) /\ Len(capsule) <= NRank
        BY DEF IInv, MpiTypeOK
      <4>4. Len(capsule) \in Nat
        BY ONLY <4>3
      <4>5. \A n \in Nat : n >= 1 /\ n <= 1 => n = 1
        OBVIOUS
      <4>6. QED
        BY ONLY <3>1, <4>2, <4>3, <4>4, <4>5
    <3>2. CASE NRank # 1
      <4>1. "append_bcast" \in passed[r] /\ agg
        BY <2>1, <2>2, <3>2 DEF VerdictOf, AllGaveUp
      <4>2. Reached(0, "append_bcast")
        BY <4>1 DEF IInv, Meetings, Meeting
      <4>3. QED
        BY <4>1, <4>2 DEF IInv, CapsuleList
    <3>3. QED
      BY <3>1, <3>2
  <2>5. ASSUME NEW q \in Rank PROVE capsule[q + 1] = TaskId(q)
    <3>1. id[q] = TaskId(q)
      BY <2>3 DEF IInv, Identities, Identity
    <3>2. q + 1 \in 1..Len(capsule) /\ (q + 1) - 1 = q
      BY <2>4, RankFacts
    <3>3. QED
      BY <3>1, <3>2 DEF IInv, CapsuleList
  <2>6. QED
    BY <2>3, <2>4, <2>5
<1>2. QED
  BY <1>1, Invariance, PTL

(* As long as no call fails and nobody else appends to task.tpbe, no rank  *)
(* reports an error: the barrier behind the writing keeps every listing of *)
(* the index out of the ranks' own appends.                                *)
THEOREM NothingSpurious == MpiSpec => []NoSpuriousFailure
<1>1. Undisturbed => NoSpuriousFailure
  BY DEF Undisturbed, Smooth, NoSpuriousFailure
<1>2. QED
  BY <1>1, Invariance, PTL
=============================================================================
