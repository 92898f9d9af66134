---------------------------- MODULE RTEnvProofs -----------------------------
(***************************************************************************)
(* Proofs about RTEnv, for any number of processes, environments, tasks    *)
(* and crashes: inheritance is well founded, a row comes before what names *)
(* it, the counters are exact, and families are linked.  What environments *)
(* declare plays no part in these and is left untyped.                     *)
(***************************************************************************)
EXTENDS RTEnv, FiniteSetTheorems, TLAPS

-----------------------------------------------------------------------------
(* Types *)

AnyId == EnvId \cup {Root}

IsRow(x) == x \in [id : EnvId, name : {x.name}, inherit : AnyId, derive : AnyId, ntask : Nat]

IsRecord(x) == x \in [live : BOOLEAN, whole : BOOLEAN, inherit : AnyId, links : {x.links},
                      derive : AnyId, ntask : Nat, delta : {x.delta}]

IsCall(m) == /\ m \in [id : EnvId, name : {m.name}, parent : AnyId, setbase : BOOLEAN,
                       old : {m.old}, spec : {m.spec}]
             /\ IsRecord(m.old)

TypeOK ==
    /\ rec = [i \in EnvId |-> rec[i]] /\ (\A i \in EnvId : IsRecord(rec[i]))
    /\ me = [p \in Proc |-> me[p]] /\ (\A p \in Proc : IsCall(me[p]))
    /\ pc \in [Proc -> Stage] /\ lock \in [EnvId -> Proc \cup {NoProc}]
    /\ base \in AnyId /\ counted \in [EnvId -> Nat]
    /\ created \in 0..MaxId /\ tasks \in 0..MaxTask /\ aborts \in 0..MaxAbort
    /\ overlap \in BOOLEAN /\ clash \in BOOLEAN

-----------------------------------------------------------------------------
(* The rows of the index *)

RowsType == rows \in Seq(ToSet(rows)) /\ \A k \in DOMAIN rows : IsRow(rows[k])

(* Some row has the largest identifier, and every listed identifier has a  *)
(* first row, so the scans of the code find one.                           *)
Largest == rows = <<>> \/ \E k \in DOMAIN rows : \A j \in DOMAIN rows : rows[j].id <= rows[k].id

IsFirst(k, i) == rows[k].id = i /\ \A j \in DOMAIN rows : rows[j].id = i => k <= j
Firsts == \A i \in RowIds : \E k \in DOMAIN rows : IsFirst(k, i)

(* Identifiers are not larger than the number of creations allows.         *)
Pending == {p \in Proc : pc[p] \in Creating}
Budget ==
    /\ \A k \in DOMAIN rows : rows[k].id <= Len(rows)
    /\ IsFiniteSet(Pending) /\ Len(rows) + Cardinality(Pending) <= created

Index == RowsType /\ Largest /\ Firsts /\ Budget

-----------------------------------------------------------------------------
(* The calls *)

Recording == {"truncate", "write", "config", "config_write", "derive_read",
              "derive_truncate", "derive_write", "derive_row", "derive_record"}
Rewrite == {"derive_truncate", "derive_write"}
Deriving == Rewrite \cup {"derive_read", "derive_row", "derive_record"}
Counting == {"count_lock", "count_write", "count_row"}

CallOK(p) ==
    LET m == me[p] IN
    /\ pc[p] = "idle" => m = NoCall
    /\ m.parent # Root => Has(m.parent)
    /\ m.setbase => m.parent = Root
    /\ pc[p] \in {"check", "append"} => m.id <= Len(rows) + 1
    /\ pc[p] \in {"check", "append"} \cup Recording => m.parent < m.id
    /\ pc[p] \in Recording \cup Counting => Has(m.id)
    /\ pc[p] \in {"config", "config_write"} => rec[m.id].live
    /\ pc[p] \in Deriving => m.parent # Root
    /\ pc[p] \in Rewrite => m.old.live /\ m.old.whole /\ m.old.inherit < m.parent

Calls == \A p \in Proc : CallOK(p)

Records ==
    /\ InheritDecreases /\ RowFirst
    /\ \A i \in EnvId : rec[i].whole => rec[i].live

IInv == TypeOK /\ Index /\ Calls /\ Records

-----------------------------------------------------------------------------
(* As long as no two creations have overlapped, an identifier belongs to   *)
(* one environment and one creation.                                       *)
Sole ==
    ~overlap =>
        /\ \A j, k \in DOMAIN rows : rows[j].id = rows[k].id => j = k
        /\ \A p, q \in Proc : pc[p] \in Creating /\ pc[q] \in Creating => p = q
        /\ \A p \in Proc : pc[p] \in {"check", "append"} => ~Has(me[p].id)
        /\ \A p, q \in Proc :
               {pc[p], pc[q]} \subseteq Recording /\ me[p].id = me[q].id => p = q

(* Nobody has read the record of environment i. *)
Unread(i) ==
    \A q \in Proc : /\ pc[q] = "count_write" => me[q].id # i
                    /\ pc[q] \in Rewrite => me[q].parent # i

(* The processes that have patched the record of i and not yet its row.    *)
Due(i) == {p \in Proc : pc[p] = "count_row" /\ me[p].id = i}
Alive == \A p \in Proc : pc[p] # "dead"

RowCount(i) ==
    /\ IsFiniteSet(Due(i))
    /\ ~Has(i) => counted[i] = 0
    /\ Has(i) => /\ rows[FirstRow(i)].ntask + Cardinality(Due(i)) <= counted[i]
                 /\ Alive => rows[FirstRow(i)].ntask + Cardinality(Due(i)) = counted[i]

RowCounts == \A i \in EnvId : RowCount(i)

(* Nothing has been read of the record of i, counted for it or linked to it. *)
Fresh(i) == ~rec[i].whole /\ rec[i].links = <<>> /\ counted[i] = 0 /\ Unread(i)

(* What a process has read of a record is still there when it writes.      *)
CountsHeld(p) ==
    /\ pc[p] \in {"truncate", "write"} => Fresh(me[p].id)
    /\ pc[p] = "count_write" => lock[me[p].id] = p /\ me[p].old.ntask = counted[me[p].id]
    /\ pc[p] \in Rewrite => /\ me[p].old.ntask = counted[me[p].parent]
                            /\ me[p].old.links = rec[me[p].parent].links

Copies ==
    ~overlap /\ ~clash =>
        /\ \A i \in EnvId : rec[i].whole => rec[i].ntask = counted[i]
        /\ \A i \in EnvId : ~rec[i].live => Fresh(i)
        /\ \A p \in Proc : CountsHeld(p)

(* The process that creates the environment of row k has still to link it. *)
Unlinked(k, stages) ==
    \E p \in Proc : pc[p] \in stages /\ me[p].id = rows[k].id /\ me[p].parent = rows[k].inherit
ToLink == {"truncate", "write", "derive_read"} \cup Rewrite

(* A record names one of its children, and a process that has registered   *)
(* its environment finds it there.                                         *)
Links == \A i \in EnvId : rec[i].links \in Seq(EnvId)
Heads == \A i \in EnvId : rec[i].links # <<>> => rec[i].derive \in Children(rec[i])
Registered(p) ==
    pc[p] \in {"derive_row", "derive_record"} => me[p].id \in Children(rec[me[p].parent])

(* Row k is listed by the record of its parent, or will be; and the row of *)
(* the parent names a child, or will.                                      *)
Listed(k) == \/ Unlinked(k, ToLink)
             \/ rows[k].id \in Children(rec[rows[k].inherit])
ParentNames(k) == \/ Unlinked(k, ToLink \cup {"derive_row"})
                  \/ rows[FirstRow(rows[k].inherit)].derive \in Children(rec[rows[k].inherit])

Family ==
    ~overlap /\ ~clash /\ Alive =>
        /\ Links /\ Heads /\ \A p \in Proc : Registered(p)
        /\ \A k \in DOMAIN rows : rows[k].inherit # Root => Listed(k) /\ ParentNames(k)

-----------------------------------------------------------------------------
(* Facts about the constants and about single definitions *)

LEMMA IdFacts ==
    /\ MaxId \in Nat /\ MaxId >= 1 /\ MaxTask \in Nat /\ MaxAbort \in Nat
    /\ 1 \in EnvId /\ Root = 0 /\ Root \notin EnvId
    /\ \A i \in EnvId : i \in Nat /\ i >= 1 /\ i <= MaxId
    /\ \A i \in AnyId : i \in Nat /\ (i # Root => i \in EnvId)
    /\ \A i \in Nat : i >= 1 /\ i <= MaxId => i \in EnvId
  BY RTEnvAssumption DEF EnvId, Root, AnyId

LEMMA NothingOK == IsRecord(NoRecord) /\ IsCall(NoCall)
<1>1. IsRecord(NoRecord)
  BY IdFacts DEF IsRecord, NoRecord, AnyId
<1>2. QED
  BY <1>1, IdFacts DEF IsCall, NoCall, AnyId

(* A process goes to another stage of its call; the others stay. *)
LEMMA Moves ==
    ASSUME TypeOK, NEW p \in Proc, NEW s \in Stage, NEW m, GoWith(p, s, m)
    PROVE  /\ pc' \in [Proc -> Stage] /\ pc'[p] = s
           /\ me' = [q \in Proc |-> me'[q]] /\ me'[p] = (IF s = "idle" THEN NoCall ELSE m)
           /\ \A q \in Proc : q # p => pc'[q] = pc[q] /\ me'[q] = me[q]
  BY DEF TypeOK, GoWith

LEMMA MovesTyped ==
    ASSUME TypeOK, NEW p \in Proc, NEW s \in Stage, NEW m, IsCall(m), GoWith(p, s, m)
    PROVE  /\ pc' \in [Proc -> Stage] /\ me' = [q \in Proc |-> me'[q]]
           /\ \A q \in Proc : IsCall(me'[q])
<1>1. IsCall(IF s = "idle" THEN NoCall ELSE m)
  BY NothingOK
<1>2. \A q \in Proc : IsCall(me[q])
  BY DEF TypeOK
<1>3. QED
  BY <1>1, <1>2, Moves

LEMMA SeqOfItsElements ==
    ASSUME NEW S, NEW s \in Seq(S)
    PROVE  s \in Seq(ToSet(s))
<1>1. DOMAIN s = 1..Len(s) /\ Len(s) \in Nat
  OBVIOUS
<1>2. \A k \in 1..Len(s) : s[k] \in ToSet(s)
  BY <1>1 DEF ToSet
<1> HIDE DEF ToSet
<1>3. QED
  BY <1>1, <1>2

(* The rows after an append. *)
LEMMA Appended ==
    ASSUME RowsType, NEW x, IsRow(x), rows' = Append(rows, x)
    PROVE  /\ RowsType' /\ Len(rows) \in Nat /\ DOMAIN rows = 1..Len(rows)
           /\ Len(rows') = Len(rows) + 1 /\ DOMAIN rows' = 1..Len(rows) + 1
           /\ rows'[Len(rows) + 1] = x
           /\ \A k \in DOMAIN rows : rows'[k] = rows[k]
<1> DEFINE S == ToSet(rows) \cup {x}
<1>1. rows \in Seq(ToSet(rows)) /\ Len(rows) \in Nat /\ DOMAIN rows = 1..Len(rows)
  BY DEF RowsType
<1>2. rows \in Seq(S) /\ x \in S
  BY <1>1
<1> HIDE DEF S
<1>3. /\ rows' \in Seq(S) /\ Len(rows') = Len(rows) + 1 /\ rows'[Len(rows) + 1] = x
      /\ \A k \in 1..Len(rows) : rows'[k] = rows[k]
  BY <1>1, <1>2
<1>4. DOMAIN rows' = 1..Len(rows) + 1
  BY <1>3
<1>5. \A k \in DOMAIN rows' : k \in DOMAIN rows \/ k = Len(rows) + 1
  BY <1>1, <1>4
<1>6. \A k \in DOMAIN rows' : IsRow(rows'[k])
  BY <1>1, <1>3, <1>5 DEF RowsType
<1>7. rows' \in Seq(ToSet(rows'))
  BY <1>3, SeqOfItsElements
<1>8. QED
  BY <1>1, <1>3, <1>4, <1>6, <1>7 DEF RowsType

(* The rows after a patch that keeps identifier and parent of a row. *)
LEMMA Patched ==
    ASSUME RowsType, NEW n \in DOMAIN rows, NEW y, IsRow(y), y.id = rows[n].id,
           y.inherit = rows[n].inherit, rows' = [rows EXCEPT ![n] = y]
    PROVE  /\ RowsType' /\ Len(rows') = Len(rows) /\ DOMAIN rows' = DOMAIN rows
           /\ rows'[n] = y /\ (\A k \in DOMAIN rows : k # n => rows'[k] = rows[k])
           /\ \A k \in DOMAIN rows : rows'[k].id = rows[k].id /\ rows'[k].inherit = rows[k].inherit
<1>1. rows \in Seq(ToSet(rows)) /\ Len(rows) \in Nat /\ DOMAIN rows = 1..Len(rows)
  BY DEF RowsType
<1>2. /\ DOMAIN rows' = DOMAIN rows /\ rows'[n] = y
      /\ \A k \in DOMAIN rows : k # n => rows'[k] = rows[k]
  BY <1>1
<1>3. rows' \in Seq(ToSet(rows')) /\ Len(rows') = Len(rows)
  <2> DEFINE S == ToSet(rows) \cup {y}
  <2>1. rows \in Seq(S) /\ y \in S
    BY <1>1
  <2> HIDE DEF S
  <2>2. rows' \in Seq(S) /\ Len(rows') = Len(rows)
    BY <1>1, <2>1
  <2>3. rows' \in Seq(ToSet(rows'))
    BY <2>2, SeqOfItsElements
  <2>4. QED
    BY <2>2, <2>3
<1>4. \A k \in DOMAIN rows' : IsRow(rows'[k])
  BY <1>2 DEF RowsType
<1>5. QED
  BY <1>2, <1>3, <1>4 DEF RowsType

(* The scan for an identifier stops at its first row. *)
LEMMA FirstRowIs ==
    ASSUME Firsts, NEW i, Has(i)
    PROVE  /\ FirstRow(i) \in DOMAIN rows /\ rows[FirstRow(i)].id = i
           /\ \A j \in DOMAIN rows : rows[j].id = i => FirstRow(i) <= j
<1>1. \E k \in DOMAIN rows : rows[k].id = i /\ \A j \in DOMAIN rows : rows[j].id = i => k <= j
  BY DEF Firsts, Has, IsFirst
<1>2. QED
  BY <1>1 DEF FirstRow

(* A patch moves no identifier. *)
LEMMA SameIds ==
    ASSUME RowsType, Firsts, DOMAIN rows' = DOMAIN rows,
           \A k \in DOMAIN rows : rows'[k].id = rows[k].id
    PROVE  /\ Firsts' /\ \A i : Has(i)' <=> Has(i)
           /\ \A i : Has(i) => FirstRow(i)' = FirstRow(i)
<1>1. \A i : Has(i)' <=> Has(i)
  BY DEF Has, RowIds
<1>2. Firsts'
  <2> SUFFICES ASSUME NEW i, Has(i)'
               PROVE  \E k \in DOMAIN rows' : IsFirst(k, i)'
    BY DEF Firsts, Has
  <2>1. PICK k \in DOMAIN rows : IsFirst(k, i)
    BY <1>1 DEF Firsts, Has
  <2>2. QED
    BY <2>1 DEF IsFirst
<1>3. ASSUME NEW i, Has(i) PROVE FirstRow(i)' = FirstRow(i)
  <2>1. /\ FirstRow(i) \in DOMAIN rows /\ rows[FirstRow(i)].id = i
        /\ \A j \in DOMAIN rows : rows[j].id = i => FirstRow(i) <= j
    BY <1>3, FirstRowIs
  <2>2. /\ FirstRow(i)' \in DOMAIN rows' /\ rows'[FirstRow(i)'].id = i
        /\ \A j \in DOMAIN rows' : rows'[j].id = i => FirstRow(i)' <= j
    <3>1. \E k \in DOMAIN rows' :
              rows'[k].id = i /\ \A j \in DOMAIN rows' : rows'[j].id = i => k <= j
      BY <2>1
    <3>2. QED
      BY <3>1 DEF FirstRow
  <2>3. DOMAIN rows \subseteq Nat
    BY DEF RowsType
  <2>4. FirstRow(i) <= FirstRow(i)' /\ FirstRow(i)' <= FirstRow(i)
    BY <2>1, <2>2
  <2>5. QED
    BY <2>1, <2>2, <2>3, <2>4
<1>4. QED
  BY <1>1, <1>2, <1>3

(* An append adds an identifier and leaves the first rows where they are.  *)
LEMMA AppendedIds ==
    ASSUME RowsType, Firsts, NEW x, IsRow(x), rows' = Append(rows, x)
    PROVE  /\ Firsts' /\ \A i : Has(i)' <=> Has(i) \/ i = x.id
           /\ \A i : Has(i) => FirstRow(i)' = FirstRow(i)
           /\ ~Has(x.id) => FirstRow(x.id)' = Len(rows) + 1
<1> DEFINE n == Len(rows) + 1
<1>0. /\ DOMAIN rows = 1..Len(rows) /\ Len(rows) \in Nat /\ DOMAIN rows' = 1..n /\ rows'[n] = x
      /\ \A k \in DOMAIN rows : rows'[k] = rows[k]
  BY Appended
<1>1. /\ \A k \in DOMAIN rows : k \in Nat /\ k < n /\ k \in DOMAIN rows'
      /\ n \in Nat /\ n \in DOMAIN rows' /\ (\A k \in DOMAIN rows' : k \in DOMAIN rows \/ k = n)
  BY <1>0
<1>2. \A k \in DOMAIN rows : rows'[k] = rows[k]
  BY <1>0
<1>3. rows'[n] = x
  BY <1>0
<1> HIDE DEF n
<1>4. \A i : Has(i)' <=> Has(i) \/ i = x.id
  BY <1>1, <1>2, <1>3 DEF Has, RowIds
<1>5. ASSUME NEW i, Has(i)
      PROVE  /\ FirstRow(i) \in DOMAIN rows' /\ rows'[FirstRow(i)].id = i
             /\ \A j \in DOMAIN rows' : rows'[j].id = i => FirstRow(i) <= j
  BY <1>1, <1>2, <1>3, <1>5, FirstRowIs
<1>6. ASSUME ~Has(x.id)
      PROVE  \A j \in DOMAIN rows' : rows'[j].id = x.id => n <= j
  BY <1>1, <1>2, <1>3, <1>6 DEF Has, RowIds
<1>7. Firsts'
  <2> SUFFICES ASSUME NEW i, Has(i)'
               PROVE  \E k \in DOMAIN rows' : IsFirst(k, i)'
    BY DEF Firsts, Has
  <2>1. CASE Has(i)
    BY <2>1, <1>5 DEF IsFirst
  <2>2. CASE ~Has(i)
    BY <2>2, <1>1, <1>3, <1>4, <1>6 DEF IsFirst
  <2>3. QED
    BY <2>1, <2>2
<1>8. ASSUME NEW i, NEW k \in DOMAIN rows', rows'[k].id = i,
             \A j \in DOMAIN rows' : rows'[j].id = i => k <= j
      PROVE  FirstRow(i)' = k
  <2>1. /\ FirstRow(i)' \in DOMAIN rows' /\ rows'[FirstRow(i)'].id = i
        /\ \A j \in DOMAIN rows' : rows'[j].id = i => FirstRow(i)' <= j
    BY <1>8 DEF FirstRow
  <2>2. k <= FirstRow(i)' /\ FirstRow(i)' <= k /\ k \in Nat /\ FirstRow(i)' \in Nat
    BY <1>1, <1>8, <2>1
  <2>3. QED
    BY <2>2
<1>9. \A i : Has(i) => FirstRow(i)' = FirstRow(i)
  BY <1>5, <1>8
<1>10. ~Has(x.id) => FirstRow(x.id)' = n
  BY <1>1, <1>3, <1>6, <1>8
<1>11. QED
  BY <1>4, <1>7, <1>9, <1>10 DEF n

(* tpb_raf_rtenv_alloc_next_id finds an identifier above all listed ones,  *)
(* which the number of creations leaves room for.                          *)
LEMMA NextIdFacts ==
    ASSUME TypeOK, Index, NEW p \in Proc, pc[p] = "alloc"
    PROVE  /\ NextId \in EnvId /\ NextId <= Len(rows) + 1
           /\ \A k \in DOMAIN rows : rows[k].id < NextId
<1>1. Len(rows) \in Nat /\ Len(rows) + 1 <= MaxId
  <2>1. p \in Pending
    BY DEF Pending, Creating
  <2>2. Cardinality(Pending) \in Nat /\ Cardinality(Pending) # 0
    BY <2>1, FS_CardinalityType, FS_EmptySet DEF Index, Budget
  <2>3. Len(rows) \in Nat
    BY DEF Index, RowsType
  <2>4. Len(rows) + Cardinality(Pending) <= created /\ created \in Nat /\ created <= MaxId
    BY IdFacts DEF Index, Budget, TypeOK
  <2>5. QED
    BY ONLY <2>2, <2>3, <2>4, IdFacts
<1>2. \A k \in DOMAIN rows : rows[k].id \in EnvId /\ rows[k].id <= Len(rows)
  BY DEF Index, Budget, RowsType, IsRow
<1>3. \E i \in 1..MaxId + 1 :
          (\A k \in DOMAIN rows : rows[k].id < i) /\ (i = 1 \/ Has(i - 1))
  <2>1. CASE rows = <<>>
    <3>1. DOMAIN rows = {}
      BY <2>1
    <3>2. 1 \in 1..MaxId + 1
      BY IdFacts
    <3>3. QED
      BY <3>1, <3>2
  <2>2. CASE rows # <<>>
    <3>1. PICK t \in DOMAIN rows : \A j \in DOMAIN rows : rows[j].id <= rows[t].id
      BY <2>2 DEF Index, Largest
    <3>2. rows[t].id \in EnvId /\ Has(rows[t].id)
      BY <1>2 DEF Has, RowIds
    <3>3. /\ rows[t].id + 1 \in 1..MaxId + 1 /\ (rows[t].id + 1) - 1 = rows[t].id
          /\ \A k \in DOMAIN rows : rows[k].id < rows[t].id + 1
      BY <1>2, <3>1, <3>2, IdFacts
    <3>4. QED
      BY <3>2, <3>3
  <2>3. QED
    BY <2>1, <2>2
<1>4. /\ NextId \in 1..MaxId + 1 /\ \A k \in DOMAIN rows : rows[k].id < NextId
      /\ NextId = 1 \/ Has(NextId - 1)
  BY <1>3 DEF NextId
<1>5. NextId <= Len(rows) + 1
  <2>1. CASE NextId = 1
    BY <1>1, <2>1
  <2>2. CASE Has(NextId - 1)
    <3>1. PICK k \in DOMAIN rows : rows[k].id = NextId - 1
      BY <2>2 DEF Has, RowIds
    <3>2. NextId - 1 <= Len(rows) /\ NextId \in Int
      BY <1>2, <1>4, <3>1
    <3>3. QED
      BY <1>1, <3>2
  <2>3. QED
    BY <1>4, <2>1, <2>2
<1>6. NextId \in Nat /\ NextId >= 1 /\ NextId <= MaxId
  BY ONLY <1>1, <1>4, <1>5, IdFacts
<1>7. QED
  BY <1>4, <1>5, <1>6, IdFacts

-----------------------------------------------------------------------------
(* What each step does, field by field *)

(* The other processes stay where they are. *)
Stay(p) == \A q \in Proc : q # p => pc'[q] = pc[q] /\ me'[q] = me[q]

(* The call of p goes on to a stage with its variables as they are.        *)
Goes(p, s) == Stay(p) /\ pc'[p] = s /\ me'[p] = (IF s = "idle" THEN NoCall ELSE me[p])

(* Only the record of i may change. *)
OnlyRecord(i) == \A j \in EnvId : j # i => rec'[j] = rec[j]

(* What the step does not name, but for the process that takes it. *)
Kept == UNCHANGED <<rows, rec, base, lock, created, tasks, counted, overlap, clash, aborts>>

CallsTyped == /\ pc' \in [Proc -> Stage] /\ me' = [q \in Proc |-> me'[q]]
              /\ \A q \in Proc : IsCall(me'[q])
RecordsTyped == rec' = [j \in EnvId |-> rec'[j]] /\ \A j \in EnvId : IsRecord(rec'[j])

LEMMA GoesOn ==
    ASSUME TypeOK, NEW p \in Proc, NEW s \in Stage, Goto(p, s)
    PROVE  /\ Goes(p, s) /\ pc' \in [Proc -> Stage] /\ me' = [q \in Proc |-> me'[q]]
           /\ \A q \in Proc : IsCall(me'[q])
<1>1. GoWith(p, s, me[p]) /\ IsCall(me[p])
  BY DEF Goto, TypeOK
<1>2. QED
  BY <1>1, Moves, MovesTyped DEF Goes, Stay

(* One record is replaced by another. *)
LEMMA Replaced ==
    ASSUME TypeOK, NEW i \in EnvId, NEW x, IsRecord(x), rec' = [rec EXCEPT ![i] = x]
    PROVE  /\ rec' = [j \in EnvId |-> rec'[j]] /\ (\A j \in EnvId : IsRecord(rec'[j]))
           /\ rec'[i] = x /\ OnlyRecord(i)
  BY DEF TypeOK, OnlyRecord

(* fopen("wb") empties a record. *)
LEMMA Truncated ==
    ASSUME TypeOK, NEW i \in EnvId, Truncate(i)
    PROVE  /\ rec' = [j \in EnvId |-> rec'[j]] /\ (\A j \in EnvId : IsRecord(rec'[j]))
           /\ rec'[i].live /\ ~rec'[i].whole /\ OnlyRecord(i)
           /\ rec'[i].inherit = rec[i].inherit /\ rec'[i].links = rec[i].links
           /\ rec'[i].derive = rec[i].derive /\ rec'[i].ntask = rec[i].ntask
<1> DEFINE x == [rec[i] EXCEPT !.live = TRUE, !.whole = FALSE]
<1>1. IsRecord(rec[i])
  BY DEF TypeOK
<1>2. IsRecord(x) /\ x.live /\ ~x.whole /\ x.inherit = rec[i].inherit /\ x.links = rec[i].links
      /\ x.derive = rec[i].derive /\ x.ntask = rec[i].ntask
  BY <1>1 DEF IsRecord
<1>3. rec' = [rec EXCEPT ![i] = x]
  BY DEF Truncate, TypeOK
<1> HIDE DEF x
<1>4. QED
  BY <1>2, <1>3, Replaced

(* The call of a new environment: its parent is listed, and a snapshot has *)
(* none.                                                                   *)
LEMMA BeginEffect ==
    ASSUME TypeOK, NEW p \in Proc,
           \/ \E n \in Name, parent \in EnvId \cup {Root} : NewBegin(p, n, parent)
           \/ \E always_new \in BOOLEAN : SnapshotBegin(p, always_new)
    PROVE  /\ pc[p] = "idle" /\ pc'[p] = "alloc" /\ Stay(p) /\ IsCall(me'[p])
           /\ me'[p].parent # Root => Has(me'[p].parent)
           /\ me'[p].setbase => me'[p].parent = Root
           /\ created < MaxId /\ created' = created + 1
           /\ overlap' = (overlap \/ \E q \in Proc : pc[q] \in Creating)
           /\ UNCHANGED <<rows, rec, base, lock, tasks, counted, clash, aborts>>
           /\ pc' \in [Proc -> Stage] /\ me' = [q \in Proc |-> me'[q]]
           /\ \A q \in Proc : IsCall(me'[q])
<1>1. PICK c : /\ Begin(p, c) /\ IsCall(c) /\ (c.parent # Root => Has(c.parent))
               /\ (c.setbase => c.parent = Root)
  <2>1. ASSUME NEW n \in Name, NEW parent \in EnvId \cup {Root}, NewBegin(p, n, parent)
        PROVE  \E c : /\ Begin(p, c) /\ IsCall(c) /\ (c.parent # Root => Has(c.parent))
                      /\ (c.setbase => c.parent = Root)
    <3> DEFINE spec == SpecOf(n, parent)
               c == [NoCall EXCEPT !.name = spec.name[1], !.parent = parent, !.spec = spec]
    <3>1. Begin(p, c) /\ (parent = Root \/ Has(parent))
      BY <2>1 DEF NewBegin
    <3> HIDE DEF spec
    <3>2. IsCall(c) /\ c.parent = parent /\ c.setbase = FALSE
      BY NothingOK DEF IsCall, NoCall, AnyId
    <3>3. QED
      BY <3>1, <3>2
  <2>2. ASSUME NEW always_new \in BOOLEAN, SnapshotBegin(p, always_new)
        PROVE  \E c : /\ Begin(p, c) /\ IsCall(c) /\ (c.parent # Root => Has(c.parent))
                      /\ (c.setbase => c.parent = Root)
    <3> DEFINE name == FreeBaseName  spec == SnapshotSpec
               c == [NoCall EXCEPT !.name = name, !.setbase = TRUE, !.spec = spec]
    <3>1. Begin(p, c)
      BY <2>2 DEF SnapshotBegin
    <3> HIDE DEF spec, name
    <3>2. IsCall(c) /\ c.parent = Root
      BY NothingOK DEF IsCall, NoCall, AnyId
    <3>3. QED
      BY <3>1, <3>2
  <2>3. QED
    BY <2>1, <2>2
<1>2. GoWith(p, "alloc", c) /\ "alloc" \in Stage
  BY <1>1 DEF Begin, Stage, Creating
<1>3. pc'[p] = "alloc" /\ me'[p] = c /\ Stay(p)
  BY <1>2, Moves DEF Stay
<1>4. /\ pc' \in [Proc -> Stage] /\ me' = [q \in Proc |-> me'[q]]
      /\ \A q \in Proc : IsCall(me'[q])
  BY <1>1, <1>2, MovesTyped
<1>5. QED
  BY <1>1, <1>3, <1>4 DEF Begin, At

(* The identifier is above all listed ones. *)
LEMMA AllocEffect ==
    ASSUME TypeOK, Index, NEW p \in Proc, Alloc(p)
    PROVE  /\ pc[p] = "alloc" /\ pc'[p] = "check" /\ Stay(p) /\ Kept
           /\ me'[p].id = NextId /\ me'[p].parent = me[p].parent
           /\ me'[p].setbase = me[p].setbase /\ CallsTyped
<1> DEFINE c == [me[p] EXCEPT !.id = NextId]
<1>1. NextId \in EnvId /\ IsCall(me[p])
  BY NextIdFacts DEF Alloc, At, TypeOK
<1>2. IsCall(c) /\ c.id = NextId /\ c.parent = me[p].parent /\ c.setbase = me[p].setbase
  BY <1>1 DEF IsCall
<1>3. GoWith(p, "check", c) /\ "check" \in Stage
  BY DEF Alloc, Stage, Creating
<1> HIDE DEF c
<1>4. pc'[p] = "check" /\ me'[p] = c /\ Stay(p) /\ CallsTyped
  BY <1>2, <1>3, Moves, MovesTyped DEF Stay, CallsTyped
<1>5. QED
  BY <1>2, <1>4 DEF Alloc, At, Kept

LEMMA CheckNameEffect ==
    ASSUME TypeOK, NEW p \in Proc, CheckName(p)
    PROVE  pc[p] = "check" /\ (Goes(p, "idle") \/ Goes(p, "append")) /\ Kept /\ CallsTyped
<1>1. {"idle", "append"} \subseteq Stage
  BY DEF Stage, Creating
<1>2. Goto(p, "idle") \/ Goto(p, "append")
  BY DEF CheckName
<1>3. QED
  BY <1>1, <1>2, GoesOn DEF CheckName, At, Kept, CallsTyped

LEMMA AppendRowEffect ==
    ASSUME TypeOK, NEW p \in Proc, AppendRow(p)
    PROVE  /\ pc[p] = "append" /\ Goes(p, "truncate") /\ CallsTyped
           /\ UNCHANGED <<rec, base, lock, created, tasks, counted, overlap, clash, aborts>>
           /\ \E x : /\ rows' = Append(rows, x) /\ IsRow(x) /\ x.id = me[p].id
                     /\ x.inherit = me[p].parent /\ x.ntask = 0
<1> DEFINE x == Row(me[p].id, me[p].name, me[p].parent)
<1>1. IsRow(x) /\ x.id = me[p].id /\ x.inherit = me[p].parent /\ x.ntask = 0
  BY IdFacts DEF TypeOK, IsCall, Row, IsRow, AnyId
<1>2. rows' = Append(rows, x)
  BY DEF AppendRow
<1>3. Goto(p, "truncate") /\ "truncate" \in Stage
  BY DEF AppendRow, Stage
<1> HIDE DEF x
<1>4. QED
  BY <1>1, <1>2, <1>3, GoesOn DEF AppendRow, At, CallsTyped

LEMMA RecordTruncateEffect ==
    ASSUME TypeOK, NEW p \in Proc, RecordTruncate(p)
    PROVE  /\ pc[p] = "truncate" /\ Goes(p, "write") /\ CallsTyped /\ RecordsTyped
           /\ UNCHANGED <<rows, base, lock, created, tasks, counted, overlap, clash, aborts>>
           /\ OnlyRecord(me[p].id) /\ rec'[me[p].id].live /\ ~rec'[me[p].id].whole
           /\ rec'[me[p].id].inherit = rec[me[p].id].inherit
           /\ rec'[me[p].id].links = rec[me[p].id].links
           /\ rec'[me[p].id].derive = rec[me[p].id].derive
<1>1. me[p].id \in EnvId /\ Truncate(me[p].id)
  BY DEF RecordTruncate, TypeOK, IsCall
<1>2. Goto(p, "write") /\ "write" \in Stage
  BY DEF RecordTruncate, Stage
<1>3. QED
  BY <1>1, <1>2, GoesOn, Truncated DEF RecordTruncate, At, CallsTyped, RecordsTyped

(* Where the creation goes on once the record is written. *)
AfterWrite(m) == IF m.setbase THEN "config" ELSE IF m.parent # Root THEN "derive_read" ELSE "idle"

LEMMA RecordWriteEffect ==
    ASSUME TypeOK, NEW p \in Proc, RecordWrite(p)
    PROVE  /\ pc[p] = "write" /\ Goes(p, AfterWrite(me[p])) /\ CallsTyped /\ RecordsTyped
           /\ UNCHANGED <<rows, base, lock, created, tasks, counted, overlap, clash, aborts>>
           /\ OnlyRecord(me[p].id) /\ rec'[me[p].id].live
           /\ rec'[me[p].id].inherit = me[p].parent /\ rec'[me[p].id].links = <<>>
           /\ rec'[me[p].id].ntask = 0
<1> DEFINE x == [NoRecord EXCEPT !.live = TRUE, !.whole = TRUE, !.inherit = me[p].parent,
                                 !.delta = me[p].spec]
<1>1. me[p].id \in EnvId /\ me[p].parent \in AnyId /\ me[p].setbase \in BOOLEAN
  BY DEF TypeOK, IsCall
<1>2. IsRecord(x) /\ x.live /\ x.inherit = me[p].parent /\ x.links = <<>> /\ x.ntask = 0
  BY <1>1, NothingOK DEF IsRecord, NoRecord
<1>3. rec' = [rec EXCEPT ![me[p].id] = x]
  BY DEF RecordWrite
<1>4. AfterWrite(me[p]) \in Stage
  BY DEF AfterWrite, Stage
<1>5. Goto(p, AfterWrite(me[p]))
  BY <1>1 DEF RecordWrite, AfterWrite
<1> HIDE DEF x
<1>6. QED
  BY <1>1, <1>2, <1>3, <1>4, <1>5, GoesOn, Replaced DEF RecordWrite, At, CallsTyped, RecordsTyped

LEMMA ConfigEffect ==
    ASSUME TypeOK, NEW p \in Proc, ConfigTruncate(p) \/ ConfigWrite(p)
    PROVE  /\ \/ pc[p] = "config" /\ Goes(p, "config_write") /\ base' = Root
              \/ pc[p] = "config_write" /\ Goes(p, "idle") /\ base' = me[p].id
           /\ UNCHANGED <<rows, rec, lock, created, tasks, counted, overlap, clash, aborts>>
           /\ CallsTyped /\ base' \in AnyId
<1>1. {"idle", "config_write"} \subseteq Stage
  BY DEF Stage
<1>2. me[p].id \in AnyId /\ Root \in AnyId
  BY DEF TypeOK, IsCall, AnyId
<1>3. CASE ConfigTruncate(p)
  BY <1>1, <1>2, <1>3, GoesOn DEF ConfigTruncate, At, CallsTyped
<1>4. CASE ConfigWrite(p)
  BY <1>1, <1>2, <1>4, GoesOn DEF ConfigWrite, At, CallsTyped
<1>5. QED
  BY <1>3, <1>4

LEMMA DeriveReadEffect ==
    ASSUME TypeOK, NEW p \in Proc, DeriveRead(p), me[p].parent # Root
    PROVE  /\ pc[p] = "derive_read" /\ Stay(p) /\ CallsTyped
           /\ UNCHANGED <<rows, rec, base, lock, created, tasks, counted, overlap, aborts>>
           /\ \/ ~rec[me[p].parent].whole /\ pc'[p] = "idle" /\ me'[p] = NoCall /\ clash'
              \/ /\ rec[me[p].parent].whole /\ clash' = clash
                 /\ pc'[p] = IF me[p].id \in Children(rec[me[p].parent]) THEN "derive_row"
                                                                        ELSE "derive_truncate"
                 /\ me'[p].id = me[p].id /\ me'[p].parent = me[p].parent
                 /\ me'[p].setbase = me[p].setbase /\ me'[p].old = rec[me[p].parent]
           /\ clash' \in BOOLEAN
<1> DEFINE r == rec[me[p].parent]
           c == [me[p] EXCEPT !.old = r]
           s == IF ~r.whole THEN "idle"
                ELSE IF me[p].id \in Children(r) THEN "derive_row" ELSE "derive_truncate"
<1>1. IsCall(me[p]) /\ me[p].parent \in EnvId /\ clash \in BOOLEAN
  BY IdFacts DEF TypeOK, IsCall
<1>2. IsRecord(r) /\ r.whole \in BOOLEAN
  BY <1>1 DEF TypeOK, IsRecord
<1>3. /\ IsCall(c) /\ c.id = me[p].id /\ c.parent = me[p].parent /\ c.setbase = me[p].setbase
      /\ c.old = r
  BY <1>1, <1>2 DEF IsCall
<1>4. GoWith(p, s, c)
  BY <1>2 DEF DeriveRead
<1>5. s \in Stage
  BY DEF Stage
<1> HIDE DEF c
<1>6. /\ pc'[p] = s /\ me'[p] = (IF s = "idle" THEN NoCall ELSE c) /\ Stay(p) /\ CallsTyped
  BY <1>3, <1>4, <1>5, Moves, MovesTyped DEF Stay, CallsTyped
<1>7. clash' = (clash \/ ~r.whole) /\ pc[p] = "derive_read"
  BY DEF DeriveRead, At
<1>8. UNCHANGED <<rows, rec, base, lock, created, tasks, counted, overlap, aborts>>
  BY DEF DeriveRead
<1>9. CASE ~r.whole
  BY <1>1, <1>6, <1>7, <1>8, <1>9
<1>10. CASE r.whole
  BY <1>1, <1>3, <1>6, <1>7, <1>8, <1>10
<1>11. QED
  BY <1>9, <1>10

LEMMA DeriveTruncateEffect ==
    ASSUME TypeOK, NEW p \in Proc, DeriveTruncate(p), me[p].parent # Root
    PROVE  /\ pc[p] = "derive_truncate" /\ Goes(p, "derive_write") /\ CallsTyped /\ RecordsTyped
           /\ UNCHANGED <<rows, base, lock, created, tasks, counted, overlap, clash, aborts>>
           /\ OnlyRecord(me[p].parent) /\ rec'[me[p].parent].live /\ ~rec'[me[p].parent].whole
           /\ rec'[me[p].parent].inherit = rec[me[p].parent].inherit
           /\ rec'[me[p].parent].links = rec[me[p].parent].links
           /\ rec'[me[p].parent].derive = rec[me[p].parent].derive
<1>1. me[p].parent \in EnvId /\ Truncate(me[p].parent)
  BY IdFacts DEF DeriveTruncate, TypeOK, IsCall
<1>2. Goto(p, "derive_write") /\ "derive_write" \in Stage
  BY DEF DeriveTruncate, Stage
<1>3. QED
  BY <1>1, <1>2, GoesOn, Truncated DEF DeriveTruncate, At, CallsTyped, RecordsTyped

LEMMA DeriveWriteEffect ==
    ASSUME TypeOK, NEW p \in Proc, DeriveWrite(p), me[p].parent # Root
    PROVE  /\ pc[p] = "derive_write" /\ Goes(p, "derive_row") /\ CallsTyped /\ RecordsTyped
           /\ UNCHANGED <<rows, base, lock, created, tasks, counted, overlap, aborts>>
           /\ clash' = (clash \/ Rewriting(me[p].parent) # {p}) /\ clash' \in BOOLEAN
           /\ OnlyRecord(me[p].parent)
           /\ rec'[me[p].parent].live = me[p].old.live
           /\ rec'[me[p].parent].whole = me[p].old.whole
           /\ rec'[me[p].parent].inherit = me[p].old.inherit
           /\ rec'[me[p].parent].links = Append(me[p].old.links, me[p].id)
           /\ rec'[me[p].parent].derive = me[p].id
           /\ rec'[me[p].parent].ntask = me[p].old.ntask
<1> DEFINE x == [me[p].old EXCEPT !.links = Append(@, me[p].id), !.derive = me[p].id]
<1>1. me[p].parent \in EnvId /\ me[p].id \in EnvId /\ IsRecord(me[p].old) /\ clash \in BOOLEAN
  BY IdFacts DEF TypeOK, IsCall
<1>2. /\ IsRecord(x) /\ x.live = me[p].old.live /\ x.whole = me[p].old.whole
      /\ x.inherit = me[p].old.inherit /\ x.links = Append(me[p].old.links, me[p].id)
      /\ x.derive = me[p].id /\ x.ntask = me[p].old.ntask
  BY <1>1 DEF IsRecord, AnyId
<1>3. rec' = [rec EXCEPT ![me[p].parent] = x]
  BY DEF DeriveWrite
<1>4. Goto(p, "derive_row") /\ "derive_row" \in Stage
  BY DEF DeriveWrite, Stage
<1> HIDE DEF x
<1>5. Goes(p, "derive_row") /\ CallsTyped
  BY <1>4, GoesOn DEF CallsTyped
<1>6. RecordsTyped /\ OnlyRecord(me[p].parent) /\ rec'[me[p].parent] = x
  BY <1>1, <1>2, <1>3, Replaced DEF RecordsTyped
<1>7. QED
  BY <1>1, <1>2, <1>5, <1>6 DEF DeriveWrite, At

(* A patch of the first row of an environment. *)
RowPatched(i) ==
    /\ RowsType' /\ Len(rows') = Len(rows) /\ DOMAIN rows' = DOMAIN rows
    /\ \A k \in DOMAIN rows : k # FirstRow(i) => rows'[k] = rows[k]
    /\ \A k \in DOMAIN rows : rows'[k].id = rows[k].id /\ rows'[k].inherit = rows[k].inherit

LEMMA DeriveRowEffect ==
    ASSUME TypeOK, Index, NEW p \in Proc, DeriveRow(p), me[p].parent # Root, Has(me[p].parent)
    PROVE  /\ pc[p] = "derive_row" /\ Goes(p, "derive_record") /\ CallsTyped
           /\ UNCHANGED <<rec, base, lock, created, tasks, counted, overlap, clash, aborts>>
           /\ RowPatched(me[p].parent)
           /\ rows'[FirstRow(me[p].parent)].derive = me[p].id
           /\ rows'[FirstRow(me[p].parent)].ntask = rows[FirstRow(me[p].parent)].ntask
<1> DEFINE n == FirstRow(me[p].parent)
           y == [rows[n] EXCEPT !.derive = me[p].id]
<1>1. n \in DOMAIN rows /\ me[p].id \in EnvId /\ RowsType
  BY FirstRowIs DEF Index, TypeOK, IsCall
<1>2. IsRow(rows[n])
  BY <1>1 DEF RowsType
<1>3. /\ IsRow(y) /\ y.id = rows[n].id /\ y.inherit = rows[n].inherit /\ y.derive = me[p].id
      /\ y.ntask = rows[n].ntask
  BY <1>1, <1>2 DEF IsRow, AnyId
<1>4. rows' = [rows EXCEPT ![n] = y]
  BY DEF DeriveRow
<1>5. Goto(p, "derive_record") /\ "derive_record" \in Stage
  BY DEF DeriveRow, Stage
<1>6. Goes(p, "derive_record") /\ CallsTyped
  BY <1>5, GoesOn DEF CallsTyped
<1> HIDE DEF n, y
<1>7. /\ RowsType' /\ Len(rows') = Len(rows) /\ DOMAIN rows' = DOMAIN rows
      /\ rows'[n] = y /\ (\A k \in DOMAIN rows : k # n => rows'[k] = rows[k])
      /\ \A k \in DOMAIN rows : rows'[k].id = rows[k].id /\ rows'[k].inherit = rows[k].inherit
  BY <1>1, <1>3, <1>4, Patched
<1>8. QED
  BY <1>3, <1>6, <1>7 DEF DeriveRow, At, RowPatched, n

LEMMA DeriveRecordEffect ==
    ASSUME TypeOK, NEW p \in Proc, DeriveRecord(p), me[p].parent # Root
    PROVE  /\ pc[p] = "derive_record" /\ Goes(p, "idle") /\ CallsTyped /\ RecordsTyped
           /\ UNCHANGED <<rows, base, lock, created, tasks, counted, overlap, clash, aborts>>
           /\ OnlyRecord(me[p].parent)
           /\ rec'[me[p].parent].live = rec[me[p].parent].live
           /\ rec'[me[p].parent].whole = rec[me[p].parent].whole
           /\ rec'[me[p].parent].inherit = rec[me[p].parent].inherit
           /\ rec'[me[p].parent].links = rec[me[p].parent].links
           /\ rec'[me[p].parent].derive \in {me[p].id, rec[me[p].parent].derive}
           /\ rec'[me[p].parent].ntask = rec[me[p].parent].ntask
<1> DEFINE r == rec[me[p].parent]
           x == [r EXCEPT !.derive = me[p].id]
<1>1. me[p].parent \in EnvId /\ me[p].id \in EnvId
  BY IdFacts DEF TypeOK, IsCall
<1>2. IsRecord(r) /\ r.whole \in BOOLEAN
  BY <1>1 DEF TypeOK, IsRecord
<1>3. Goto(p, "idle") /\ "idle" \in Stage
  BY DEF DeriveRecord, Stage
<1>4. Goes(p, "idle") /\ CallsTyped
  BY <1>3, GoesOn DEF CallsTyped
<1>5. CASE r.whole
  <2>1. /\ IsRecord(x) /\ x.live = r.live /\ x.whole = r.whole /\ x.inherit = r.inherit
        /\ x.links = r.links /\ x.derive = me[p].id /\ x.ntask = r.ntask
    BY <1>1, <1>2 DEF IsRecord, AnyId
  <2>2. rec' = [rec EXCEPT ![me[p].parent] = x]
    BY <1>5 DEF DeriveRecord
  <2> HIDE DEF x
  <2>3. RecordsTyped /\ OnlyRecord(me[p].parent) /\ rec'[me[p].parent] = x
    BY <1>1, <2>1, <2>2, Replaced DEF RecordsTyped
  <2>4. QED
    BY <1>4, <2>1, <2>3 DEF DeriveRecord, At
<1>6. CASE ~r.whole
  <2>1. rec' = rec
    BY <1>6 DEF DeriveRecord
  <2>2. QED
    BY <1>4, <2>1 DEF DeriveRecord, At, RecordsTyped, TypeOK, OnlyRecord
<1>7. QED
  BY <1>2, <1>5, <1>6

LEMMA CountBeginEffect ==
    ASSUME TypeOK, Index, NEW p \in Proc, NEW e \in EnvId, CountBegin(p, e)
    PROVE  /\ pc[p] = "idle" /\ pc'[p] = "count_lock" /\ Stay(p) /\ CallsTyped
           /\ Has(me'[p].id) /\ me'[p].parent = me[p].parent /\ me'[p].setbase = me[p].setbase
           /\ tasks < MaxTask /\ tasks' = tasks + 1
           /\ UNCHANGED <<rows, rec, base, lock, created, counted, overlap, clash, aborts>>
<1> DEFINE i == ActiveId(e)
           c == [me[p] EXCEPT !.id = i]
<1>1. Has(i) /\ GoWith(p, "count_lock", c) /\ pc[p] = "idle"
  BY DEF CountBegin, At
<1>2. i \in EnvId
  <2>1. PICK k \in DOMAIN rows : rows[k].id = i
    BY <1>1 DEF Has, RowIds
  <2>2. QED
    BY <2>1 DEF Index, RowsType, IsRow
<1>3. /\ IsCall(c) /\ c.id = i /\ c.parent = me[p].parent /\ c.setbase = me[p].setbase
  <2>1. IsCall(me[p])
    BY DEF TypeOK
  <2> HIDE DEF i
  <2>2. QED
    BY <1>2, <2>1 DEF IsCall
<1>4. "count_lock" \in Stage
  BY DEF Stage
<1> HIDE DEF i, c
<1>5. pc'[p] = "count_lock" /\ me'[p] = c /\ Stay(p) /\ CallsTyped
  BY <1>1, <1>3, <1>4, Moves, MovesTyped DEF Stay, CallsTyped
<1>6. QED
  BY <1>1, <1>3, <1>5 DEF CountBegin

LEMMA CountLockEffect ==
    ASSUME TypeOK, NEW p \in Proc, CountLock(p)
    PROVE  /\ pc[p] = "count_lock" /\ Stay(p) /\ CallsTyped /\ lock[me[p].id] = NoProc
           /\ UNCHANGED <<rows, rec, base, created, tasks, counted, overlap, clash, aborts>>
           /\ \/ pc'[p] = "idle" /\ me'[p] = NoCall /\ lock' = lock
              \/ /\ rec[me[p].id].whole /\ pc'[p] = "count_write"
                 /\ lock' = [lock EXCEPT ![me[p].id] = p]
                 /\ me'[p].id = me[p].id /\ me'[p].parent = me[p].parent
                 /\ me'[p].setbase = me[p].setbase /\ me'[p].old = rec[me[p].id]
           /\ lock' \in [EnvId -> Proc \cup {NoProc}]
<1> DEFINE r == rec[me[p].id]
           c == [me[p] EXCEPT !.old = r]
<1>1. IsCall(me[p]) /\ me[p].id \in EnvId /\ lock \in [EnvId -> Proc \cup {NoProc}]
  BY DEF TypeOK, IsCall
<1>2. IsRecord(r)
  BY <1>1 DEF TypeOK
<1>3. /\ IsCall(c) /\ c.id = me[p].id /\ c.parent = me[p].parent /\ c.setbase = me[p].setbase
      /\ c.old = r
  BY <1>1, <1>2 DEF IsCall
<1>4. {"idle", "count_write"} \subseteq Stage
  BY DEF Stage
<1>5. CASE r.whole
  <2>1. GoWith(p, "count_write", c) /\ lock' = [lock EXCEPT ![me[p].id] = p]
    BY <1>5 DEF CountLock
  <2> HIDE DEF c
  <2>2. pc'[p] = "count_write" /\ me'[p] = c /\ Stay(p) /\ CallsTyped
    BY <1>3, <1>4, <2>1, Moves, MovesTyped DEF Stay, CallsTyped
  <2>3. QED
    BY <1>1, <1>3, <1>5, <2>1, <2>2 DEF CountLock, At
<1>6. CASE ~r.whole
  <2>1. Goto(p, "idle") /\ lock' = lock
    BY <1>6 DEF CountLock
  <2>2. QED
    BY <1>1, <1>4, <2>1, GoesOn DEF CountLock, At, Goes, CallsTyped
<1>7. QED
  BY <1>5, <1>6

LEMMA CountWriteEffect ==
    ASSUME TypeOK, NEW p \in Proc, CountWrite(p)
    PROVE  /\ pc[p] = "count_write" /\ Goes(p, "count_row") /\ CallsTyped /\ RecordsTyped
           /\ UNCHANGED <<rows, base, created, tasks, overlap, aborts>>
           /\ counted' = [counted EXCEPT ![me[p].id] = @ + 1]
           /\ counted' \in [EnvId -> Nat]
           /\ clash' = (clash \/ Rewriting(me[p].id) # {} \/ ~rec[me[p].id].whole)
           /\ clash' \in BOOLEAN /\ lock' = [lock EXCEPT ![me[p].id] = NoProc]
           /\ lock' \in [EnvId -> Proc \cup {NoProc}]
           /\ OnlyRecord(me[p].id)
           /\ rec'[me[p].id].live = rec[me[p].id].live
           /\ rec'[me[p].id].whole = rec[me[p].id].whole
           /\ rec'[me[p].id].inherit = rec[me[p].id].inherit
           /\ rec'[me[p].id].links = rec[me[p].id].links
           /\ rec'[me[p].id].derive = rec[me[p].id].derive
           /\ rec[me[p].id].whole => rec'[me[p].id].ntask = me[p].old.ntask + 1
<1> DEFINE r == rec[me[p].id]
           x == [r EXCEPT !.ntask = me[p].old.ntask + 1]
<1>1. me[p].id \in EnvId /\ IsRecord(me[p].old) /\ clash \in BOOLEAN
  BY DEF TypeOK, IsCall
<1>2. IsRecord(r) /\ r.whole \in BOOLEAN /\ me[p].old.ntask \in Nat
  BY <1>1 DEF TypeOK, IsRecord
<1>3. Goto(p, "count_row") /\ "count_row" \in Stage
  BY DEF CountWrite, Stage
<1>4. Goes(p, "count_row") /\ CallsTyped
  BY <1>3, GoesOn DEF CallsTyped
<1>5. /\ counted' = [counted EXCEPT ![me[p].id] = @ + 1]
      /\ lock' = [lock EXCEPT ![me[p].id] = NoProc]
      /\ UNCHANGED <<rows, base, created, tasks, overlap, aborts>> /\ pc[p] = "count_write"
      /\ clash' = (clash \/ Rewriting(me[p].id) # {} \/ ~rec[me[p].id].whole)
  BY DEF CountWrite, At
<1>6. counted' \in [EnvId -> Nat]
  BY <1>1, <1>5 DEF TypeOK
<1>7. lock' \in [EnvId -> Proc \cup {NoProc}]
  BY <1>1, <1>5 DEF TypeOK
<1>8. clash' \in BOOLEAN
  BY <1>1, <1>2, <1>5
<1>9. CASE r.whole
  <2>1. /\ IsRecord(x) /\ x.live = r.live /\ x.whole = r.whole /\ x.inherit = r.inherit
        /\ x.links = r.links /\ x.derive = r.derive /\ x.ntask = me[p].old.ntask + 1
    BY <1>1, <1>2 DEF IsRecord
  <2>2. rec' = [rec EXCEPT ![me[p].id] = x]
    BY <1>9 DEF CountWrite
  <2> HIDE DEF x
  <2>3. RecordsTyped /\ OnlyRecord(me[p].id) /\ rec'[me[p].id] = x
    BY <1>1, <2>1, <2>2, Replaced DEF RecordsTyped
  <2>4. QED
    BY <1>4, <1>5, <1>6, <1>7, <1>8, <2>1, <2>3
<1>10. CASE ~r.whole
  <2>1. rec' = rec
    BY <1>10 DEF CountWrite
  <2>2. RecordsTyped /\ OnlyRecord(me[p].id)
    BY <2>1 DEF RecordsTyped, TypeOK, OnlyRecord
  <2>3. QED
    BY <1>4, <1>5, <1>6, <1>7, <1>8, <1>10, <2>1, <2>2
<1>11. QED
  BY <1>2, <1>9, <1>10

LEMMA CountRowEffect ==
    ASSUME TypeOK, Index, NEW p \in Proc, CountRow(p), Has(me[p].id)
    PROVE  /\ pc[p] = "count_row" /\ Goes(p, "idle") /\ CallsTyped
           /\ UNCHANGED <<rec, base, lock, created, tasks, counted, overlap, clash, aborts>>
           /\ RowPatched(me[p].id)
           /\ rows'[FirstRow(me[p].id)].derive = rows[FirstRow(me[p].id)].derive
           /\ rows'[FirstRow(me[p].id)].ntask = rows[FirstRow(me[p].id)].ntask + 1
<1> DEFINE n == FirstRow(me[p].id)
           y == [rows[n] EXCEPT !.ntask = @ + 1]
<1>1. n \in DOMAIN rows /\ RowsType
  BY FirstRowIs DEF Index
<1>2. IsRow(rows[n])
  BY <1>1 DEF RowsType
<1>3. /\ IsRow(y) /\ y.id = rows[n].id /\ y.inherit = rows[n].inherit
      /\ y.derive = rows[n].derive /\ y.ntask = rows[n].ntask + 1
  BY <1>2 DEF IsRow
<1>4. rows' = [rows EXCEPT ![n] = y]
  BY DEF CountRow
<1>5. Goto(p, "idle") /\ "idle" \in Stage
  BY DEF CountRow, Stage
<1>6. Goes(p, "idle") /\ CallsTyped
  BY <1>5, GoesOn DEF CallsTyped
<1> HIDE DEF n, y
<1>7. /\ RowsType' /\ Len(rows') = Len(rows) /\ DOMAIN rows' = DOMAIN rows
      /\ rows'[n] = y /\ (\A k \in DOMAIN rows : k # n => rows'[k] = rows[k])
      /\ \A k \in DOMAIN rows : rows'[k].id = rows[k].id /\ rows'[k].inherit = rows[k].inherit
  BY <1>1, <1>3, <1>4, Patched
<1>8. QED
  BY <1>3, <1>6, <1>7 DEF CountRow, At, RowPatched, n

LEMMA CrashEffect ==
    ASSUME TypeOK, NEW p \in Proc, Crash(p)
    PROVE  /\ pc[p] # "idle" /\ Goes(p, "dead") /\ CallsTyped
           /\ UNCHANGED <<rows, rec, base, created, tasks, counted, overlap, clash>>
           /\ aborts' \in 0..MaxAbort /\ lock' \in [EnvId -> Proc \cup {NoProc}]
           /\ \A i \in EnvId : lock[i] # p => lock'[i] = lock[i]
<1>1. Goto(p, "dead") /\ "dead" \in Stage
  BY DEF Crash, Stage
<1>2. Goes(p, "dead") /\ CallsTyped
  BY <1>1, GoesOn DEF CallsTyped
<1>3. aborts' \in 0..MaxAbort
  BY IdFacts DEF Crash, TypeOK
<1>4. lock' \in [EnvId -> Proc \cup {NoProc}] /\ \A i \in EnvId : lock[i] # p => lock'[i] = lock[i]
  BY DEF Crash, TypeOK
<1>5. QED
  BY <1>2, <1>3, <1>4 DEF Crash

-----------------------------------------------------------------------------
(* The types, the index, the calls and the records, step by step *)

(* A step of one process, as Next has them. *)
Moved(p) ==
    \/ \E n \in Name, parent \in EnvId \cup {Root} : NewBegin(p, n, parent)
    \/ \E always_new \in BOOLEAN : SnapshotBegin(p, always_new)
    \/ \E rtenv_id \in EnvId : CountBegin(p, rtenv_id)
    \/ Step(p)
    \/ Crash(p)

BeginsNew(p) ==
    \/ \E n \in Name, parent \in EnvId \cup {Root} : NewBegin(p, n, parent)
    \/ \E always_new \in BOOLEAN : SnapshotBegin(p, always_new)
BeginsCount(p) == \E rtenv_id \in EnvId : CountBegin(p, rtenv_id)
Configures(p) == ConfigTruncate(p) \/ ConfigWrite(p)

LEMMA MovedCases ==
    ASSUME NEW p \in Proc, Moved(p)
    PROVE  \/ BeginsNew(p) \/ BeginsCount(p) \/ Crash(p)
           \/ Alloc(p) \/ CheckName(p) \/ AppendRow(p) \/ RecordTruncate(p) \/ RecordWrite(p)
           \/ Configures(p)
           \/ DeriveRead(p) \/ DeriveTruncate(p) \/ DeriveWrite(p) \/ DeriveRow(p)
           \/ DeriveRecord(p) \/ CountLock(p) \/ CountWrite(p) \/ CountRow(p)
  BY Zenon DEF Moved, Step, BeginsNew, BeginsCount, Configures

(* What the call of a process that registers a child, or counts, names. *)
LEMMA CallFacts ==
    ASSUME TypeOK, Calls, NEW p \in Proc
    PROVE  /\ pc[p] \in Deriving => /\ me[p].parent # Root /\ me[p].parent \in EnvId
                                    /\ Has(me[p].parent)
           /\ pc[p] \in Recording \cup Counting => Has(me[p].id)
           /\ me[p].id \in EnvId /\ me[p].parent \in AnyId
<1>1. CallOK(p) /\ IsCall(me[p])
  BY DEF Calls, TypeOK
<1>2. me[p].id \in EnvId /\ me[p].parent \in AnyId
  BY <1>1 DEF IsCall
<1>3. QED
  BY <1>1, <1>2, IdFacts DEF CallOK

LEMMA DerivingCall ==
    ASSUME TypeOK, Calls, NEW p \in Proc,
           \/ DeriveRead(p) \/ DeriveTruncate(p) \/ DeriveWrite(p) \/ DeriveRow(p)
           \/ DeriveRecord(p)
    PROVE  me[p].parent # Root /\ me[p].parent \in EnvId /\ Has(me[p].parent)
<1>1. pc[p] \in Deriving
  BY DEF DeriveRead, DeriveTruncate, DeriveWrite, DeriveRow, DeriveRecord, At, Deriving, Rewrite
<1>2. QED
  BY <1>1, CallFacts

LEMMA CountingCall ==
    ASSUME TypeOK, Calls, NEW p \in Proc, CountLock(p) \/ CountWrite(p) \/ CountRow(p)
    PROVE  me[p].id \in EnvId /\ Has(me[p].id)
<1>1. pc[p] \in Counting
  BY DEF CountLock, CountWrite, CountRow, At, Counting
<1>2. QED
  BY <1>1, CallFacts

LEMMA TypeStep ==
    ASSUME TypeOK, Index, Calls, NEW p \in Proc, Moved(p)
    PROVE  TypeOK'
<1> USE DEF CallsTyped, RecordsTyped
<1>1. CASE BeginsNew(p)
  <2>1. created' \in 0..MaxId
    BY <1>1, BeginEffect, IdFacts DEF BeginsNew, TypeOK
  <2>2. overlap' \in BOOLEAN
    BY <1>1, BeginEffect DEF BeginsNew, TypeOK
  <2>3. QED
    BY <1>1, <2>1, <2>2, BeginEffect DEF BeginsNew, TypeOK
<1>2. CASE BeginsCount(p)
  <2>1. tasks' \in 0..MaxTask
    BY <1>2, CountBeginEffect, IdFacts DEF BeginsCount, TypeOK
  <2>2. QED
    BY <1>2, <2>1, CountBeginEffect DEF BeginsCount, TypeOK
<1>3. CASE Crash(p)
  BY <1>3, CrashEffect DEF TypeOK
<1>4. CASE Alloc(p)
  BY <1>4, AllocEffect DEF TypeOK, Kept
<1>5. CASE CheckName(p)
  BY <1>5, CheckNameEffect DEF TypeOK, Kept
<1>6. CASE AppendRow(p)
  BY <1>6, AppendRowEffect DEF TypeOK
<1>7. CASE RecordTruncate(p)
  BY <1>7, RecordTruncateEffect DEF TypeOK
<1>8. CASE RecordWrite(p)
  BY <1>8, RecordWriteEffect DEF TypeOK
<1>9. CASE Configures(p)
  BY <1>9, ConfigEffect DEF TypeOK, Configures
<1>10. CASE DeriveRead(p)
  BY <1>10, DerivingCall, DeriveReadEffect DEF TypeOK
<1>11. CASE DeriveTruncate(p)
  BY <1>11, DerivingCall, DeriveTruncateEffect DEF TypeOK
<1>12. CASE DeriveWrite(p)
  BY <1>12, DerivingCall, DeriveWriteEffect DEF TypeOK
<1>13. CASE DeriveRow(p)
  BY <1>13, DerivingCall, DeriveRowEffect DEF TypeOK
<1>14. CASE DeriveRecord(p)
  BY <1>14, DerivingCall, DeriveRecordEffect DEF TypeOK
<1>15. CASE CountLock(p)
  BY <1>15, CountLockEffect DEF TypeOK
<1>16. CASE CountWrite(p)
  BY <1>16, CountWriteEffect DEF TypeOK
<1>17. CASE CountRow(p)
  BY <1>17, CountingCall, CountRowEffect DEF TypeOK
<1>18. QED
  BY <1>1, <1>2, <1>3, <1>4, <1>5, <1>6, <1>7, <1>8, <1>9, <1>10, <1>11, <1>12, <1>13, <1>14,
     <1>15, <1>16, <1>17, MovedCases

(* A step that begins no creation leaves at most as many pending. *)
LEMMA PendingLess ==
    ASSUME IsFiniteSet(Pending), NEW p \in Proc, Stay(p), pc'[p] \in Creating => pc[p] \in Creating
    PROVE  /\ IsFiniteSet(Pending') /\ Cardinality(Pending') <= Cardinality(Pending)
           /\ Cardinality(Pending) \in Nat /\ Cardinality(Pending') \in Nat
           /\ pc[p] \in Creating /\ pc'[p] \notin Creating =>
                  Cardinality(Pending') = Cardinality(Pending) - 1
<1>1. CASE pc'[p] \in Creating \/ pc[p] \notin Creating
  <2>1. Pending' = Pending
    BY <1>1 DEF Pending, Stay
  <2>2. QED
    BY <1>1, <2>1, FS_CardinalityType
<1>2. CASE pc'[p] \notin Creating /\ pc[p] \in Creating
  <2>1. Pending' = Pending \ {p} /\ p \in Pending
    BY <1>2 DEF Pending, Stay
  <2>2. IsFiniteSet(Pending') /\ Cardinality(Pending') = Cardinality(Pending) - 1
    BY <2>1, FS_RemoveElement
  <2>3. Cardinality(Pending) \in Nat /\ Cardinality(Pending') \in Nat
    BY <2>2, FS_CardinalityType
  <2>4. QED
    BY <2>2, <2>3
<1>3. QED
  BY <1>1, <1>2

LEMMA PendingMore ==
    ASSUME IsFiniteSet(Pending), NEW p \in Proc, Stay(p), pc[p] = "idle", pc'[p] = "alloc"
    PROVE  /\ IsFiniteSet(Pending') /\ Cardinality(Pending') = Cardinality(Pending) + 1
           /\ Cardinality(Pending) \in Nat
<1>1. Pending' = Pending \cup {p} /\ p \notin Pending
  BY DEF Pending, Stay, Creating
<1>2. QED
  BY <1>1, FS_AddElement, FS_CardinalityType

(* A step that leaves the rows alone and begins no creation. *)
LEMMA IndexKept ==
    ASSUME TypeOK, Index, NEW p \in Proc, Stay(p), pc'[p] \in Creating => pc[p] \in Creating,
           rows' = rows, created' = created
    PROVE  Index'
<1>1. RowsType' /\ Largest' /\ Firsts'
  BY DEF Index, RowsType, Largest, Firsts, IsFirst, RowIds
<1>2. /\ \A k \in DOMAIN rows : rows[k].id <= Len(rows)
      /\ IsFiniteSet(Pending) /\ Len(rows) + Cardinality(Pending) <= created
  BY DEF Index, Budget
<1>3. IsFiniteSet(Pending') /\ Cardinality(Pending') <= Cardinality(Pending)
      /\ Cardinality(Pending) \in Nat /\ Cardinality(Pending') \in Nat
  BY <1>2, PendingLess
<1>4. Len(rows) \in Nat /\ created \in Nat
  BY DEF Index, RowsType, TypeOK
<1>5. Len(rows) + Cardinality(Pending') <= created
  BY ONLY <1>2, <1>3, <1>4
<1>6. QED
  BY <1>1, <1>2, <1>3, <1>5 DEF Index, Budget

(* A step that patches the first row of an environment. *)
LEMMA IndexPatched ==
    ASSUME TypeOK, Index, NEW p \in Proc, Stay(p), pc'[p] \notin Creating, NEW i, RowPatched(i),
           created' = created
    PROVE  Index'
<1>1. /\ RowsType' /\ Len(rows') = Len(rows) /\ DOMAIN rows' = DOMAIN rows
      /\ \A k \in DOMAIN rows : rows'[k].id = rows[k].id
  BY DEF RowPatched
<1>2. Firsts'
  BY <1>1, SameIds DEF Index
<1>3. Largest'
  <2>1. CASE rows = <<>>
    <3>1. DOMAIN rows' = {} /\ Len(rows) = 0
      BY <1>1, <2>1
    <3>2. rows' = <<>>
      BY <3>1, <1>1 DEF RowsType
    <3>3. QED
      BY <3>2 DEF Largest
  <2>2. CASE rows # <<>>
    BY <1>1, <2>2 DEF Index, Largest
  <2>3. QED
    BY <2>1, <2>2
<1>4. /\ \A k \in DOMAIN rows : rows[k].id <= Len(rows)
      /\ IsFiniteSet(Pending) /\ Len(rows) + Cardinality(Pending) <= created
  BY DEF Index, Budget
<1>5. IsFiniteSet(Pending') /\ Cardinality(Pending') <= Cardinality(Pending)
      /\ Cardinality(Pending) \in Nat /\ Cardinality(Pending') \in Nat
  BY <1>4, PendingLess
<1>6. Len(rows) \in Nat /\ created \in Nat
  BY DEF Index, RowsType, TypeOK
<1>7. Len(rows) + Cardinality(Pending') <= created
  BY ONLY <1>4, <1>5, <1>6
<1>8. QED
  BY <1>1, <1>2, <1>3, <1>4, <1>5, <1>7 DEF Index, Budget

(* A new row takes the place of the pending creation. *)
LEMMA IndexAppended ==
    ASSUME TypeOK, Index, Calls, NEW p \in Proc, AppendRow(p)
    PROVE  Index'
<1>1. PICK x : rows' = Append(rows, x) /\ IsRow(x) /\ x.id = me[p].id
  BY AppendRowEffect
<1>2. RowsType /\ Firsts
  BY DEF Index
<1>3. /\ RowsType' /\ Len(rows) \in Nat /\ DOMAIN rows = 1..Len(rows)
      /\ Len(rows') = Len(rows) + 1 /\ DOMAIN rows' = 1..Len(rows) + 1
      /\ rows'[Len(rows) + 1] = x /\ \A k \in DOMAIN rows : rows'[k] = rows[k]
  BY <1>1, <1>2, Appended
<1>4. Firsts'
  BY <1>1, <1>2, AppendedIds
<1> DEFINE n == Len(rows)
<1>5. /\ n + 1 \in DOMAIN rows' /\ DOMAIN rows \subseteq DOMAIN rows'
      /\ \A k \in DOMAIN rows' : k \in DOMAIN rows \/ k = n + 1
  BY <1>3
<1>6. x.id \in EnvId /\ x.id <= n + 1
  <2>1. pc[p] = "append" /\ CallOK(p)
    BY AppendRowEffect DEF Calls
  <2>2. QED
    BY <1>1, <2>1 DEF CallOK, IsRow
<1>7. \A k \in DOMAIN rows : rows[k].id <= n /\ rows[k].id \in EnvId
  BY DEF Index, Budget, RowsType, IsRow
<1>8. \A k \in DOMAIN rows' : rows'[k].id <= n + 1 /\ rows'[k].id \in Nat
  BY <1>3, <1>5, <1>6, <1>7, IdFacts
<1>9. Largest'
  <2>1. CASE \A j \in DOMAIN rows : rows[j].id <= x.id
    <3>1. x.id <= x.id
      BY <1>6, IdFacts
    <3>2. \A k \in DOMAIN rows' : rows'[k].id <= rows'[n + 1].id
      BY <2>1, <3>1, <1>3, <1>5
    <3>3. QED
      BY <3>2, <1>5 DEF Largest
  <2>2. CASE ~ \A j \in DOMAIN rows : rows[j].id <= x.id
    <3>1. PICK j \in DOMAIN rows : ~(rows[j].id <= x.id)
      BY <2>2
    <3>2. rows # <<>>
      BY <3>1
    <3>3. PICK t \in DOMAIN rows : \A k \in DOMAIN rows : rows[k].id <= rows[t].id
      BY <3>2 DEF Index, Largest
    <3>4. x.id <= rows[t].id
      BY <3>1, <3>3, <1>6, <1>7, IdFacts
    <3>5. t \in DOMAIN rows' /\ \A k \in DOMAIN rows' : rows'[k].id <= rows'[t].id
      BY <3>3, <3>4, <1>3, <1>5
    <3>6. QED
      BY <3>5 DEF Largest
  <2>3. QED
    BY <2>1, <2>2
<1>10. IsFiniteSet(Pending) /\ n + Cardinality(Pending) <= created
  BY DEF Index, Budget
<1>11. /\ IsFiniteSet(Pending') /\ Cardinality(Pending') = Cardinality(Pending) - 1
       /\ Cardinality(Pending) \in Nat /\ Cardinality(Pending') \in Nat
  <2>1. Stay(p) /\ pc[p] \in Creating /\ pc'[p] \notin Creating
    BY AppendRowEffect DEF Goes, Creating
  <2>2. QED
    BY <1>10, <2>1, PendingLess
<1>12. created' = created /\ created \in Nat
  BY AppendRowEffect DEF TypeOK
<1>13. n + 1 + Cardinality(Pending') <= created
  <2> HIDE DEF n
  <2>1. n \in Nat
    BY <1>3 DEF n
  <2>2. QED
    BY ONLY <1>10, <1>11, <1>12, <2>1
<1>14. QED
  BY <1>3, <1>4, <1>8, <1>9, <1>11, <1>12, <1>13 DEF Index, Budget

LEMMA IndexStep ==
    ASSUME TypeOK, Index, Calls, NEW p \in Proc, Moved(p)
    PROVE  Index'
<1> USE DEF Goes, Creating
<1>1. CASE BeginsNew(p)
  <2>1. /\ Stay(p) /\ pc[p] = "idle" /\ pc'[p] = "alloc" /\ rows' = rows /\ created' = created + 1
    BY <1>1, BeginEffect DEF BeginsNew
  <2>2. RowsType' /\ Largest' /\ Firsts'
    BY <2>1 DEF Index, RowsType, Largest, Firsts, IsFirst, RowIds
  <2>3. /\ \A k \in DOMAIN rows : rows[k].id <= Len(rows)
        /\ IsFiniteSet(Pending) /\ Len(rows) + Cardinality(Pending) <= created
    BY DEF Index, Budget
  <2>4. /\ IsFiniteSet(Pending') /\ Cardinality(Pending') = Cardinality(Pending) + 1
        /\ Cardinality(Pending) \in Nat
    BY <2>1, <2>3, PendingMore
  <2>5. Len(rows) \in Nat /\ created \in Nat
    BY DEF Index, RowsType, TypeOK
  <2>6. Len(rows) + Cardinality(Pending') <= created'
    BY ONLY <2>1, <2>3, <2>4, <2>5
  <2>7. QED
    BY <2>1, <2>2, <2>3, <2>4, <2>6 DEF Index, Budget
<1>2. CASE BeginsCount(p)
  BY <1>2, CountBeginEffect, IndexKept DEF BeginsCount
<1>3. CASE Crash(p)
  BY <1>3, CrashEffect, IndexKept
<1>4. CASE Alloc(p)
  BY <1>4, AllocEffect, IndexKept DEF Kept
<1>5. CASE CheckName(p)
  BY <1>5, CheckNameEffect, IndexKept DEF Kept
<1>6. CASE AppendRow(p)
  BY <1>6, IndexAppended
<1>7. CASE RecordTruncate(p)
  BY <1>7, RecordTruncateEffect, IndexKept
<1>8. CASE RecordWrite(p)
  BY <1>8, RecordWriteEffect, IndexKept DEF AfterWrite
<1>9. CASE Configures(p)
  BY <1>9, ConfigEffect, IndexKept DEF Configures
<1>10. CASE DeriveRead(p)
  BY <1>10, DerivingCall, DeriveReadEffect, IndexKept
<1>11. CASE DeriveTruncate(p)
  BY <1>11, DerivingCall, DeriveTruncateEffect, IndexKept
<1>12. CASE DeriveWrite(p)
  BY <1>12, DerivingCall, DeriveWriteEffect, IndexKept
<1>13. CASE DeriveRow(p)
  BY <1>13, DerivingCall, DeriveRowEffect, IndexPatched
<1>14. CASE DeriveRecord(p)
  BY <1>14, DerivingCall, DeriveRecordEffect, IndexKept
<1>15. CASE CountLock(p)
  BY <1>15, CountLockEffect, IndexKept
<1>16. CASE CountWrite(p)
  BY <1>16, CountWriteEffect, IndexKept
<1>17. CASE CountRow(p)
  BY <1>17, CountingCall, CountRowEffect, IndexPatched
<1>18. QED
  BY <1>1, <1>2, <1>3, <1>4, <1>5, <1>6, <1>7, <1>8, <1>9, <1>10, <1>11, <1>12, <1>13, <1>14,
     <1>15, <1>16, <1>17, MovedCases

(* Nothing is unlisted, no row is dropped and no record is removed. *)
Grows == /\ \A i : Has(i) => Has(i)'
         /\ Len(rows) \in Nat /\ Len(rows') \in Nat /\ Len(rows) <= Len(rows')
         /\ \A i \in EnvId : rec[i].live => rec'[i].live

LEMMA RowsKept ==
    ASSUME Index, rows' = rows
    PROVE  /\ (\A i : Has(i)' <=> Has(i)) /\ (\A i : FirstRow(i)' = FirstRow(i))
           /\ Len(rows) \in Nat /\ Len(rows') \in Nat /\ Len(rows) <= Len(rows')
<1>1. Len(rows) \in Nat
  BY DEF Index, RowsType
<1>2. QED
  BY <1>1 DEF Has, RowIds, FirstRow

LEMMA RowsPatched ==
    ASSUME Index, NEW n, RowPatched(n)
    PROVE  /\ (\A i : Has(i)' <=> Has(i)) /\ (\A i : Has(i) => FirstRow(i)' = FirstRow(i))
           /\ Len(rows) \in Nat /\ Len(rows') \in Nat /\ Len(rows) <= Len(rows')
<1>1. Len(rows) \in Nat /\ Len(rows') = Len(rows)
  BY DEF Index, RowsType, RowPatched
<1>2. (\A i : Has(i)' <=> Has(i)) /\ (\A i : Has(i) => FirstRow(i)' = FirstRow(i))
  BY SameIds DEF Index, RowPatched
<1>3. QED
  BY <1>1, <1>2

LEMMA GrowsStep ==
    ASSUME TypeOK, Index, Calls, Records, NEW p \in Proc, Moved(p)
    PROVE  Grows
<1> USE DEF Grows
<1>1. CASE BeginsNew(p)
  BY <1>1, BeginEffect, RowsKept DEF BeginsNew
<1>2. CASE BeginsCount(p)
  BY <1>2, CountBeginEffect, RowsKept DEF BeginsCount
<1>3. CASE Crash(p)
  BY <1>3, CrashEffect, RowsKept
<1>4. CASE Alloc(p)
  BY <1>4, AllocEffect, RowsKept DEF Kept
<1>5. CASE CheckName(p)
  BY <1>5, CheckNameEffect, RowsKept DEF Kept
<1>6. CASE AppendRow(p)
  <2>1. PICK x : rows' = Append(rows, x) /\ IsRow(x)
    BY <1>6, AppendRowEffect
  <2>2. RowsType /\ Firsts
    BY DEF Index
  <2>3. Len(rows) \in Nat /\ Len(rows') = Len(rows) + 1
    BY <2>1, <2>2, Appended
  <2>4. \A i : Has(i) => Has(i)'
    BY <2>1, <2>2, AppendedIds
  <2>5. rec' = rec
    BY <1>6, AppendRowEffect
  <2>6. QED
    BY <2>3, <2>4, <2>5
<1>7. CASE RecordTruncate(p)
  BY <1>7, RecordTruncateEffect, RowsKept DEF OnlyRecord
<1>8. CASE RecordWrite(p)
  BY <1>8, RecordWriteEffect, RowsKept DEF OnlyRecord
<1>9. CASE Configures(p)
  BY <1>9, ConfigEffect, RowsKept DEF Configures
<1>10. CASE DeriveRead(p)
  BY <1>10, DerivingCall, DeriveReadEffect, RowsKept
<1>11. CASE DeriveTruncate(p)
  BY <1>11, DerivingCall, DeriveTruncateEffect, RowsKept DEF OnlyRecord
<1>12. CASE DeriveWrite(p)
  <2>1. me[p].old.live
    BY <1>12, DerivingCall, DeriveWriteEffect DEF Calls, CallOK, Rewrite
  <2>2. QED
    BY <1>12, <2>1, DerivingCall, DeriveWriteEffect, RowsKept DEF OnlyRecord
<1>13. CASE DeriveRow(p)
  BY <1>13, DerivingCall, DeriveRowEffect, RowsPatched
<1>14. CASE DeriveRecord(p)
  BY <1>14, DerivingCall, DeriveRecordEffect, RowsKept DEF OnlyRecord
<1>15. CASE CountLock(p)
  BY <1>15, CountLockEffect, RowsKept
<1>16. CASE CountWrite(p)
  BY <1>16, CountWriteEffect, RowsKept DEF OnlyRecord
<1>17. CASE CountRow(p)
  BY <1>17, CountingCall, CountRowEffect, RowsPatched
<1>18. QED
  BY <1>1, <1>2, <1>3, <1>4, <1>5, <1>6, <1>7, <1>8, <1>9, <1>10, <1>11, <1>12, <1>13, <1>14,
     <1>15, <1>16, <1>17, MovedCases

(* The call of a process that does not move stays right. *)
LEMMA CallStays ==
    ASSUME TypeOK, Grows, NEW q \in Proc, CallOK(q), pc'[q] = pc[q], me'[q] = me[q]
    PROVE  CallOK(q)'
<1> DEFINE m == me[q]
<1>1. m.id \in EnvId
  BY DEF TypeOK, IsCall
<1>2. pc[q] \in {"check", "append"} => m.id <= Len(rows') + 1
  <2>1. \A a, b \in Nat, i \in EnvId : a <= b /\ i <= a + 1 => i <= b + 1
    BY IdFacts
  <2>2. QED
    BY <1>1, <2>1 DEF CallOK, Grows
<1>3. QED
  BY <1>1, <1>2 DEF CallOK, Grows

LEMMA IdleCall ==
    ASSUME NEW p \in Proc, pc'[p] = "idle", me'[p] = NoCall
    PROVE  CallOK(p)'
  BY DEF CallOK, NoCall, Recording, Counting, Deriving, Rewrite

LEMMA CallsStep ==
    ASSUME TypeOK, Index, Calls, Records, NEW p \in Proc, Moved(p)
    PROVE  Calls'
<1>0. Grows
  BY GrowsStep
<1>1. Stay(p) /\ CallOK(p)' => Calls'
  BY <1>0, CallStays DEF Calls, Stay
<1>2. CallOK(p)
  BY DEF Calls
<1>3. me[p].id \in EnvId /\ me[p].parent \in AnyId
  BY CallFacts
<1> USE DEF Recording, Counting, Deriving, Rewrite
<1>4. CASE BeginsNew(p)
  <2>1. CallOK(p)'
    BY <1>0, <1>4, BeginEffect DEF BeginsNew, CallOK, Grows
  <2>2. QED
    BY <1>1, <1>4, <2>1, BeginEffect DEF BeginsNew
<1>5. CASE BeginsCount(p)
  <2>1. me[p] = NoCall
    BY <1>2, <1>5, CountBeginEffect DEF BeginsCount, CallOK
  <2>2. me[p].parent = Root /\ ~me[p].setbase
    BY <2>1 DEF NoCall
  <2>3. CallOK(p)'
    BY <1>0, <1>5, <2>2, CountBeginEffect DEF BeginsCount, CallOK, Grows
  <2>4. QED
    BY <1>1, <1>5, <2>3, CountBeginEffect DEF BeginsCount
<1>6. CASE Crash(p)
  <2>1. CallOK(p)'
    BY <1>0, <1>2, <1>6, CrashEffect DEF CallOK, Grows, Goes
  <2>2. QED
    BY <1>1, <1>6, <2>1, CrashEffect DEF Goes
<1>7. CASE Alloc(p)
  <2>1. /\ pc'[p] = "check" /\ me'[p].id = NextId /\ me'[p].parent = me[p].parent
        /\ me'[p].setbase = me[p].setbase /\ rows' = rows /\ pc[p] = "alloc" /\ Stay(p)
    BY <1>7, AllocEffect DEF Kept
  <2>2. /\ NextId \in EnvId /\ NextId <= Len(rows) + 1
        /\ \A k \in DOMAIN rows : rows[k].id < NextId
    BY <2>1, NextIdFacts
  <2>3. me[p].parent < NextId
    <3>1. CASE me[p].parent = Root
      BY <2>2, <3>1, IdFacts
    <3>2. CASE me[p].parent # Root
      BY <1>2, <2>2, <3>2 DEF CallOK, Has, RowIds
    <3>3. QED
      BY <3>1, <3>2
  <2>4. CallOK(p)'
    BY <1>0, <1>2, <2>1, <2>2, <2>3 DEF CallOK, Grows
  <2>5. QED
    BY <1>1, <2>1, <2>4
<1>8. CASE CheckName(p)
  <2>1. pc[p] = "check" /\ (Goes(p, "idle") \/ Goes(p, "append")) /\ rows' = rows
    BY <1>8, CheckNameEffect DEF Kept
  <2>2. CASE Goes(p, "idle")
    BY <1>1, <2>2, IdleCall DEF Goes
  <2>3. CASE Goes(p, "append")
    <3>1. CallOK(p)'
      BY <1>0, <1>2, <2>1, <2>3 DEF Goes, CallOK, Grows
    <3>2. QED
      BY <1>1, <2>3, <3>1 DEF Goes
  <2>4. QED
    BY <2>1, <2>2, <2>3
<1>9. CASE AppendRow(p)
  <2>1. PICK x : rows' = Append(rows, x) /\ IsRow(x) /\ x.id = me[p].id
    BY <1>9, AppendRowEffect
  <2>2. pc[p] = "append" /\ Goes(p, "truncate") /\ me'[p] = me[p]
    BY <1>9, AppendRowEffect DEF Goes
  <2>3. Has(me[p].id)'
    BY <2>1, <2>2, AppendedIds DEF Index
  <2>4. CallOK(p)'
    BY <1>0, <1>2, <2>2, <2>3 DEF Goes, CallOK, Grows
  <2>5. QED
    BY <1>1, <2>2, <2>4 DEF Goes
<1>10. CASE RecordTruncate(p)
  <2>1. pc[p] = "truncate" /\ Goes(p, "write")
    BY <1>10, RecordTruncateEffect
  <2>2. CallOK(p)'
    BY <1>0, <1>2, <2>1 DEF Goes, CallOK, Grows
  <2>3. QED
    BY <1>1, <2>1, <2>2 DEF Goes
<1>11. CASE RecordWrite(p)
  <2>1. pc[p] = "write" /\ Goes(p, AfterWrite(me[p])) /\ rec'[me[p].id].live
    BY <1>11, RecordWriteEffect
  <2>2. CASE AfterWrite(me[p]) = "idle"
    BY <1>1, <2>1, <2>2, IdleCall DEF Goes
  <2>3. CASE AfterWrite(me[p]) # "idle"
    <3>1. me'[p] = me[p] /\ pc'[p] = AfterWrite(me[p])
      BY <2>1, <2>3 DEF Goes
    <3>2. CallOK(p)'
      BY <1>0, <1>2, <2>1, <2>3, <3>1 DEF AfterWrite, CallOK, Grows
    <3>3. QED
      BY <1>1, <2>1, <3>2 DEF Goes
  <2>4. QED
    BY <2>2, <2>3
<1>12. CASE Configures(p)
  <2>1. (pc[p] = "config" /\ Goes(p, "config_write")) \/ Goes(p, "idle")
    BY <1>12, ConfigEffect DEF Configures
  <2>2. CASE Goes(p, "idle")
    BY <1>1, <2>2, IdleCall DEF Goes
  <2>3. CASE pc[p] = "config" /\ Goes(p, "config_write")
    <3>1. CallOK(p)'
      BY <1>0, <1>2, <1>3, <2>3 DEF Goes, CallOK, Grows
    <3>2. QED
      BY <1>1, <2>3, <3>1 DEF Goes
  <2>4. QED
    BY <2>1, <2>2, <2>3
<1>13. CASE DeriveRead(p)
  <2>1. me[p].parent # Root /\ me[p].parent \in EnvId
    BY <1>13, DerivingCall
  <2>2. /\ pc[p] = "derive_read" /\ Stay(p)
        /\ \/ pc'[p] = "idle" /\ me'[p] = NoCall
           \/ /\ rec[me[p].parent].whole /\ pc'[p] \in {"derive_row", "derive_truncate"}
              /\ me'[p].id = me[p].id /\ me'[p].parent = me[p].parent
              /\ me'[p].setbase = me[p].setbase /\ me'[p].old = rec[me[p].parent]
    BY <1>13, <2>1, DeriveReadEffect
  <2>3. CASE pc'[p] = "idle" /\ me'[p] = NoCall
    BY <1>1, <2>2, <2>3, IdleCall
  <2>4. CASE /\ rec[me[p].parent].whole /\ pc'[p] \in {"derive_row", "derive_truncate"}
             /\ me'[p].id = me[p].id /\ me'[p].parent = me[p].parent
             /\ me'[p].setbase = me[p].setbase /\ me'[p].old = rec[me[p].parent]
    <3>1. rec[me[p].parent].live /\ rec[me[p].parent].inherit < me[p].parent
      BY <2>1, <2>4 DEF Records, InheritDecreases
    <3>2. CallOK(p)'
      BY <1>0, <1>2, <2>1, <2>2, <2>4, <3>1 DEF CallOK, Grows
    <3>3. QED
      BY <1>1, <2>2, <3>2
  <2>5. QED
    BY <2>2, <2>3, <2>4
<1>14. CASE DeriveTruncate(p)
  <2>1. pc[p] = "derive_truncate" /\ Goes(p, "derive_write")
    BY <1>14, DerivingCall, DeriveTruncateEffect
  <2>2. CallOK(p)'
    BY <1>0, <1>2, <2>1 DEF Goes, CallOK, Grows
  <2>3. QED
    BY <1>1, <2>1, <2>2 DEF Goes
<1>15. CASE DeriveWrite(p)
  <2>1. pc[p] = "derive_write" /\ Goes(p, "derive_row")
    BY <1>15, DerivingCall, DeriveWriteEffect
  <2>2. CallOK(p)'
    BY <1>0, <1>2, <2>1 DEF Goes, CallOK, Grows
  <2>3. QED
    BY <1>1, <2>1, <2>2 DEF Goes
<1>16. CASE DeriveRow(p)
  <2>1. pc[p] = "derive_row" /\ Goes(p, "derive_record")
    BY <1>16, DerivingCall, DeriveRowEffect
  <2>2. CallOK(p)'
    BY <1>0, <1>2, <2>1 DEF Goes, CallOK, Grows
  <2>3. QED
    BY <1>1, <2>1, <2>2 DEF Goes
<1>17. CASE DeriveRecord(p)
  <2>1. Goes(p, "idle")
    BY <1>17, DerivingCall, DeriveRecordEffect
  <2>2. QED
    BY <1>1, <2>1, IdleCall DEF Goes
<1>18. CASE CountLock(p)
  <2>1. /\ pc[p] = "count_lock" /\ Stay(p)
        /\ \/ pc'[p] = "idle" /\ me'[p] = NoCall
           \/ /\ pc'[p] = "count_write" /\ me'[p].id = me[p].id
              /\ me'[p].parent = me[p].parent /\ me'[p].setbase = me[p].setbase
    BY <1>18, CountLockEffect
  <2>2. CASE pc'[p] = "idle" /\ me'[p] = NoCall
    BY <1>1, <2>1, <2>2, IdleCall
  <2>3. CASE /\ pc'[p] = "count_write" /\ me'[p].id = me[p].id
             /\ me'[p].parent = me[p].parent /\ me'[p].setbase = me[p].setbase
    <3>1. CallOK(p)'
      BY <1>0, <1>2, <2>1, <2>3 DEF CallOK, Grows
    <3>2. QED
      BY <1>1, <2>1, <3>1
  <2>4. QED
    BY <2>1, <2>2, <2>3
<1>19. CASE CountWrite(p)
  <2>1. pc[p] = "count_write" /\ Goes(p, "count_row")
    BY <1>19, CountWriteEffect
  <2>2. CallOK(p)'
    BY <1>0, <1>2, <2>1 DEF Goes, CallOK, Grows
  <2>3. QED
    BY <1>1, <2>1, <2>2 DEF Goes
<1>20. CASE CountRow(p)
  <2>1. Goes(p, "idle")
    BY <1>20, CountingCall, CountRowEffect
  <2>2. QED
    BY <1>1, <2>1, IdleCall DEF Goes
<1>21. QED
  BY <1>4, <1>5, <1>6, <1>7, <1>8, <1>9, <1>10, <1>11, <1>12, <1>13, <1>14, <1>15, <1>16, <1>17,
     <1>18, <1>19, <1>20, MovedCases

(* The parts of Records, for one row, one record and the configuration. *)
GoodRow(k) == /\ rows[k].inherit < rows[k].id
              /\ rows[k].inherit # Root => Has(rows[k].inherit)
GoodRecord(i) == /\ rec[i].inherit < i /\ (rec[i].live => Has(i))
                 /\ (rec[i].whole => rec[i].live)
GoodBase == base \notin {Root, 1} => Has(base) /\ rec[base].live

LEMMA RecordsParts ==
    /\ Records => /\ \A k \in DOMAIN rows : GoodRow(k)
                  /\ \A i \in EnvId : GoodRecord(i)
                  /\ GoodBase
    /\ /\ \A k \in DOMAIN rows' : GoodRow(k)'
       /\ \A i \in EnvId : GoodRecord(i)'
       /\ GoodBase'
       => Records'
  BY DEF Records, InheritDecreases, RowFirst, GoodRow, GoodRecord, GoodBase

LEMMA RowsStayGood ==
    ASSUME Records, Index, Grows, rows' = rows \/ \E i : RowPatched(i)
    PROVE  \A k \in DOMAIN rows' : GoodRow(k)'
<1>1. /\ DOMAIN rows' = DOMAIN rows
      /\ \A k \in DOMAIN rows : rows'[k].id = rows[k].id /\ rows'[k].inherit = rows[k].inherit
  BY DEF RowPatched
<1>2. \A k \in DOMAIN rows : GoodRow(k)
  BY RecordsParts
<1>3. QED
  BY <1>1, <1>2 DEF GoodRow, Grows

LEMMA RecordsStayGood ==
    ASSUME Records, Grows
    PROVE  \A i \in EnvId : rec'[i] = rec[i] => GoodRecord(i)'
<1>1. \A i \in EnvId : GoodRecord(i)
  BY RecordsParts
<1>2. QED
  BY <1>1 DEF GoodRecord, Grows

LEMMA BaseStaysGood ==
    ASSUME TypeOK, Records, Grows, base' = base
    PROVE  GoodBase'
<1>1. GoodBase
  BY RecordsParts
<1>2. base # Root => base \in EnvId
  BY IdFacts DEF TypeOK
<1>3. QED
  BY <1>1, <1>2 DEF GoodBase, Grows

(* A step that rewrites at most the record of i. *)
LEMMA OneRecord ==
    ASSUME TypeOK, Records, Index, Grows, rows' = rows \/ \E j : RowPatched(j), base' = base,
           NEW i \in EnvId, OnlyRecord(i), GoodRecord(i)'
    PROVE  Records'
<1>1. \A j \in EnvId : GoodRecord(j)'
  BY RecordsStayGood DEF OnlyRecord
<1>2. QED
  BY <1>1, RowsStayGood, BaseStaysGood, RecordsParts

LEMMA NoRecordWritten ==
    ASSUME TypeOK, Records, Index, Grows, rows' = rows \/ \E j : RowPatched(j), base' = base,
           rec' = rec
    PROVE  Records'
<1>1. \A j \in EnvId : GoodRecord(j)'
  BY RecordsStayGood
<1>2. QED
  BY <1>1, RowsStayGood, BaseStaysGood, RecordsParts

LEMMA RecordsStep ==
    ASSUME TypeOK, Index, Calls, Records, NEW p \in Proc, Moved(p)
    PROVE  Records'
<1>0. Grows
  BY GrowsStep
<1>1. CallOK(p) /\ me[p].id \in EnvId /\ me[p].parent \in AnyId
  BY CallFacts DEF Calls
<1>2. \A i \in EnvId : GoodRecord(i)
  BY RecordsParts
<1>3. CASE BeginsNew(p)
  BY <1>0, <1>3, BeginEffect, NoRecordWritten DEF BeginsNew
<1>4. CASE BeginsCount(p)
  BY <1>0, <1>4, CountBeginEffect, NoRecordWritten DEF BeginsCount
<1>5. CASE Crash(p)
  BY <1>0, <1>5, CrashEffect, NoRecordWritten
<1>6. CASE Alloc(p)
  BY <1>0, <1>6, AllocEffect, NoRecordWritten DEF Kept
<1>7. CASE CheckName(p)
  BY <1>0, <1>7, CheckNameEffect, NoRecordWritten DEF Kept
<1>8. CASE AppendRow(p)
  <2>1. PICK x : /\ rows' = Append(rows, x) /\ IsRow(x) /\ x.id = me[p].id
                 /\ x.inherit = me[p].parent
    BY <1>8, AppendRowEffect
  <2>2. pc[p] = "append" /\ rec' = rec /\ base' = base
    BY <1>8, AppendRowEffect
  <2>3. /\ Len(rows) \in Nat /\ DOMAIN rows = 1..Len(rows)
        /\ DOMAIN rows' = 1..Len(rows) + 1 /\ rows'[Len(rows) + 1] = x
        /\ \A k \in DOMAIN rows : rows'[k] = rows[k]
    BY <2>1, Appended DEF Index
  <2>4. \A k \in DOMAIN rows' : k \in DOMAIN rows \/ k = Len(rows) + 1
    BY <2>3
  <2>5. x.inherit < x.id /\ (x.inherit # Root => Has(x.inherit))
    BY <1>1, <2>1, <2>2 DEF CallOK
  <2>6. \A k \in DOMAIN rows : GoodRow(k)
    BY RecordsParts
  <2>7. \A k \in DOMAIN rows' : GoodRow(k)'
    BY <1>0, <2>3, <2>4, <2>5, <2>6 DEF GoodRow, Grows
  <2>8. \A i \in EnvId : GoodRecord(i)'
    BY <1>0, <2>2, RecordsStayGood
  <2>9. QED
    BY <1>0, <2>2, <2>7, <2>8, BaseStaysGood, RecordsParts
<1>9. CASE RecordTruncate(p)
  <2>0. PICK i \in EnvId : i = me[p].id
    BY <1>1
  <2>1. /\ pc[p] = "truncate" /\ OnlyRecord(i) /\ rows' = rows /\ base' = base
        /\ rec'[i].live /\ ~rec'[i].whole /\ rec'[i].inherit = rec[i].inherit
    BY <1>9, <2>0, RecordTruncateEffect
  <2>2. Has(i)
    BY <1>1, <2>0, <2>1 DEF CallOK, Recording
  <2>3. GoodRecord(i)'
    BY <1>0, <1>2, <2>1, <2>2 DEF GoodRecord, Grows
  <2>4. QED
    BY <1>0, <2>1, <2>2, <2>3, OneRecord
<1>10. CASE RecordWrite(p)
  <2>0. PICK i \in EnvId : i = me[p].id
    BY <1>1
  <2>1. /\ pc[p] = "write" /\ OnlyRecord(i) /\ rows' = rows /\ base' = base
        /\ rec'[i].live /\ rec'[i].inherit = me[p].parent
    BY <1>10, <2>0, RecordWriteEffect
  <2>2. Has(i) /\ me[p].parent < i
    BY <1>1, <2>0, <2>1 DEF CallOK, Recording
  <2>3. GoodRecord(i)'
    BY <1>0, <2>1, <2>2 DEF GoodRecord, Grows
  <2>4. QED
    BY <1>0, <2>1, <2>2, <2>3, OneRecord
<1>11. CASE Configures(p)
  <2>1. /\ rows' = rows /\ rec' = rec
        /\ base' = Root \/ (pc[p] = "config_write" /\ base' = me[p].id)
    BY <1>11, ConfigEffect DEF Configures
  <2>2. GoodBase'
    BY <1>0, <1>1, <2>1 DEF CallOK, Recording, GoodBase, Grows
  <2>3. \A i \in EnvId : GoodRecord(i)'
    BY <1>0, <2>1, RecordsStayGood
  <2>4. QED
    BY <1>0, <2>1, <2>2, <2>3, RowsStayGood, RecordsParts
<1>12. CASE DeriveRead(p)
  BY <1>0, <1>12, DerivingCall, DeriveReadEffect, NoRecordWritten
<1>13. CASE DeriveTruncate(p)
  <2>0. PICK i \in EnvId : i = me[p].parent
    BY <1>13, DerivingCall
  <2>1. Has(i) /\ i # Root
    BY <2>0, <1>13, DerivingCall
  <2>2. /\ OnlyRecord(i) /\ rows' = rows /\ base' = base
        /\ rec'[i].live /\ ~rec'[i].whole /\ rec'[i].inherit = rec[i].inherit
    BY <1>13, <2>0, <2>1, DeriveTruncateEffect
  <2>3. GoodRecord(i)'
    BY <1>0, <1>2, <2>1, <2>2 DEF GoodRecord, Grows
  <2>4. QED
    BY <1>0, <2>1, <2>2, <2>3, OneRecord
<1>14. CASE DeriveWrite(p)
  <2>0. PICK i \in EnvId : i = me[p].parent
    BY <1>14, DerivingCall
  <2>1. Has(i) /\ i # Root
    BY <2>0, <1>14, DerivingCall
  <2>2. /\ pc[p] = "derive_write" /\ OnlyRecord(i) /\ rows' = rows /\ base' = base
        /\ rec'[i].live = me[p].old.live /\ rec'[i].inherit = me[p].old.inherit
    BY <1>14, <2>0, <2>1, DeriveWriteEffect
  <2>3. me[p].old.live /\ me[p].old.inherit < i
    BY <1>1, <2>0, <2>2 DEF CallOK, Rewrite
  <2>4. GoodRecord(i)'
    BY <1>0, <2>1, <2>2, <2>3 DEF GoodRecord, Grows
  <2>5. QED
    BY <1>0, <2>1, <2>2, <2>4, OneRecord
<1>15. CASE DeriveRow(p)
  BY <1>0, <1>15, DerivingCall, DeriveRowEffect, NoRecordWritten
<1>16. CASE DeriveRecord(p)
  <2>0. PICK i \in EnvId : i = me[p].parent
    BY <1>16, DerivingCall
  <2>1. Has(i) /\ i # Root
    BY <2>0, <1>16, DerivingCall
  <2>2. /\ OnlyRecord(i) /\ rows' = rows /\ base' = base /\ rec'[i].live = rec[i].live
        /\ rec'[i].whole = rec[i].whole /\ rec'[i].inherit = rec[i].inherit
    BY <1>16, <2>0, <2>1, DeriveRecordEffect
  <2>3. GoodRecord(i)'
    BY <1>0, <1>2, <2>1, <2>2 DEF GoodRecord, Grows
  <2>4. QED
    BY <1>0, <2>1, <2>2, <2>3, OneRecord
<1>17. CASE CountLock(p)
  BY <1>0, <1>17, CountLockEffect, NoRecordWritten
<1>18. CASE CountWrite(p)
  <2>0. PICK i \in EnvId : i = me[p].id
    BY <1>1
  <2>1. Has(i)
    BY <2>0, <1>18, CountingCall
  <2>2. /\ OnlyRecord(i) /\ rows' = rows /\ base' = base /\ rec'[i].live = rec[i].live
        /\ rec'[i].whole = rec[i].whole /\ rec'[i].inherit = rec[i].inherit
    BY <1>18, <2>0, CountWriteEffect
  <2>3. GoodRecord(i)'
    BY <1>0, <1>2, <2>1, <2>2 DEF GoodRecord, Grows
  <2>4. QED
    BY <1>0, <2>1, <2>2, <2>3, OneRecord
<1>19. CASE CountRow(p)
  BY <1>0, <1>19, CountingCall, CountRowEffect, NoRecordWritten
<1>20. QED
  BY <1>3, <1>4, <1>5, <1>6, <1>7, <1>8, <1>9, <1>10, <1>11, <1>12, <1>13, <1>14, <1>15, <1>16,
     <1>17, <1>18, <1>19, MovedCases

LEMMA InitInv == Init => IInv
<1> SUFFICES ASSUME Init PROVE IInv
  OBVIOUS
<1>1. TypeOK
  <2>1. \A i \in EnvId : rec[i] = NoRecord
    BY DEF Init
  <2>2. \A p \in Proc : me[p] = NoCall
    BY DEF Init
  <2>3. /\ rec = [i \in EnvId |-> rec[i]] /\ me = [p \in Proc |-> me[p]]
        /\ lock \in [EnvId -> Proc \cup {NoProc}] /\ counted \in [EnvId -> Nat]
        /\ base \in AnyId
    BY IdFacts DEF Init, AnyId
  <2>4. pc \in [Proc -> Stage]
    BY DEF Init, Stage
  <2>5. created \in 0..MaxId /\ tasks \in 0..MaxTask /\ aborts \in 0..MaxAbort
    BY IdFacts DEF Init
  <2>6. overlap \in BOOLEAN /\ clash \in BOOLEAN
    BY DEF Init
  <2>7. (\A i \in EnvId : IsRecord(rec[i])) /\ (\A p \in Proc : IsCall(me[p]))
    BY <2>1, <2>2, NothingOK
  <2>8. QED
    BY <2>3, <2>4, <2>5, <2>6, <2>7 DEF TypeOK
<1>2. rows = <<>> /\ DOMAIN rows = {} /\ Len(rows) = 0
  BY DEF Init
<1>3. RowIds = {}
  BY <1>2 DEF RowIds
<1>4. Index
  <2>1. rows \in Seq({})
    BY <1>2
  <2>2. RowsType
    BY <1>2, <2>1, SeqOfItsElements DEF RowsType
  <2>3. Pending = {}
    BY DEF Pending, Init, Creating
  <2>4. Budget
    BY <1>2, <2>3, FS_EmptySet DEF Budget, Init
  <2>5. QED
    BY <1>2, <1>3, <2>2, <2>4 DEF Index, Largest, Firsts
<1>5. Calls
  BY DEF Init, Calls, CallOK, NoCall, Recording, Counting, Deriving, Rewrite
<1>6. Records
  BY <1>2, IdFacts DEF Init, Records, InheritDecreases, RowFirst, NoRecord
<1>7. QED
  BY <1>1, <1>4, <1>5, <1>6 DEF IInv

LEMMA NextMoves ==
    ASSUME Next
    PROVE  \E p \in Proc : Moved(p)
  BY Zenon DEF Next, Moved

LEMMA InvStep == IInv /\ [Next]_vars => IInv'
<1> SUFFICES ASSUME IInv, [Next]_vars PROVE IInv'
  OBVIOUS
<1>1. CASE Next
  <2>1. PICK p \in Proc : Moved(p)
    BY <1>1, NextMoves
  <2>2. QED
    BY <2>1, TypeStep, IndexStep, CallsStep, RecordsStep DEF IInv
<1>2. CASE UNCHANGED vars
  <2>1. TypeOK'
    BY <1>2 DEF IInv, TypeOK, vars
  <2>2. Index'
    BY <1>2 DEF IInv, Index, RowsType, Largest, Firsts, IsFirst, RowIds, Budget, Pending, vars
  <2>3. Calls'
    BY <1>2 DEF IInv, Calls, CallOK, Has, RowIds, vars
  <2>4. Records'
    BY <1>2 DEF IInv, Records, InheritDecreases, RowFirst, Has, RowIds, vars
  <2>5. QED
    BY <2>1, <2>2, <2>3, <2>4 DEF IInv
<1>3. QED
  BY <1>1, <1>2

(* The inductive invariant holds in every reachable state, whatever        *)
(* processes create, count and crash at the same time.                     *)
THEOREM Invariance == Spec => []IInv
  BY InitInv, InvStep, PTL DEF Spec

(* An environment inherits from one with a smaller identifier, so that the *)
(* walk of tpb_rtenv_merge_chain ends, for any number of creations.        *)
THEOREM InheritanceEnds == Spec => []InheritDecreases
<1>1. IInv => InheritDecreases
  BY DEF IInv, Records
<1>2. QED
  BY <1>1, Invariance, PTL

(* The row comes before the record and the configuration that name it, at  *)
(* whatever point a process dies.                                          *)
THEOREM RowsComeFirst == Spec => []RowFirst
<1>1. IInv => RowFirst
  BY DEF IInv, Records
<1>2. QED
  BY <1>1, Invariance, PTL

-----------------------------------------------------------------------------
(* One environment for each identifier *)

(* An overlap or a clash is remembered. *)
LEMMA Remembered ==
    ASSUME TypeOK, Index, Calls, NEW p \in Proc, Moved(p)
    PROVE  (overlap => overlap') /\ (clash => clash') /\ (~BeginsNew(p) => overlap' = overlap)
<1>1. CASE BeginsNew(p)
  BY <1>1, BeginEffect DEF BeginsNew, TypeOK
<1>2. CASE BeginsCount(p)
  BY <1>2, CountBeginEffect DEF BeginsCount
<1>3. CASE Crash(p)
  BY <1>3, CrashEffect
<1>4. CASE Alloc(p)
  BY <1>4, AllocEffect DEF Kept
<1>5. CASE CheckName(p)
  BY <1>5, CheckNameEffect DEF Kept
<1>6. CASE AppendRow(p)
  BY <1>6, AppendRowEffect
<1>7. CASE RecordTruncate(p)
  BY <1>7, RecordTruncateEffect
<1>8. CASE RecordWrite(p)
  BY <1>8, RecordWriteEffect
<1>9. CASE Configures(p)
  BY <1>9, ConfigEffect DEF Configures
<1>10. CASE DeriveRead(p)
  BY <1>10, DerivingCall, DeriveReadEffect
<1>11. CASE DeriveTruncate(p)
  BY <1>11, DerivingCall, DeriveTruncateEffect
<1>12. CASE DeriveWrite(p)
  BY <1>12, DerivingCall, DeriveWriteEffect
<1>13. CASE DeriveRow(p)
  BY <1>13, DerivingCall, DeriveRowEffect
<1>14. CASE DeriveRecord(p)
  BY <1>14, DerivingCall, DeriveRecordEffect
<1>15. CASE CountLock(p)
  BY <1>15, CountLockEffect
<1>16. CASE CountWrite(p)
  BY <1>16, CountWriteEffect
<1>17. CASE CountRow(p)
  BY <1>17, CountingCall, CountRowEffect
<1>18. QED
  BY <1>1, <1>2, <1>3, <1>4, <1>5, <1>6, <1>7, <1>8, <1>9, <1>10, <1>11, <1>12, <1>13, <1>14,
     <1>15, <1>16, <1>17, MovedCases

(* A step that lists nothing and takes no identifier. *)
LEMMA SoleKept ==
    ASSUME Sole, NEW p \in Proc, Stay(p), overlap' = overlap,
           DOMAIN rows' = DOMAIN rows, \A k \in DOMAIN rows : rows'[k].id = rows[k].id,
           pc'[p] \in Creating => pc[p] \in Creating,
           pc'[p] \in {"check", "append"} => pc[p] \in {"check", "append"} /\ me'[p].id = me[p].id,
           pc'[p] \in Recording => pc[p] \in Recording /\ me'[p].id = me[p].id
    PROVE  Sole'
<1> SUFFICES ASSUME ~overlap' PROVE Sole'
  BY DEF Sole
<1>2. \A j, k \in DOMAIN rows' : rows'[j].id = rows'[k].id => j = k
  BY DEF Sole
<1>3. \A q \in Proc : /\ pc'[q] \in Creating => pc[q] \in Creating
                      /\ pc'[q] \in {"check", "append"} =>
                             pc[q] \in {"check", "append"} /\ me'[q].id = me[q].id
                      /\ pc'[q] \in Recording => pc[q] \in Recording /\ me'[q].id = me[q].id
  BY DEF Stay
<1>4. \A q, r \in Proc : pc'[q] \in Creating /\ pc'[r] \in Creating => q = r
  BY <1>3 DEF Sole
<1>5. \A q \in Proc : pc'[q] \in {"check", "append"} => me'[q].id \notin RowIds'
  <2>1. \A q \in Proc : pc[q] \in {"check", "append"} => ~Has(me[q].id)
    BY DEF Sole
  <2>2. RowIds' = RowIds
    BY DEF RowIds
  <2>3. QED
    BY <1>3, <2>1, <2>2 DEF Has
<1>6. \A q, r \in Proc : {pc'[q], pc'[r]} \subseteq Recording /\ me'[q].id = me'[r].id => q = r
  <2>1. \A q, r \in Proc : {pc[q], pc[r]} \subseteq Recording /\ me[q].id = me[r].id => q = r
    BY DEF Sole
  <2>2. QED
    BY <1>3, <2>1
<1>7. QED
  BY <1>2, <1>4, <1>5, <1>6 DEF Sole, Has

LEMMA SoleStep ==
    ASSUME TypeOK, Index, Calls, Sole, NEW p \in Proc, Moved(p)
    PROVE  Sole'
<1> USE DEF Creating, Recording
<1>1. CASE BeginsNew(p)
  <2> SUFFICES ASSUME ~overlap' PROVE Sole'
    BY DEF Sole
  <2>1. /\ pc[p] = "idle" /\ pc'[p] = "alloc" /\ Stay(p) /\ rows' = rows /\ ~overlap
        /\ \A q \in Proc : pc[q] \notin Creating
    BY <1>1, BeginEffect DEF BeginsNew, TypeOK
  <2>2. RowIds' = RowIds
    BY <2>1 DEF RowIds
  <2>3. \A q, r \in Proc : pc'[q] \in Creating /\ pc'[r] \in Creating => q = r
    BY <2>1 DEF Stay
  <2>4. \A q \in Proc : pc'[q] \notin {"check", "append"}
    BY <2>1 DEF Stay
  <2>5. \A q, r \in Proc : {pc'[q], pc'[r]} \subseteq Recording /\ me'[q].id = me'[r].id => q = r
    BY <2>1 DEF Stay, Sole
  <2>6. QED
    BY <2>1, <2>3, <2>4, <2>5 DEF Sole
<1>2. CASE BeginsCount(p)
  BY <1>2, CountBeginEffect, SoleKept DEF BeginsCount
<1>3. CASE Crash(p)
  BY <1>3, CrashEffect, SoleKept DEF Goes
<1>4. CASE Alloc(p)
  <2> SUFFICES ASSUME ~overlap' PROVE Sole'
    BY DEF Sole
  <2>1. /\ pc[p] = "alloc" /\ pc'[p] = "check" /\ Stay(p) /\ rows' = rows /\ overlap' = overlap
        /\ me'[p].id = NextId
    BY <1>4, AllocEffect DEF Kept
  <2>2. \A k \in DOMAIN rows : rows[k].id < NextId /\ rows[k].id \in Nat
    BY <2>1, NextIdFacts, IdFacts DEF Index, RowsType, IsRow
  <2>3. NextId \notin RowIds
    BY <2>2 DEF RowIds
  <2>4. RowIds' = RowIds
    BY <2>1 DEF RowIds
  <2>5. \A q, r \in Proc : pc'[q] \in Creating /\ pc'[r] \in Creating => q = r
    BY <2>1 DEF Stay, Sole
  <2>6. \A q \in Proc : pc'[q] \in {"check", "append"} => me'[q].id \notin RowIds'
    BY <2>1, <2>3, <2>4 DEF Stay, Sole, Has
  <2>7. \A q, r \in Proc : {pc'[q], pc'[r]} \subseteq Recording /\ me'[q].id = me'[r].id => q = r
    BY <2>1 DEF Stay, Sole
  <2>8. QED
    BY <2>1, <2>5, <2>6, <2>7 DEF Sole, Has
<1>5. CASE CheckName(p)
  BY <1>5, CheckNameEffect, SoleKept DEF Goes, Kept
<1>6. CASE AppendRow(p)
  <2> SUFFICES ASSUME ~overlap' PROVE Sole'
    BY DEF Sole
  <2>1. /\ pc[p] = "append" /\ Stay(p) /\ pc'[p] = "truncate" /\ me'[p] = me[p]
        /\ overlap' = overlap
    BY <1>6, AppendRowEffect DEF Goes
  <2>2. PICK x : rows' = Append(rows, x) /\ IsRow(x) /\ x.id = me[p].id
    BY <1>6, AppendRowEffect
  <2>3. /\ Len(rows) \in Nat /\ DOMAIN rows = 1..Len(rows)
        /\ DOMAIN rows' = 1..Len(rows) + 1 /\ rows'[Len(rows) + 1] = x
        /\ \A k \in DOMAIN rows : rows'[k] = rows[k]
    BY <2>2, Appended DEF Index
  <2>4. \A k \in DOMAIN rows' : k \in DOMAIN rows \/ k = Len(rows) + 1
    BY <2>3
  <2>5. me[p].id \notin RowIds
    BY <2>1 DEF Sole, Has
  <2>6. \A k \in DOMAIN rows : rows[k].id # x.id
    BY <2>2, <2>5 DEF RowIds
  <2>7. \A j, k \in DOMAIN rows' : rows'[j].id = rows'[k].id => j = k
    BY <2>1, <2>3, <2>4, <2>6 DEF Sole
  <2>8. \A q \in Proc : q # p => pc[q] \notin Creating /\ pc'[q] = pc[q] /\ me'[q] = me[q]
    BY <2>1 DEF Sole, Stay
  <2>9. \A q \in Proc : pc[q] \in Recording => me[q].id \in RowIds
    BY CallFacts DEF Has
  <2>10. \A q, r \in Proc : {pc'[q], pc'[r]} \subseteq Recording /\ me'[q].id = me'[r].id => q = r
    <3>1. \A q \in Proc : pc'[q] \in Recording => q = p \/ pc[q] \in Recording
      BY <2>8
    <3>2. \A q \in Proc : me'[q] = me[q]
      BY <2>1, <2>8
    <3>3. \A q, r \in Proc : {pc[q], pc[r]} \subseteq Recording /\ me[q].id = me[r].id => q = r
      BY <2>1 DEF Sole
    <3>4. QED
      BY <2>5, <2>9, <3>1, <3>2, <3>3
  <2>11. \A q \in Proc : pc'[q] \notin Creating
    BY <2>1, <2>8
  <2>12. QED
    BY <2>7, <2>10, <2>11 DEF Sole
<1>7. CASE RecordTruncate(p)
  BY <1>7, RecordTruncateEffect, SoleKept DEF Goes
<1>8. CASE RecordWrite(p)
  BY <1>8, RecordWriteEffect, SoleKept DEF Goes, AfterWrite
<1>9. CASE Configures(p)
  BY <1>9, ConfigEffect, SoleKept DEF Configures, Goes
<1>10. CASE DeriveRead(p)
  BY <1>10, DerivingCall, DeriveReadEffect, SoleKept
<1>11. CASE DeriveTruncate(p)
  BY <1>11, DerivingCall, DeriveTruncateEffect, SoleKept DEF Goes
<1>12. CASE DeriveWrite(p)
  BY <1>12, DerivingCall, DeriveWriteEffect, SoleKept DEF Goes
<1>13. CASE DeriveRow(p)
  BY <1>13, DerivingCall, DeriveRowEffect, SoleKept DEF Goes, RowPatched
<1>14. CASE DeriveRecord(p)
  BY <1>14, DerivingCall, DeriveRecordEffect, SoleKept DEF Goes
<1>15. CASE CountLock(p)
  BY <1>15, CountLockEffect, SoleKept
<1>16. CASE CountWrite(p)
  BY <1>16, CountWriteEffect, SoleKept DEF Goes
<1>17. CASE CountRow(p)
  BY <1>17, CountingCall, CountRowEffect, SoleKept DEF Goes, RowPatched
<1>18. QED
  BY <1>1, <1>2, <1>3, <1>4, <1>5, <1>6, <1>7, <1>8, <1>9, <1>10, <1>11, <1>12, <1>13, <1>14,
     <1>15, <1>16, <1>17, MovedCases

-----------------------------------------------------------------------------
(* The counter of a row and the processes that have still to patch it *)

(* A step that lists nothing and counts nothing. *)
LEMMA RowCountKept ==
    ASSUME Index, NEW p \in Proc, Stay(p), NEW i \in EnvId, RowCount(i),
           Has(i)' <=> Has(i), Has(i) => rows'[FirstRow(i)'].ntask = rows[FirstRow(i)].ntask,
           counted'[i] = counted[i], pc[p] # "count_row", pc'[p] # "count_row", pc[p] # "dead"
    PROVE  RowCount(i)'
<1>1. Due(i)' = Due(i)
  BY DEF Due, Stay
<1>2. Alive' => Alive
  BY DEF Alive, Stay
<1>3. QED
  BY <1>1, <1>2 DEF RowCount

LEMMA RowCountsKept ==
    ASSUME Index, RowCounts, NEW p \in Proc, Stay(p), rows' = rows, counted' = counted,
           pc[p] \notin {"count_row", "dead"}, pc'[p] # "count_row"
    PROVE  RowCounts'
<1>1. \A i \in EnvId : RowCount(i)'
  BY RowsKept, RowCountKept DEF RowCounts
<1>2. QED
  BY <1>1 DEF RowCounts

LEMMA RowCountsStep ==
    ASSUME TypeOK, Index, Calls, RowCounts, NEW p \in Proc, Moved(p)
    PROVE  RowCounts'
<1>0. \A i \in EnvId : RowCount(i) /\ counted[i] \in Nat
  BY DEF RowCounts, TypeOK
<1>1. CASE BeginsNew(p)
  BY <1>1, BeginEffect, RowCountsKept DEF BeginsNew
<1>2. CASE BeginsCount(p)
  BY <1>2, CountBeginEffect, RowCountsKept DEF BeginsCount
<1>3. CASE Crash(p)
  <2>1. rows' = rows /\ counted' = counted /\ Stay(p) /\ pc'[p] = "dead"
    BY <1>3, CrashEffect DEF Goes
  <2>2. ASSUME NEW i \in EnvId PROVE RowCount(i)'
    <3>1. RowCount(i) /\ counted[i] \in Nat
      BY <1>0
    <3>2. Due(i)' \subseteq Due(i)
      BY <2>1 DEF Due, Stay
    <3>3. /\ IsFiniteSet(Due(i)') /\ Cardinality(Due(i)') <= Cardinality(Due(i))
          /\ Cardinality(Due(i)) \in Nat /\ Cardinality(Due(i)') \in Nat
      BY <3>1, <3>2, FS_Subset, FS_CardinalityType DEF RowCount
    <3>4. ~Alive'
      BY <2>1 DEF Alive
    <3>5. Has(i) => rows[FirstRow(i)].ntask \in Nat
      BY FirstRowIs DEF Index, RowsType, IsRow
    <3>6. Has(i) => rows[FirstRow(i)].ntask + Cardinality(Due(i)') <= counted[i]
      BY <3>1, <3>3, <3>5 DEF RowCount
    <3>7. (Has(i)' <=> Has(i)) /\ FirstRow(i)' = FirstRow(i)
      BY <2>1, RowsKept
    <3>8. QED
      BY <2>1, <3>1, <3>3, <3>4, <3>6, <3>7 DEF RowCount
  <2>3. QED
    BY <2>2 DEF RowCounts
<1>4. CASE Alloc(p)
  BY <1>4, AllocEffect, RowCountsKept DEF Kept
<1>5. CASE CheckName(p)
  BY <1>5, CheckNameEffect, RowCountsKept DEF Kept, Goes
<1>6. CASE AppendRow(p)
  <2>1. PICK x : rows' = Append(rows, x) /\ IsRow(x) /\ x.id = me[p].id /\ x.ntask = 0
    BY <1>6, AppendRowEffect
  <2>2. /\ pc[p] = "append" /\ Stay(p) /\ pc'[p] = "truncate" /\ counted' = counted
    BY <1>6, AppendRowEffect DEF Goes
  <2>3. /\ \A i : Has(i)' <=> Has(i) \/ i = x.id
        /\ \A i : Has(i) => FirstRow(i)' = FirstRow(i)
        /\ ~Has(x.id) => FirstRow(x.id)' = Len(rows) + 1
    BY <2>1, AppendedIds DEF Index
  <2>4. rows'[Len(rows) + 1] = x /\ \A k \in DOMAIN rows : rows'[k] = rows[k]
    BY <2>1, Appended DEF Index
  <2>5. ASSUME NEW i \in EnvId PROVE RowCount(i)'
    <3>1. RowCount(i) /\ counted[i] \in Nat
      BY <1>0
    <3>2. CASE Has(i)
      <4>1. rows'[FirstRow(i)'].ntask = rows[FirstRow(i)].ntask
        BY <2>3, <2>4, <3>2, FirstRowIs DEF Index
      <4>2. Has(i)' <=> Has(i)
        BY <2>3, <3>2
      <4>3. QED
        BY <2>2, <3>1, <4>1, <4>2, RowCountKept
    <3>3. CASE ~Has(i) /\ i # x.id
      <4>1. Has(i)' <=> Has(i)
        BY <2>3, <3>3
      <4>2. QED
        BY <2>2, <3>1, <3>3, <4>1, RowCountKept
    <3>4. CASE ~Has(i) /\ i = x.id
      <4>1. Due(i)' = {}
        <5>1. \A q \in Proc : pc[q] = "count_row" => Has(me[q].id)
          BY CallFacts DEF Counting
        <5>2. QED
          BY <2>2, <3>4, <5>1 DEF Due, Stay
      <4>2. IsFiniteSet(Due(i)') /\ Cardinality(Due(i)') = 0
        BY <4>1, FS_EmptySet
      <4>3. Has(i)' /\ rows'[FirstRow(i)'].ntask = 0 /\ counted'[i] = 0
        BY <2>1, <2>2, <2>3, <2>4, <3>1, <3>4 DEF RowCount
      <4>4. QED
        BY <4>2, <4>3 DEF RowCount
    <3>5. QED
      BY <3>2, <3>3, <3>4
  <2>6. QED
    BY <2>5 DEF RowCounts
<1>7. CASE RecordTruncate(p)
  BY <1>7, RecordTruncateEffect, RowCountsKept DEF Goes
<1>8. CASE RecordWrite(p)
  BY <1>8, RecordWriteEffect, RowCountsKept DEF Goes, AfterWrite
<1>9. CASE Configures(p)
  BY <1>9, ConfigEffect, RowCountsKept DEF Configures, Goes
<1>10. CASE DeriveRead(p)
  BY <1>10, DerivingCall, DeriveReadEffect, RowCountsKept
<1>11. CASE DeriveTruncate(p)
  BY <1>11, DerivingCall, DeriveTruncateEffect, RowCountsKept DEF Goes
<1>12. CASE DeriveWrite(p)
  BY <1>12, DerivingCall, DeriveWriteEffect, RowCountsKept DEF Goes
<1>13. CASE DeriveRow(p)
  <2> DEFINE n == FirstRow(me[p].parent)
  <2>1. /\ pc[p] = "derive_row" /\ Stay(p) /\ pc'[p] = "derive_record" /\ counted' = counted
        /\ RowPatched(me[p].parent) /\ rows'[n].ntask = rows[n].ntask
    BY <1>13, DerivingCall, DeriveRowEffect DEF Goes
  <2>2. \A k \in DOMAIN rows : rows'[k].ntask = rows[k].ntask
    BY <2>1 DEF RowPatched
  <2>3. \A i \in EnvId : RowCount(i)'
    <3>1. (\A i : Has(i)' <=> Has(i)) /\ (\A i : Has(i) => FirstRow(i)' = FirstRow(i))
      BY <2>1, RowsPatched
    <3>2. \A i : Has(i) => rows'[FirstRow(i)'].ntask = rows[FirstRow(i)].ntask
      BY <2>2, <3>1, FirstRowIs DEF Index
    <3>3. QED
      BY <1>0, <2>1, <3>1, <3>2, RowCountKept
  <2>4. QED
    BY <2>3 DEF RowCounts
<1>14. CASE DeriveRecord(p)
  BY <1>14, DerivingCall, DeriveRecordEffect, RowCountsKept DEF Goes
<1>15. CASE CountLock(p)
  BY <1>15, CountLockEffect, RowCountsKept
<1>16. CASE CountWrite(p)
  <2>1. /\ pc[p] = "count_write" /\ Stay(p) /\ pc'[p] = "count_row" /\ me'[p] = me[p]
        /\ rows' = rows /\ counted' = [counted EXCEPT ![me[p].id] = @ + 1]
    BY <1>16, CountWriteEffect DEF Goes
  <2>2. Has(me[p].id) /\ me[p].id \in EnvId
    BY <1>16, CountingCall
  <2>3. (\A i : Has(i)' <=> Has(i)) /\ (\A i : FirstRow(i)' = FirstRow(i))
    BY <2>1, RowsKept
  <2>4. Alive' => Alive
    BY <2>1 DEF Alive, Stay
  <2>5. ASSUME NEW i \in EnvId PROVE RowCount(i)'
    <3>1. RowCount(i) /\ counted[i] \in Nat
      BY <1>0
    <3>2. CASE i # me[p].id
      <4>1. Due(i)' = Due(i)
        BY <2>1, <3>2 DEF Due, Stay
      <4>2. counted'[i] = counted[i]
        BY <2>1, <2>2, <3>2 DEF TypeOK
      <4>3. QED
        BY <2>1, <2>3, <2>4, <3>1, <4>1, <4>2 DEF RowCount
    <3>3. CASE i = me[p].id
      <4>1. Due(i)' = Due(i) \cup {p} /\ p \notin Due(i)
        BY <2>1, <3>3 DEF Due, Stay
      <4>2. /\ IsFiniteSet(Due(i)') /\ Cardinality(Due(i)') = Cardinality(Due(i)) + 1
            /\ Cardinality(Due(i)) \in Nat
        BY <3>1, <4>1, FS_AddElement, FS_CardinalityType DEF RowCount
      <4>3. counted'[i] = counted[i] + 1
        BY <2>1, <3>3 DEF TypeOK
      <4>4. rows[FirstRow(i)].ntask \in Nat /\ Has(i)
        BY <2>2, <3>3, FirstRowIs DEF Index, RowsType, IsRow
      <4>5. /\ rows[FirstRow(i)].ntask + Cardinality(Due(i)') <= counted'[i]
            /\ Alive => rows[FirstRow(i)].ntask + Cardinality(Due(i)') = counted'[i]
        BY <3>1, <4>2, <4>3, <4>4 DEF RowCount
      <4>6. QED
        BY <2>1, <2>3, <2>4, <4>2, <4>4, <4>5 DEF RowCount
    <3>4. QED
      BY <3>2, <3>3
  <2>6. QED
    BY <2>5 DEF RowCounts
<1>17. CASE CountRow(p)
  <2>1. Has(me[p].id) /\ me[p].id \in EnvId
    BY <1>17, CountingCall
  <2>2. /\ pc[p] = "count_row" /\ Stay(p) /\ pc'[p] = "idle" /\ counted' = counted
        /\ RowPatched(me[p].id)
        /\ rows'[FirstRow(me[p].id)].ntask = rows[FirstRow(me[p].id)].ntask + 1
    BY <1>17, <2>1, CountRowEffect DEF Goes
  <2>3. (\A i : Has(i)' <=> Has(i)) /\ (\A i : Has(i) => FirstRow(i)' = FirstRow(i))
    BY <2>2, RowsPatched
  <2>4. Alive' => Alive
    BY <2>2 DEF Alive, Stay
  <2>5. ASSUME NEW i \in EnvId PROVE RowCount(i)'
    <3>1. RowCount(i) /\ counted[i] \in Nat
      BY <1>0
    <3>2. CASE i # me[p].id
      <4>1. Due(i)' = Due(i)
        BY <2>2, <3>2 DEF Due, Stay
      <4>2. Has(i) => rows'[FirstRow(i)'].ntask = rows[FirstRow(i)].ntask
        <5>1. SUFFICES ASSUME Has(i) PROVE rows'[FirstRow(i)] = rows[FirstRow(i)]
          BY <2>3
        <5>2. FirstRow(i) \in DOMAIN rows /\ rows[FirstRow(i)].id = i
          BY <5>1, FirstRowIs DEF Index
        <5>3. rows[FirstRow(me[p].id)].id = me[p].id
          BY <2>1, FirstRowIs DEF Index
        <5>4. QED
          BY <2>2, <3>2, <5>2, <5>3 DEF RowPatched
      <4>3. QED
        BY <2>2, <2>3, <2>4, <3>1, <4>1, <4>2 DEF RowCount
    <3>3. CASE i = me[p].id
      <4>1. Due(i)' = Due(i) \ {p} /\ p \in Due(i)
        BY <2>2, <3>3 DEF Due, Stay
      <4>2. /\ IsFiniteSet(Due(i)') /\ Cardinality(Due(i)') = Cardinality(Due(i)) - 1
            /\ Cardinality(Due(i)) \in Nat
        BY <3>1, <4>1, FS_RemoveElement, FS_CardinalityType DEF RowCount
      <4>3. rows[FirstRow(i)].ntask \in Nat /\ Has(i)
        BY <2>1, <3>3, FirstRowIs DEF Index, RowsType, IsRow
      <4>4. rows'[FirstRow(i)'].ntask = rows[FirstRow(i)].ntask + 1
        BY <2>2, <2>3, <3>3, <4>3
      <4>5. /\ rows'[FirstRow(i)'].ntask + Cardinality(Due(i)') <= counted[i]
            /\ Alive => rows'[FirstRow(i)'].ntask + Cardinality(Due(i)') = counted[i]
        BY <3>1, <4>2, <4>3, <4>4 DEF RowCount
      <4>6. QED
        BY <2>2, <2>3, <2>4, <4>2, <4>3, <4>5 DEF RowCount
    <3>4. QED
      BY <3>2, <3>3
  <2>6. QED
    BY <2>5 DEF RowCounts
<1>18. QED
  BY <1>1, <1>2, <1>3, <1>4, <1>5, <1>6, <1>7, <1>8, <1>9, <1>10, <1>11, <1>12, <1>13, <1>14,
     <1>15, <1>16, <1>17, MovedCases

-----------------------------------------------------------------------------
(* What is read of a record *)

(* Only a process that finds the file whole reads it. *)
LEMMA UnreadKept ==
    ASSUME NEW p \in Proc, NEW i, Unread(i), Stay(p),
           pc'[p] = "count_write" => me'[p].id # i, pc'[p] \in Rewrite => me'[p].parent # i
    PROVE  Unread(i)'
  BY DEF Unread, Stay

LEMMA FreshKept ==
    ASSUME NEW p \in Proc, NEW i, Fresh(i), Stay(p), rec'[i].whole = rec[i].whole,
           rec'[i].links = rec[i].links, counted'[i] = counted[i],
           pc'[p] = "count_write" => me'[p].id # i, pc'[p] \in Rewrite => me'[p].parent # i
    PROVE  Fresh(i)'
  BY UnreadKept DEF Fresh

(* A record stays fresh until its creator writes it. *)
LEMMA FreshStep ==
    ASSUME TypeOK, Index, Calls, NEW p \in Proc, Moved(p), NEW i \in EnvId, Fresh(i),
           RecordWrite(p) => me[p].id # i
    PROVE  Fresh(i)'
<1> USE DEF Rewrite
<1>1. CASE BeginsNew(p)
  BY <1>1, BeginEffect, FreshKept DEF BeginsNew
<1>2. CASE BeginsCount(p)
  BY <1>2, CountBeginEffect, FreshKept DEF BeginsCount
<1>3. CASE Crash(p)
  BY <1>3, CrashEffect, FreshKept DEF Goes
<1>4. CASE Alloc(p)
  BY <1>4, AllocEffect, FreshKept DEF Kept
<1>5. CASE CheckName(p)
  BY <1>5, CheckNameEffect, FreshKept DEF Kept, Goes
<1>6. CASE AppendRow(p)
  BY <1>6, AppendRowEffect, FreshKept DEF Goes
<1>7. CASE RecordTruncate(p)
  <2>1. ~rec'[i].whole /\ rec'[i].links = rec[i].links /\ ~rec[i].whole
    BY <1>7, RecordTruncateEffect DEF OnlyRecord, Fresh
  <2>2. Stay(p) /\ pc'[p] = "write" /\ counted' = counted
    BY <1>7, RecordTruncateEffect DEF Goes
  <2>3. Unread(i)'
    BY <2>2, UnreadKept DEF Fresh
  <2>4. QED
    BY <2>1, <2>2, <2>3 DEF Fresh
<1>8. CASE RecordWrite(p)
  <2>1. rec'[i] = rec[i]
    BY <1>8, RecordWriteEffect DEF OnlyRecord
  <2>2. QED
    BY <1>8, <2>1, RecordWriteEffect, FreshKept DEF Goes, AfterWrite
<1>9. CASE Configures(p)
  BY <1>9, ConfigEffect, FreshKept DEF Configures, Goes
<1>10. CASE DeriveRead(p)
  <2>1. me[p].parent # Root
    BY <1>10, DerivingCall
  <2>2. /\ Stay(p) /\ rec' = rec /\ counted' = counted
        /\ pc'[p] # "count_write" /\ (pc'[p] \in Rewrite => me'[p].parent # i)
    BY <1>10, <2>1, DeriveReadEffect DEF Fresh
  <2>3. QED
    BY <2>2, FreshKept
<1>11. CASE DeriveTruncate(p)
  <2>1. me[p].parent # Root
    BY <1>11, DerivingCall
  <2>2. /\ Stay(p) /\ pc[p] = "derive_truncate" /\ pc'[p] = "derive_write" /\ me'[p] = me[p]
        /\ counted' = counted /\ OnlyRecord(me[p].parent)
    BY <1>11, <2>1, DeriveTruncateEffect DEF Goes
  <2>3. me[p].parent # i
    BY <2>2 DEF Fresh, Unread
  <2>4. QED
    BY <2>2, <2>3, FreshKept DEF OnlyRecord
<1>12. CASE DeriveWrite(p)
  <2>1. me[p].parent # Root
    BY <1>12, DerivingCall
  <2>2. /\ Stay(p) /\ pc[p] = "derive_write" /\ pc'[p] = "derive_row" /\ me'[p] = me[p]
        /\ counted' = counted /\ OnlyRecord(me[p].parent)
    BY <1>12, <2>1, DeriveWriteEffect DEF Goes
  <2>3. me[p].parent # i
    BY <2>2 DEF Fresh, Unread
  <2>4. QED
    BY <2>2, <2>3, FreshKept DEF OnlyRecord
<1>13. CASE DeriveRow(p)
  BY <1>13, DerivingCall, DeriveRowEffect, FreshKept DEF Goes
<1>14. CASE DeriveRecord(p)
  <2>1. me[p].parent # Root
    BY <1>14, DerivingCall
  <2>2. /\ Stay(p) /\ pc'[p] = "idle" /\ counted' = counted
        /\ rec'[i].whole = rec[i].whole /\ rec'[i].links = rec[i].links
    BY <1>14, <2>1, DeriveRecordEffect DEF Goes, OnlyRecord
  <2>3. QED
    BY <2>2, FreshKept
<1>15. CASE CountLock(p)
  <2>1. /\ Stay(p) /\ rec' = rec /\ counted' = counted
        /\ pc'[p] \notin Rewrite /\ (pc'[p] = "count_write" => me'[p].id # i)
    BY <1>15, CountLockEffect DEF Fresh
  <2>2. QED
    BY <2>1, FreshKept
<1>16. CASE CountWrite(p)
  <2>1. /\ Stay(p) /\ pc[p] = "count_write" /\ pc'[p] = "count_row"
        /\ OnlyRecord(me[p].id) /\ counted' = [counted EXCEPT ![me[p].id] = @ + 1]
    BY <1>16, CountWriteEffect DEF Goes
  <2>2. me[p].id # i
    BY <2>1 DEF Fresh, Unread
  <2>3. rec'[i] = rec[i] /\ counted'[i] = counted[i]
    BY <2>1, <2>2 DEF OnlyRecord, TypeOK
  <2>4. QED
    BY <2>1, <2>3, FreshKept
<1>17. CASE CountRow(p)
  BY <1>17, CountingCall, CountRowEffect, FreshKept DEF Goes
<1>18. QED
  BY <1>1, <1>2, <1>3, <1>4, <1>5, <1>6, <1>7, <1>8, <1>9, <1>10, <1>11, <1>12, <1>13, <1>14,
     <1>15, <1>16, <1>17, MovedCases

(* What a step leaves of the counts, the children and the locks of others. *)
Untouched(p) ==
    /\ ~CountWrite(p) => /\ counted' = counted
                         /\ \A i \in EnvId, q \in Proc : q # p /\ lock[i] = q => lock'[i] = q
    /\ ~DeriveWrite(p) /\ ~RecordWrite(p) => \A i \in EnvId : rec'[i].links = rec[i].links

LEMMA UntouchedStep ==
    ASSUME TypeOK, Index, Calls, NEW p \in Proc, Moved(p)
    PROVE  Untouched(p)
<1> USE DEF Untouched
<1>1. CASE BeginsNew(p)
  BY <1>1, BeginEffect DEF BeginsNew
<1>2. CASE BeginsCount(p)
  BY <1>2, CountBeginEffect DEF BeginsCount
<1>3. CASE Crash(p)
  BY <1>3, CrashEffect
<1>4. CASE Alloc(p)
  BY <1>4, AllocEffect DEF Kept
<1>5. CASE CheckName(p)
  BY <1>5, CheckNameEffect DEF Kept
<1>6. CASE AppendRow(p)
  BY <1>6, AppendRowEffect
<1>7. CASE RecordTruncate(p)
  BY <1>7, RecordTruncateEffect DEF OnlyRecord
<1>8. CASE RecordWrite(p)
  BY <1>8, RecordWriteEffect
<1>9. CASE Configures(p)
  BY <1>9, ConfigEffect DEF Configures
<1>10. CASE DeriveRead(p)
  BY <1>10, DerivingCall, DeriveReadEffect
<1>11. CASE DeriveTruncate(p)
  BY <1>11, DerivingCall, DeriveTruncateEffect DEF OnlyRecord
<1>12. CASE DeriveWrite(p)
  BY <1>12, DerivingCall, DeriveWriteEffect
<1>13. CASE DeriveRow(p)
  BY <1>13, DerivingCall, DeriveRowEffect
<1>14. CASE DeriveRecord(p)
  BY <1>14, DerivingCall, DeriveRecordEffect DEF OnlyRecord
<1>15. CASE CountLock(p)
  <2>1. \A i \in EnvId, q \in Proc : q # p /\ lock[i] = q => lock'[i] = q
    BY <1>15, CountLockEffect, RTEnvAssumption DEF TypeOK
  <2>2. QED
    BY <1>15, <2>1, CountLockEffect
<1>16. CASE CountWrite(p)
  BY <1>16, CountWriteEffect DEF OnlyRecord
<1>17. CASE CountRow(p)
  BY <1>17, CountingCall, CountRowEffect
<1>18. QED
  BY <1>1, <1>2, <1>3, <1>4, <1>5, <1>6, <1>7, <1>8, <1>9, <1>10, <1>11, <1>12, <1>13, <1>14,
     <1>15, <1>16, <1>17, MovedCases

LEMMA StayStep ==
    ASSUME TypeOK, Index, Calls, NEW p \in Proc, Moved(p)
    PROVE  Stay(p)
<1> USE DEF Goes
<1>1. CASE BeginsNew(p)
  BY <1>1, BeginEffect DEF BeginsNew
<1>2. CASE BeginsCount(p)
  BY <1>2, CountBeginEffect DEF BeginsCount
<1>3. CASE Crash(p)
  BY <1>3, CrashEffect
<1>4. CASE Alloc(p)
  BY <1>4, AllocEffect
<1>5. CASE CheckName(p)
  BY <1>5, CheckNameEffect
<1>6. CASE AppendRow(p)
  BY <1>6, AppendRowEffect
<1>7. CASE RecordTruncate(p)
  BY <1>7, RecordTruncateEffect
<1>8. CASE RecordWrite(p)
  BY <1>8, RecordWriteEffect
<1>9. CASE Configures(p)
  BY <1>9, ConfigEffect DEF Configures
<1>10. CASE DeriveRead(p)
  BY <1>10, DerivingCall, DeriveReadEffect
<1>11. CASE DeriveTruncate(p)
  BY <1>11, DerivingCall, DeriveTruncateEffect
<1>12. CASE DeriveWrite(p)
  BY <1>12, DerivingCall, DeriveWriteEffect
<1>13. CASE DeriveRow(p)
  BY <1>13, DerivingCall, DeriveRowEffect
<1>14. CASE DeriveRecord(p)
  BY <1>14, DerivingCall, DeriveRecordEffect
<1>15. CASE CountLock(p)
  BY <1>15, CountLockEffect
<1>16. CASE CountWrite(p)
  BY <1>16, CountWriteEffect
<1>17. CASE CountRow(p)
  BY <1>17, CountingCall, CountRowEffect
<1>18. QED
  BY <1>1, <1>2, <1>3, <1>4, <1>5, <1>6, <1>7, <1>8, <1>9, <1>10, <1>11, <1>12, <1>13, <1>14,
     <1>15, <1>16, <1>17, MovedCases

(* What the other processes hold of a record outlives the step, unless it  *)
(* is a clash.                                                             *)
LEMMA OthersHold ==
    ASSUME TypeOK, Index, Calls, Sole, Copies, NEW p \in Proc, Moved(p), ~overlap', ~clash',
           NEW q \in Proc, q # p
    PROVE  CountsHeld(q)'
<1>0. /\ ~overlap /\ ~clash /\ Stay(p) /\ Untouched(p) /\ pc'[q] = pc[q] /\ me'[q] = me[q]
  BY Remembered, StayStep, UntouchedStep DEF Stay
<1>1. CountsHeld(q) /\ CountsHeld(p)
  BY <1>0 DEF Copies
<1>2. /\ me[q].id \in EnvId /\ me[p].id \in EnvId
      /\ pc[q] \in Rewrite => me[q].parent \in EnvId
  BY CallFacts DEF Deriving
<1>3. pc[q] \in {"truncate", "write"} => Fresh(me[q].id)'
  <2> SUFFICES ASSUME pc[q] \in {"truncate", "write"}, NEW i \in EnvId, i = me[q].id
               PROVE  Fresh(i)'
    BY <1>0, <1>2 DEF Fresh, Unread
  <2>1. RecordWrite(p) => me[p].id # i
    <3> SUFFICES ASSUME RecordWrite(p), me[p].id = me[q].id PROVE FALSE
      OBVIOUS
    <3>1. pc[p] = "write"
      BY RecordWriteEffect
    <3>2. QED
      BY <1>0, <3>1 DEF Sole, Recording
  <2>2. Fresh(i)
    BY <1>1 DEF CountsHeld
  <2>3. QED
    BY <2>1, <2>2, FreshStep
<1>4. pc[q] = "count_write" =>
          lock'[me[q].id] = q /\ me[q].old.ntask = counted'[me[q].id]
  <2> SUFFICES ASSUME pc[q] = "count_write"
               PROVE  lock'[me[q].id] = q /\ me[q].old.ntask = counted'[me[q].id]
    OBVIOUS
  <2>1. lock[me[q].id] = q /\ me[q].old.ntask = counted[me[q].id]
    BY <1>1 DEF CountsHeld
  <2>2. CASE CountWrite(p)
    <3>1. /\ pc[p] = "count_write" /\ lock' = [lock EXCEPT ![me[p].id] = NoProc]
          /\ counted' = [counted EXCEPT ![me[p].id] = @ + 1]
      BY <2>2, CountWriteEffect
    <3>2. me[p].id # me[q].id
      BY <1>1, <2>1, <3>1 DEF CountsHeld
    <3>3. QED
      BY <1>2, <2>1, <3>1, <3>2 DEF TypeOK
  <2>3. CASE ~CountWrite(p)
    BY <1>0, <1>2, <2>1, <2>3 DEF Untouched
  <2>4. QED
    BY <2>2, <2>3
<1>5. pc[q] \in Rewrite => /\ me[q].old.ntask = counted'[me[q].parent]
                           /\ me[q].old.links = rec'[me[q].parent].links
  <2> SUFFICES ASSUME pc[q] \in Rewrite
               PROVE  /\ me[q].old.ntask = counted'[me[q].parent]
                      /\ me[q].old.links = rec'[me[q].parent].links
    OBVIOUS
  <2>1. /\ me[q].old.ntask = counted[me[q].parent]
        /\ me[q].old.links = rec[me[q].parent].links
    BY <1>1 DEF CountsHeld
  <2>2. me[q].parent \in EnvId /\ q \in Rewriting(me[q].parent)
    BY <1>2 DEF Rewriting, Rewrite
  <2>3. CASE CountWrite(p)
    <3>1. /\ ~clash' => Rewriting(me[p].id) = {}
          /\ counted' = [counted EXCEPT ![me[p].id] = @ + 1] /\ OnlyRecord(me[p].id)
      BY <2>3, CountWriteEffect
    <3>2. me[p].id # me[q].parent
      BY <2>2, <3>1
    <3>3. QED
      BY <1>2, <2>1, <2>2, <3>1, <3>2 DEF TypeOK, OnlyRecord
  <2>4. CASE DeriveWrite(p)
    <3>1. me[p].parent # Root
      BY <2>4, DerivingCall
    <3>2. /\ ~clash' => Rewriting(me[p].parent) = {p}
          /\ counted' = counted /\ OnlyRecord(me[p].parent)
      BY <2>4, <3>1, DeriveWriteEffect
    <3>3. me[p].parent # me[q].parent
      BY <2>2, <3>2
    <3>4. QED
      BY <2>1, <2>2, <3>2, <3>3 DEF OnlyRecord
  <2>5. CASE RecordWrite(p)
    <3>1. pc[p] = "write" /\ counted' = counted /\ OnlyRecord(me[p].id)
      BY <2>5, RecordWriteEffect
    <3>2. me[p].id # me[q].parent
      BY <1>1, <3>1 DEF CountsHeld, Fresh, Unread
    <3>3. QED
      BY <2>1, <2>2, <3>1, <3>2 DEF OnlyRecord
  <2>6. CASE ~CountWrite(p) /\ ~DeriveWrite(p) /\ ~RecordWrite(p)
    BY <1>0, <2>1, <2>2, <2>6 DEF Untouched
  <2>7. QED
    BY <2>3, <2>4, <2>5, <2>6
<1>6. QED
  BY <1>0, <1>3, <1>4, <1>5 DEF CountsHeld

(* A process that goes to a stage in which it holds nothing of a record. *)
LEMMA HoldsNothing ==
    ASSUME NEW p \in Proc, pc'[p] \notin {"truncate", "write", "count_write"} \cup Rewrite
    PROVE  CountsHeld(p)'
  BY DEF CountsHeld

(* What the process itself has read is what the record holds. *)
LEMMA MoverHolds ==
    ASSUME TypeOK, Index, Calls, Records, Sole, Copies, NEW p \in Proc, Moved(p),
           ~overlap', ~clash'
    PROVE  CountsHeld(p)'
<1>0. ~overlap /\ ~clash
  BY Remembered
<1>1. /\ CountsHeld(p) /\ me[p].id \in EnvId
      /\ \A i \in EnvId : (rec[i].whole => rec[i].ntask = counted[i]) /\ (~rec[i].live => Fresh(i))
  BY <1>0, CallFacts DEF Copies
<1> USE DEF Rewrite
<1>2. CASE BeginsNew(p)
  BY <1>2, BeginEffect, HoldsNothing DEF BeginsNew
<1>3. CASE BeginsCount(p)
  BY <1>3, CountBeginEffect, HoldsNothing DEF BeginsCount
<1>4. CASE Crash(p)
  BY <1>4, CrashEffect, HoldsNothing DEF Goes
<1>5. CASE Alloc(p)
  BY <1>5, AllocEffect, HoldsNothing
<1>6. CASE CheckName(p)
  BY <1>6, CheckNameEffect, HoldsNothing DEF Goes
<1>7. CASE AppendRow(p)
  <2>1. pc[p] = "append" /\ pc'[p] = "truncate" /\ me'[p] = me[p]
    BY <1>7, AppendRowEffect DEF Goes
  <2>2. ~RecordWrite(p)
    BY <2>1 DEF RecordWrite, At
  <2>3. PICK i \in EnvId : i = me[p].id
    BY <1>1
  <2>4. ~Has(i)
    BY <1>0, <2>1, <2>3 DEF Sole
  <2>5. Fresh(i)
    BY <1>1, <2>4 DEF Records, RowFirst
  <2>6. Fresh(i)'
    BY <2>2, <2>5, FreshStep
  <2>7. QED
    BY <2>1, <2>3, <2>6 DEF CountsHeld, Fresh, Unread
<1>8. CASE RecordTruncate(p)
  <2>1. pc[p] = "truncate" /\ pc'[p] = "write" /\ me'[p] = me[p]
    BY <1>8, RecordTruncateEffect DEF Goes
  <2>2. ~RecordWrite(p)
    BY <2>1 DEF RecordWrite, At
  <2>3. PICK i \in EnvId : i = me[p].id
    BY <1>1
  <2>4. Fresh(i)
    BY <1>1, <2>1, <2>3 DEF CountsHeld
  <2>5. Fresh(i)'
    BY <2>2, <2>4, FreshStep
  <2>6. QED
    BY <2>1, <2>3, <2>5 DEF CountsHeld, Fresh, Unread
<1>9. CASE RecordWrite(p)
  BY <1>9, RecordWriteEffect, HoldsNothing DEF Goes, AfterWrite
<1>10. CASE Configures(p)
  BY <1>10, ConfigEffect, HoldsNothing DEF Configures, Goes
<1>11. CASE DeriveRead(p)
  <2>1. me[p].parent # Root /\ me[p].parent \in EnvId
    BY <1>11, DerivingCall
  <2>2. /\ rec' = rec /\ counted' = counted
        /\ \/ pc'[p] = "idle"
           \/ /\ rec[me[p].parent].whole /\ pc'[p] \in {"derive_row", "derive_truncate"}
              /\ me'[p].parent = me[p].parent /\ me'[p].old = rec[me[p].parent]
    BY <1>11, <2>1, DeriveReadEffect
  <2>3. QED
    BY <1>1, <2>1, <2>2 DEF CountsHeld
<1>12. CASE DeriveTruncate(p)
  <2>1. me[p].parent # Root /\ me[p].parent \in EnvId
    BY <1>12, DerivingCall
  <2>2. /\ pc[p] = "derive_truncate" /\ pc'[p] = "derive_write" /\ me'[p] = me[p]
        /\ counted' = counted /\ rec'[me[p].parent].links = rec[me[p].parent].links
    BY <1>12, <2>1, DeriveTruncateEffect DEF Goes
  <2>3. QED
    BY <1>1, <2>2 DEF CountsHeld
<1>13. CASE DeriveWrite(p)
  BY <1>13, DerivingCall, DeriveWriteEffect, HoldsNothing DEF Goes
<1>14. CASE DeriveRow(p)
  BY <1>14, DerivingCall, DeriveRowEffect, HoldsNothing DEF Goes
<1>15. CASE DeriveRecord(p)
  BY <1>15, DerivingCall, DeriveRecordEffect, HoldsNothing DEF Goes
<1>16. CASE CountLock(p)
  <2>1. /\ rec' = rec /\ counted' = counted
        /\ \/ pc'[p] = "idle"
           \/ /\ rec[me[p].id].whole /\ pc'[p] = "count_write"
              /\ lock' = [lock EXCEPT ![me[p].id] = p]
              /\ me'[p].id = me[p].id /\ me'[p].old = rec[me[p].id]
    BY <1>16, CountLockEffect
  <2>2. CASE pc'[p] = "idle"
    BY <2>2, HoldsNothing
  <2>3. CASE pc'[p] # "idle"
    <3>1. lock'[me[p].id] = p
      BY <1>1, <2>1, <2>3 DEF TypeOK
    <3>2. QED
      BY <1>1, <2>1, <2>3, <3>1 DEF CountsHeld
  <2>4. QED
    BY <2>2, <2>3
<1>17. CASE CountWrite(p)
  BY <1>17, CountWriteEffect, HoldsNothing DEF Goes
<1>18. CASE CountRow(p)
  BY <1>18, CountingCall, CountRowEffect, HoldsNothing DEF Goes
<1>19. QED
  BY <1>2, <1>3, <1>4, <1>5, <1>6, <1>7, <1>8, <1>9, <1>10, <1>11, <1>12, <1>13, <1>14,
     <1>15, <1>16, <1>17, <1>18, MovedCases

(* The counter of a whole record is the number of counts. *)
LEMMA WholeCounts ==
    ASSUME TypeOK, Index, Calls, Copies, NEW p \in Proc, Moved(p), ~overlap', ~clash'
    PROVE  \A i \in EnvId : rec'[i].whole => rec'[i].ntask = counted'[i]
<1>0. ~overlap /\ ~clash
  BY Remembered
<1>1. /\ CountsHeld(p) /\ me[p].id \in EnvId
      /\ \A i \in EnvId : rec[i].whole => rec[i].ntask = counted[i]
  BY <1>0, CallFacts DEF Copies
<1>2. CASE BeginsNew(p)
  BY <1>1, <1>2, BeginEffect DEF BeginsNew
<1>3. CASE BeginsCount(p)
  BY <1>1, <1>3, CountBeginEffect DEF BeginsCount
<1>4. CASE Crash(p)
  BY <1>1, <1>4, CrashEffect
<1>5. CASE Alloc(p)
  BY <1>1, <1>5, AllocEffect DEF Kept
<1>6. CASE CheckName(p)
  BY <1>1, <1>6, CheckNameEffect DEF Kept
<1>7. CASE AppendRow(p)
  BY <1>1, <1>7, AppendRowEffect
<1>8. CASE RecordTruncate(p)
  BY <1>1, <1>8, RecordTruncateEffect DEF OnlyRecord
<1>9. CASE RecordWrite(p)
  <2>1. counted[me[p].id] = 0
    BY <1>1, <1>9, RecordWriteEffect DEF CountsHeld, Fresh
  <2>2. QED
    BY <1>1, <1>9, <2>1, RecordWriteEffect DEF OnlyRecord
<1>10. CASE Configures(p)
  BY <1>1, <1>10, ConfigEffect DEF Configures
<1>11. CASE DeriveRead(p)
  BY <1>1, <1>11, DerivingCall, DeriveReadEffect
<1>12. CASE DeriveTruncate(p)
  BY <1>1, <1>12, DerivingCall, DeriveTruncateEffect DEF OnlyRecord
<1>13. CASE DeriveWrite(p)
  <2>1. me[p].old.ntask = counted[me[p].parent]
    BY <1>1, <1>13, DerivingCall, DeriveWriteEffect DEF CountsHeld, Rewrite
  <2>2. QED
    BY <1>1, <1>13, <2>1, DerivingCall, DeriveWriteEffect DEF OnlyRecord
<1>14. CASE DeriveRow(p)
  BY <1>1, <1>14, DerivingCall, DeriveRowEffect
<1>15. CASE DeriveRecord(p)
  BY <1>1, <1>15, DerivingCall, DeriveRecordEffect DEF OnlyRecord
<1>16. CASE CountLock(p)
  BY <1>1, <1>16, CountLockEffect
<1>17. CASE CountWrite(p)
  <2>1. /\ OnlyRecord(me[p].id) /\ rec'[me[p].id].whole = rec[me[p].id].whole
        /\ rec[me[p].id].whole => rec'[me[p].id].ntask = me[p].old.ntask + 1
        /\ counted' = [counted EXCEPT ![me[p].id] = @ + 1] /\ pc[p] = "count_write"
    BY <1>17, CountWriteEffect
  <2>2. me[p].old.ntask = counted[me[p].id]
    BY <1>1, <2>1 DEF CountsHeld
  <2>3. counted'[me[p].id] = counted[me[p].id] + 1
    BY <1>1, <2>1 DEF TypeOK
  <2>4. \A i \in EnvId : i # me[p].id => counted'[i] = counted[i]
    BY <1>1, <2>1 DEF TypeOK
  <2>5. QED
    BY <1>1, <2>1, <2>2, <2>3, <2>4 DEF OnlyRecord
<1>18. CASE CountRow(p)
  BY <1>1, <1>18, CountingCall, CountRowEffect
<1>19. QED
  BY <1>2, <1>3, <1>4, <1>5, <1>6, <1>7, <1>8, <1>9, <1>10, <1>11, <1>12, <1>13, <1>14,
     <1>15, <1>16, <1>17, <1>18, MovedCases

LEMMA CopiesStep ==
    ASSUME TypeOK, Index, Calls, Records, Sole, Copies, NEW p \in Proc, Moved(p)
    PROVE  Copies'
<1> SUFFICES ASSUME ~overlap', ~clash' PROVE Copies'
  BY DEF Copies
<1>1. \A i \in EnvId : rec'[i].whole => rec'[i].ntask = counted'[i]
  BY WholeCounts
<1>2. \A q \in Proc : CountsHeld(q)'
  BY OthersHold, MoverHolds
<1>3. \A i \in EnvId : ~rec'[i].live => Fresh(i)'
  <2> SUFFICES ASSUME NEW i \in EnvId, ~rec'[i].live PROVE Fresh(i)'
    OBVIOUS
  <2>1. ~rec[i].live
    BY GrowsStep DEF Grows
  <2>2. Fresh(i)
    BY <2>1, Remembered DEF Copies
  <2>3. RecordWrite(p) => me[p].id # i
    BY RecordWriteEffect
  <2>4. QED
    BY <2>2, <2>3, FreshStep
<1>4. QED
  BY <1>1, <1>2, <1>3 DEF Copies

(* With the counts, the invariant is inductive as well. *)
CountInv == IInv /\ Sole /\ RowCounts /\ Copies

LEMMA CountInit == Init => CountInv
<1> SUFFICES ASSUME Init PROVE CountInv
  OBVIOUS
<1>1. IInv
  BY InitInv
<1>2. RowIds = {} /\ \A i : ~Has(i)
  BY DEF Init, RowIds, Has
<1>3. Sole
  BY <1>2 DEF Init, Sole, Creating, Recording
<1>4. RowCounts
  <2>1. \A i \in EnvId : Due(i) = {}
    BY DEF Init, Due
  <2>2. \A i \in EnvId : IsFiniteSet(Due(i))
    BY <2>1, FS_EmptySet
  <2>3. QED
    BY <1>2, <2>2 DEF Init, RowCounts, RowCount
<1>5. Copies
  <2>1. \A i \in EnvId : Fresh(i) /\ ~rec[i].whole
    BY DEF Init, Fresh, Unread, NoRecord, Rewrite
  <2>2. \A p \in Proc : CountsHeld(p)
    BY DEF Init, CountsHeld, Rewrite
  <2>3. QED
    BY <2>1, <2>2 DEF Copies
<1>6. QED
  BY <1>1, <1>3, <1>4, <1>5 DEF CountInv

LEMMA CountStep == CountInv /\ [Next]_vars => CountInv'
<1> SUFFICES ASSUME CountInv, [Next]_vars PROVE CountInv'
  OBVIOUS
<1>1. IInv'
  BY InvStep DEF CountInv
<1>2. CASE Next
  <2>1. PICK p \in Proc : Moved(p)
    BY <1>2, NextMoves
  <2>2. QED
    BY <1>1, <2>1, SoleStep, RowCountsStep, CopiesStep DEF CountInv, IInv
<1>3. CASE UNCHANGED vars
  <2>1. Sole'
    BY <1>3 DEF CountInv, Sole, Has, RowIds, vars
  <2>2. \A i : Has(i)' = Has(i) /\ FirstRow(i)' = FirstRow(i) /\ Due(i)' = Due(i)
    BY <1>3 DEF Has, RowIds, FirstRow, Due, vars
  <2>3. RowCounts'
    BY <1>3, <2>2 DEF CountInv, RowCounts, RowCount, Alive, vars
  <2>4. Copies'
    BY <1>3 DEF CountInv, Copies, CountsHeld, Fresh, Unread, vars
  <2>5. QED
    BY <1>1, <2>1, <2>3, <2>4 DEF CountInv
<1>4. QED
  BY <1>2, <1>3

LEMMA CountedExactly == CountInv => CountsExact
<1> SUFFICES ASSUME CountInv, ~clash, ~overlap, NEW i \in EnvId
             PROVE  /\ rec[i].whole => rec[i].ntask = counted[i]
                    /\ Has(i) => rows[FirstRow(i)].ntask <= counted[i]
                    /\ Has(i) /\ Quiet => rows[FirstRow(i)].ntask = counted[i]
  BY DEF CountsExact
<1>1. rec[i].whole => rec[i].ntask = counted[i]
  BY DEF CountInv, Copies
<1>2. ASSUME Has(i)
      PROVE  /\ rows[FirstRow(i)].ntask <= counted[i]
             /\ Quiet => rows[FirstRow(i)].ntask = counted[i]
  <2>1. RowCount(i) /\ counted[i] \in Nat
    BY DEF CountInv, IInv, TypeOK, RowCounts
  <2>2. rows[FirstRow(i)].ntask \in Nat
    BY <1>2, FirstRowIs DEF CountInv, IInv, Index, RowsType, IsRow
  <2>3. Cardinality(Due(i)) \in Nat
    BY <2>1, FS_CardinalityType DEF RowCount
  <2>4. rows[FirstRow(i)].ntask <= counted[i]
    BY <1>2, <2>1, <2>2, <2>3 DEF RowCount
  <2>5. ASSUME Quiet PROVE rows[FirstRow(i)].ntask = counted[i]
    <3>1. Due(i) = {} /\ Alive
      BY <2>5 DEF Quiet, Due, Alive
    <3>2. Cardinality(Due(i)) = 0
      BY <3>1, FS_EmptySet
    <3>3. rows[FirstRow(i)].ntask + Cardinality(Due(i)) = counted[i]
      BY <1>2, <2>1, <3>1 DEF RowCount
    <3>4. QED
      BY <2>2, <3>2, <3>3
  <2>6. QED
    BY <2>4, <2>5
<1>3. QED
  BY <1>1, <1>2

(* However many processes count, tpb_raf_record_patch_rtenv_counters loses *)
(* no count, and the row follows the record, as long as no record is       *)
(* rewritten under a counter and no two creations overlap.                 *)
THEOREM CountsAreExact == Spec => []CountsExact
  BY CountInit, CountStep, CountedExactly, PTL DEF Spec

-----------------------------------------------------------------------------
(* Parents and children *)

LEMMA AppendChild ==
    ASSUME NEW r, NEW t, NEW e \in EnvId, r.links \in Seq(EnvId), t.links = Append(r.links, e)
    PROVE  /\ t.links \in Seq(EnvId) /\ t.links # <<>>
           /\ Children(r) \subseteq Children(t) /\ e \in Children(t)
<1>0. PICK s \in Seq(EnvId) : r.links = s /\ t.links = Append(s, e)
  OBVIOUS
<1>1. DOMAIN s = 1..Len(s) /\ Len(s) \in Nat
  OBVIOUS
<1>2. /\ Append(s, e) \in Seq(EnvId) /\ Len(Append(s, e)) = Len(s) + 1
      /\ Append(s, e)[Len(s) + 1] = e /\ \A k \in 1..Len(s) : Append(s, e)[k] = s[k]
  BY <1>1
<1>3. DOMAIN Append(s, e) = 1..Len(s) + 1
  BY <1>2
<1>4. Len(s) + 1 \in DOMAIN Append(s, e) /\ DOMAIN s \subseteq DOMAIN Append(s, e)
  BY <1>1, <1>3
<1>5. e \in Children(t) /\ Children(r) \subseteq Children(t)
  BY <1>0, <1>1, <1>2, <1>4 DEF Children
<1>6. Append(s, e) # <<>>
  BY <1>4
<1>7. QED
  BY <1>0, <1>2, <1>5, <1>6

LEMMA SameChildren ==
    ASSUME NEW r, NEW t, r.links = t.links
    PROVE  Children(r) = Children(t)
  BY DEF Children

(* No record loses a child, unless two processes rewrite it. *)
LEMMA ChildrenGrow ==
    ASSUME TypeOK, Index, Calls, Copies, NEW p \in Proc, Moved(p), ~overlap', ~clash', Links
    PROVE  Links' /\ \A i \in EnvId : Children(rec[i]) \subseteq Children(rec'[i])
<1>0. ~overlap /\ ~clash
  BY Remembered
<1>1. CountsHeld(p) /\ me[p].id \in EnvId
  BY <1>0, CallFacts DEF Copies
<1>2. CASE RecordWrite(p)
  <2> DEFINE i == me[p].id
  <2>1. pc[p] = "write" /\ OnlyRecord(i) /\ rec'[i].links = <<>>
    BY <1>2, RecordWriteEffect
  <2>2. rec[i].links = <<>>
    BY <1>1, <2>1 DEF CountsHeld, Fresh
  <2>3. \A j \in EnvId : rec'[j].links = rec[j].links
    BY <2>1, <2>2 DEF OnlyRecord
  <2>4. QED
    BY <2>3, SameChildren DEF Links
<1>3. CASE DeriveWrite(p)
  <2> DEFINE i == me[p].parent
  <2>1. i # Root /\ i \in EnvId
    BY <1>3, DerivingCall
  <2>2. pc[p] = "derive_write" /\ OnlyRecord(i) /\ rec'[i].links = Append(me[p].old.links, me[p].id)
    BY <1>3, <2>1, DeriveWriteEffect
  <2>3. me[p].old.links = rec[i].links
    BY <1>1, <2>2 DEF CountsHeld, Rewrite
  <2>4. rec[i].links \in Seq(EnvId)
    BY <2>1 DEF Links
  <2>5. rec'[i].links \in Seq(EnvId) /\ Children(rec[i]) \subseteq Children(rec'[i])
    <3>1. rec'[i].links = Append(rec[i].links, me[p].id)
      BY <2>2, <2>3
    <3>2. QED
      BY <1>1, <2>4, <3>1, AppendChild
  <2>6. \A j \in EnvId : j # i => rec'[j] = rec[j]
    BY <2>2 DEF OnlyRecord
  <2> HIDE DEF i
  <2>7. \A j \in EnvId : rec'[j].links \in Seq(EnvId)
    BY <2>5, <2>6 DEF Links
  <2>8. \A j \in EnvId : Children(rec[j]) \subseteq Children(rec'[j])
    BY <2>5, <2>6
  <2>9. QED
    BY <2>7, <2>8 DEF Links
<1>4. CASE ~RecordWrite(p) /\ ~DeriveWrite(p)
  <2>1. \A j \in EnvId : rec'[j].links = rec[j].links
    BY <1>4, UntouchedStep DEF Untouched
  <2>2. QED
    BY <2>1, SameChildren DEF Links
<1>5. QED
  BY <1>2, <1>3, <1>4

(* A step that changes neither the child a record names nor its children. *)
LEMMA HeadsKept ==
    ASSUME Heads, \A i \in EnvId : rec'[i].links = rec[i].links /\ rec'[i].derive = rec[i].derive
    PROVE  Heads'
  BY SameChildren DEF Heads

(* The child that a record names is one of its children. *)
LEMMA HeadsStep ==
    ASSUME TypeOK, Index, Calls, Copies, Links, Heads, NEW p \in Proc, Moved(p), Registered(p),
           ~overlap', ~clash'
    PROVE  Heads'
<1>0. ~overlap /\ ~clash /\ me[p].id \in EnvId
  BY Remembered, CallFacts
<1>1. CountsHeld(p)
  BY <1>0 DEF Copies
<1>2. CASE BeginsNew(p)
  BY <1>2, BeginEffect, HeadsKept DEF BeginsNew
<1>3. CASE BeginsCount(p)
  BY <1>3, CountBeginEffect, HeadsKept DEF BeginsCount
<1>4. CASE Crash(p)
  BY <1>4, CrashEffect, HeadsKept
<1>5. CASE Alloc(p)
  BY <1>5, AllocEffect, HeadsKept DEF Kept
<1>6. CASE CheckName(p)
  BY <1>6, CheckNameEffect, HeadsKept DEF Kept
<1>7. CASE AppendRow(p)
  BY <1>7, AppendRowEffect, HeadsKept
<1>8. CASE RecordTruncate(p)
  BY <1>8, RecordTruncateEffect, HeadsKept DEF OnlyRecord
<1>9. CASE RecordWrite(p)
  <2>1. OnlyRecord(me[p].id) /\ rec'[me[p].id].links = <<>>
    BY <1>9, RecordWriteEffect
  <2>2. QED
    BY <2>1 DEF Heads, OnlyRecord
<1>10. CASE Configures(p)
  BY <1>10, ConfigEffect, HeadsKept DEF Configures
<1>11. CASE DeriveRead(p)
  BY <1>11, DerivingCall, DeriveReadEffect, HeadsKept
<1>12. CASE DeriveTruncate(p)
  BY <1>12, DerivingCall, DeriveTruncateEffect, HeadsKept DEF OnlyRecord
<1>13. CASE DeriveWrite(p)
  <2> DEFINE i == me[p].parent
  <2>1. i # Root /\ i \in EnvId
    BY <1>13, DerivingCall
  <2>2. /\ pc[p] = "derive_write" /\ OnlyRecord(i) /\ rec'[i].derive = me[p].id
        /\ rec'[i].links = Append(me[p].old.links, me[p].id)
    BY <1>13, <2>1, DeriveWriteEffect
  <2>3. me[p].old.links = rec[i].links /\ rec[i].links \in Seq(EnvId)
    BY <1>1, <2>1, <2>2 DEF CountsHeld, Rewrite, Links
  <2>4. rec'[i].derive \in Children(rec'[i])
    <3>1. rec'[i].links = Append(rec[i].links, me[p].id)
      BY <2>2, <2>3
    <3>2. me[p].id \in Children(rec'[i])
      BY <1>0, <2>3, <3>1, AppendChild
    <3>3. QED
      BY <2>2, <3>2
  <2> HIDE DEF i
  <2>5. QED
    BY <2>2, <2>4 DEF Heads, OnlyRecord
<1>14. CASE DeriveRow(p)
  BY <1>14, DerivingCall, DeriveRowEffect, HeadsKept
<1>15. CASE DeriveRecord(p)
  <2> DEFINE i == me[p].parent
  <2>1. i # Root /\ i \in EnvId
    BY <1>15, DerivingCall
  <2>2. /\ pc[p] = "derive_record" /\ OnlyRecord(i)
        /\ rec'[i].derive \in {me[p].id, rec[i].derive} /\ rec'[i].links = rec[i].links
    BY <1>15, <2>1, DeriveRecordEffect
  <2>3. me[p].id \in Children(rec[i])
    BY <2>2 DEF Registered
  <2>4. Children(rec'[i]) = Children(rec[i])
    BY <2>2, SameChildren
  <2>5. rec'[i].links # <<>> => rec'[i].derive \in Children(rec'[i])
    BY <2>1, <2>2, <2>3, <2>4 DEF Heads
  <2> HIDE DEF i
  <2>6. QED
    BY <2>2, <2>5 DEF Heads, OnlyRecord
<1>16. CASE CountLock(p)
  BY <1>16, CountLockEffect, HeadsKept
<1>17. CASE CountWrite(p)
  BY <1>17, CountWriteEffect, HeadsKept DEF OnlyRecord
<1>18. CASE CountRow(p)
  BY <1>18, CountingCall, CountRowEffect, HeadsKept
<1>19. QED
  BY <1>2, <1>3, <1>4, <1>5, <1>6, <1>7, <1>8, <1>9, <1>10, <1>11, <1>12, <1>13, <1>14,
     <1>15, <1>16, <1>17, <1>18, MovedCases

(* A process has registered its environment from the time it wrote the     *)
(* record of the parent, or found it there.                                *)
LEMMA RegisteredStep ==
    ASSUME TypeOK, Index, Calls, Copies, Links, NEW p \in Proc, Moved(p), ~overlap', ~clash',
           \A q \in Proc : Registered(q)
    PROVE  \A q \in Proc : Registered(q)'
<1>1. \A i \in EnvId : Children(rec[i]) \subseteq Children(rec'[i])
  BY ChildrenGrow
<1>2. \A q \in Proc : pc[q] \in {"derive_row", "derive_record"} => me[q].parent \in EnvId
  BY CallFacts DEF Deriving
<1>3. Stay(p) /\ ~overlap /\ ~clash
  BY StayStep, Remembered
<1>4. ASSUME NEW q \in Proc, q # p PROVE Registered(q)'
  BY <1>1, <1>2, <1>3, <1>4 DEF Registered, Stay
<1>5. Registered(p)'
  <2>1. CASE DeriveRead(p)
    <3>1. me[p].parent # Root
      BY <2>1, DerivingCall
    <3>2. /\ rec' = rec
          /\ pc'[p] \in {"derive_row", "derive_record"} =>
                 /\ me[p].id \in Children(rec[me[p].parent])
                 /\ me'[p].id = me[p].id /\ me'[p].parent = me[p].parent
      BY <2>1, <3>1, DeriveReadEffect
    <3>3. QED
      BY <3>2 DEF Registered
  <2>2. CASE DeriveWrite(p)
    <3> DEFINE i == me[p].parent
    <3>1. i # Root /\ i \in EnvId /\ me[p].id \in EnvId
      BY <2>2, DerivingCall, CallFacts
    <3>2. /\ pc[p] = "derive_write" /\ pc'[p] = "derive_row" /\ me'[p] = me[p]
          /\ rec'[i].links = Append(me[p].old.links, me[p].id)
      BY <2>2, <3>1, DeriveWriteEffect DEF Goes
    <3>3. me[p].old.links = rec[i].links /\ rec[i].links \in Seq(EnvId)
      BY <1>3, <3>1, <3>2 DEF Copies, CountsHeld, Rewrite, Links
    <3>4. rec'[i].links = Append(rec[i].links, me[p].id)
      BY <3>2, <3>3
    <3>5. me[p].id \in Children(rec'[i])
      BY <3>1, <3>3, <3>4, AppendChild
    <3>6. QED
      BY <3>2, <3>5 DEF Registered
  <2>3. CASE DeriveRow(p)
    <3>1. me[p].parent # Root /\ Has(me[p].parent)
      BY <2>3, DerivingCall
    <3>2. pc[p] = "derive_row" /\ me'[p] = me[p] /\ rec' = rec
      BY <2>3, <3>1, DeriveRowEffect DEF Goes
    <3>3. QED
      BY <3>2 DEF Registered
  <2>4. CASE ~DeriveRead(p) /\ ~DeriveWrite(p) /\ ~DeriveRow(p)
    <3>1. pc'[p] \notin {"derive_row", "derive_record"}
      <4> USE DEF Goes
      <4>1. CASE BeginsNew(p)
        BY <4>1, BeginEffect DEF BeginsNew
      <4>2. CASE BeginsCount(p)
        BY <4>2, CountBeginEffect DEF BeginsCount
      <4>3. CASE Crash(p)
        BY <4>3, CrashEffect
      <4>4. CASE Alloc(p)
        BY <4>4, AllocEffect
      <4>5. CASE CheckName(p)
        BY <4>5, CheckNameEffect
      <4>6. CASE AppendRow(p)
        BY <4>6, AppendRowEffect
      <4>7. CASE RecordTruncate(p)
        BY <4>7, RecordTruncateEffect
      <4>8. CASE RecordWrite(p)
        BY <4>8, RecordWriteEffect DEF AfterWrite
      <4>9. CASE Configures(p)
        BY <4>9, ConfigEffect DEF Configures
      <4>10. CASE DeriveTruncate(p)
        BY <4>10, DerivingCall, DeriveTruncateEffect
      <4>11. CASE DeriveRecord(p)
        BY <4>11, DerivingCall, DeriveRecordEffect
      <4>12. CASE CountLock(p)
        BY <4>12, CountLockEffect
      <4>13. CASE CountWrite(p)
        BY <4>13, CountWriteEffect
      <4>14. CASE CountRow(p)
        BY <4>14, CountingCall, CountRowEffect
      <4>15. QED
        BY <2>4, <4>1, <4>2, <4>3, <4>4, <4>5, <4>6, <4>7, <4>8, <4>9, <4>10, <4>11, <4>12,
           <4>13, <4>14, MovedCases
    <3>2. QED
      BY <3>1 DEF Registered
  <2>5. QED
    BY <2>1, <2>2, <2>3, <2>4
<1>6. QED
  BY <1>4, <1>5

(* The creator of an environment keeps on linking it until it is listed by *)
(* the record of the parent.                                               *)
LEMMA KeepsLinking ==
    ASSUME TypeOK, Index, Calls, NEW p \in Proc, Moved(p), ~clash', Alive', pc[p] \in ToLink,
           me[p].parent # Root
    PROVE  /\ me'[p].id = me[p].id /\ me'[p].parent = me[p].parent
           /\ pc'[p] \in ToLink \cup {"derive_row"}
<1> USE DEF ToLink, Rewrite
<1>1. CASE RecordTruncate(p)
  BY <1>1, RecordTruncateEffect DEF Goes
<1>2. CASE RecordWrite(p)
  <2>1. ~me[p].setbase
    BY DEF Calls, CallOK
  <2>2. QED
    BY <1>2, <2>1, RecordWriteEffect DEF Goes, AfterWrite
<1>3. CASE DeriveRead(p)
  BY <1>3, DeriveReadEffect
<1>4. CASE DeriveTruncate(p)
  BY <1>4, DeriveTruncateEffect DEF Goes
<1>5. CASE DeriveWrite(p)
  BY <1>5, DeriveWriteEffect DEF Goes
<1>6. CASE Crash(p)
  BY <1>6, CrashEffect DEF Goes, Alive
<1>7. CASE \/ BeginsNew(p) \/ BeginsCount(p) \/ Alloc(p) \/ CheckName(p) \/ AppendRow(p)
           \/ Configures(p) \/ DeriveRow(p) \/ DeriveRecord(p) \/ CountLock(p)
           \/ CountWrite(p) \/ CountRow(p)
  BY <1>7 DEF BeginsNew, NewBegin, SnapshotBegin, Begin, BeginsCount, CountBegin, Alloc,
     CheckName, AppendRow, Configures, ConfigTruncate, ConfigWrite, DeriveRow, DeriveRecord,
     CountLock, CountWrite, CountRow, At
<1>8. QED
  BY <1>1, <1>2, <1>3, <1>4, <1>5, <1>6, <1>7, MovedCases

(* Rows keep their identifier, their parent and their place, and only      *)
(* DeriveRow changes the child that one names.                             *)
RowsLast(p) ==
    /\ \A k \in DOMAIN rows : /\ k \in DOMAIN rows' /\ rows'[k].id = rows[k].id
                              /\ rows'[k].inherit = rows[k].inherit
    /\ \A i : Has(i) => FirstRow(i)' = FirstRow(i)
    /\ ~AppendRow(p) => DOMAIN rows' = DOMAIN rows
    /\ ~DeriveRow(p) => \A k \in DOMAIN rows : rows'[k].derive = rows[k].derive

LEMMA RowsLastKept ==
    ASSUME Index, NEW p \in Proc, rows' = rows
    PROVE  RowsLast(p)
  BY RowsKept DEF RowsLast

LEMMA RowsLastStep ==
    ASSUME TypeOK, Index, Calls, NEW p \in Proc, Moved(p)
    PROVE  RowsLast(p)
<1>1. CASE BeginsNew(p)
  BY <1>1, BeginEffect, RowsLastKept DEF BeginsNew
<1>2. CASE BeginsCount(p)
  BY <1>2, CountBeginEffect, RowsLastKept DEF BeginsCount
<1>3. CASE Crash(p)
  BY <1>3, CrashEffect, RowsLastKept
<1>4. CASE Alloc(p)
  BY <1>4, AllocEffect, RowsLastKept DEF Kept
<1>5. CASE CheckName(p)
  BY <1>5, CheckNameEffect, RowsLastKept DEF Kept
<1>6. CASE AppendRow(p)
  <2>1. PICK x : rows' = Append(rows, x) /\ IsRow(x)
    BY <1>6, AppendRowEffect
  <2>2. /\ DOMAIN rows = 1..Len(rows) /\ Len(rows) \in Nat /\ DOMAIN rows' = 1..Len(rows) + 1
        /\ \A k \in DOMAIN rows : rows'[k] = rows[k]
    BY <2>1, Appended DEF Index
  <2>3. DOMAIN rows \subseteq DOMAIN rows'
    BY <2>2
  <2>4. \A i : Has(i) => FirstRow(i)' = FirstRow(i)
    BY <2>1, AppendedIds DEF Index
  <2>5. QED
    BY <1>6, <2>2, <2>3, <2>4 DEF RowsLast
<1>7. CASE RecordTruncate(p)
  BY <1>7, RecordTruncateEffect, RowsLastKept
<1>8. CASE RecordWrite(p)
  BY <1>8, RecordWriteEffect, RowsLastKept
<1>9. CASE Configures(p)
  BY <1>9, ConfigEffect, RowsLastKept DEF Configures
<1>10. CASE DeriveRead(p)
  BY <1>10, DerivingCall, DeriveReadEffect, RowsLastKept
<1>11. CASE DeriveTruncate(p)
  BY <1>11, DerivingCall, DeriveTruncateEffect, RowsLastKept
<1>12. CASE DeriveWrite(p)
  BY <1>12, DerivingCall, DeriveWriteEffect, RowsLastKept
<1>13. CASE DeriveRow(p)
  <2>1. RowPatched(me[p].parent)
    BY <1>13, DerivingCall, DeriveRowEffect
  <2>2. QED
    BY <1>13, <2>1, RowsPatched DEF RowsLast, RowPatched
<1>14. CASE DeriveRecord(p)
  BY <1>14, DerivingCall, DeriveRecordEffect, RowsLastKept
<1>15. CASE CountLock(p)
  BY <1>15, CountLockEffect, RowsLastKept
<1>16. CASE CountWrite(p)
  BY <1>16, CountWriteEffect, RowsLastKept
<1>17. CASE CountRow(p)
  <2>1. /\ RowPatched(me[p].id)
        /\ rows'[FirstRow(me[p].id)].derive = rows[FirstRow(me[p].id)].derive
    BY <1>17, CountingCall, CountRowEffect
  <2>2. \A k \in DOMAIN rows : rows'[k].derive = rows[k].derive
    BY <2>1 DEF RowPatched
  <2>3. QED
    BY <2>1, <2>2, RowsPatched DEF RowsLast, RowPatched
<1>18. QED
  BY <1>1, <1>2, <1>3, <1>4, <1>5, <1>6, <1>7, <1>8, <1>9, <1>10, <1>11, <1>12, <1>13, <1>14,
     <1>15, <1>16, <1>17, MovedCases

LEMMA MoverAlive ==
    ASSUME NEW p \in Proc, Moved(p)
    PROVE  pc[p] # "dead" /\ (pc[p] = "derive_row" => DeriveRow(p) \/ Crash(p))
<1>1. CASE \/ BeginsNew(p) \/ BeginsCount(p) \/ Alloc(p) \/ CheckName(p) \/ AppendRow(p)
           \/ Configures(p) \/ RecordTruncate(p) \/ RecordWrite(p)
  BY <1>1 DEF BeginsNew, NewBegin, SnapshotBegin, Begin, BeginsCount, CountBegin, Alloc,
     CheckName, AppendRow, Configures, ConfigTruncate, ConfigWrite, RecordTruncate,
     RecordWrite, At
<1>2. CASE \/ DeriveRead(p) \/ DeriveTruncate(p) \/ DeriveWrite(p) \/ DeriveRecord(p)
           \/ CountLock(p) \/ CountWrite(p) \/ CountRow(p) \/ DeriveRow(p)
  BY <1>2 DEF DeriveRead, DeriveTruncate, DeriveWrite, DeriveRecord, DeriveRow, CountLock,
     CountWrite, CountRow, At
<1>3. CASE Crash(p)
  BY <1>3 DEF Crash
<1>4. QED
  BY <1>1, <1>2, <1>3, MovedCases

LEMMA FamilyStep ==
    ASSUME TypeOK, Index, Calls, Records, Copies, Family, NEW p \in Proc, Moved(p)
    PROVE  Family'
<1> SUFFICES ASSUME ~overlap', ~clash', Alive' PROVE Family'
  BY DEF Family
<1>1. ~overlap /\ ~clash /\ Stay(p) /\ RowsLast(p)
  BY Remembered, StayStep, RowsLastStep
<1>2. Alive /\ ~Crash(p)
  <2>1. ~Crash(p)
    BY CrashEffect DEF Goes, Alive
  <2>2. QED
    BY <1>1, <2>1, MoverAlive DEF Alive, Stay
<1>3. /\ Links /\ Heads /\ \A q \in Proc : Registered(q)
      /\ \A k \in DOMAIN rows : rows[k].inherit # Root => Listed(k) /\ ParentNames(k)
  BY <1>1, <1>2 DEF Family
<1>4. Links' /\ \A i \in EnvId : Children(rec[i]) \subseteq Children(rec'[i])
  BY <1>3, ChildrenGrow
<1>5. Heads'
  BY <1>3, HeadsStep
<1>6. \A q \in Proc : Registered(q)'
  BY <1>3, RegisteredStep
<1>7. ASSUME NEW k \in DOMAIN rows, rows[k].inherit # Root
      PROVE  Listed(k)' /\ ParentNames(k)'
  <2> DEFINE i == rows[k].inherit
  <2>0. /\ i \in EnvId /\ Has(i) /\ k \in DOMAIN rows' /\ rows'[k].id = rows[k].id
        /\ rows'[k].inherit = i /\ FirstRow(i)' = FirstRow(i)
    BY <1>1, <1>7, IdFacts DEF Index, RowsType, IsRow, Records, RowFirst, RowsLast
  <2>1. FirstRow(i) \in DOMAIN rows /\ rows[FirstRow(i)].id = i
    BY <2>0, FirstRowIs DEF Index
  <2>2. PICK j \in EnvId : j = i
    BY <2>0
  <2>3. /\ Has(j) /\ rows'[k].inherit = j /\ FirstRow(j)' = FirstRow(j)
        /\ FirstRow(j) \in DOMAIN rows /\ rows[FirstRow(j)].id = j /\ rows[k].inherit = j
    BY <2>0, <2>1, <2>2
  <2>4. ASSUME NEW q \in Proc, pc[q] \in ToLink, me[q].id = rows[k].id, me[q].parent = j
        PROVE  Listed(k)' /\ ParentNames(k)'
    <3>1. /\ pc'[q] \in ToLink \cup {"derive_row"} /\ me'[q].id = rows[k].id /\ me'[q].parent = j
      BY <1>1, <1>7, <2>2, <2>4, KeepsLinking DEF Stay
    <3>2. Unlinked(k, ToLink \cup {"derive_row"})'
      BY <2>0, <2>3, <3>1 DEF Unlinked
    <3>3. CASE pc'[q] \in ToLink
      BY <2>0, <2>3, <3>1, <3>2, <3>3 DEF Unlinked, Listed, ParentNames
    <3>4. CASE pc'[q] = "derive_row"
      <4>1. rows'[k].id \in Children(rec'[rows'[k].inherit])
        BY <1>6, <2>0, <2>3, <3>1, <3>4 DEF Registered
      <4>2. QED
        BY <3>2, <4>1 DEF Listed, ParentNames
    <3>5. QED
      BY <3>1, <3>3, <3>4
  <2>5. ASSUME rows[k].id \in Children(rec[j])
        PROVE  Listed(k)'
    <3>1. rows'[k].id \in Children(rec'[j])
      BY <1>4, <2>0, <2>5
    <3>2. QED
      BY <2>3, <3>1 DEF Listed
  <2>6. ASSUME DeriveRow(p), me[p].parent = j
        PROVE  ParentNames(k)'
    <3>1. j # Root /\ pc[p] = "derive_row"
      BY <2>6, DerivingCall DEF DeriveRow, At
    <3>2. rows'[FirstRow(j)].derive = me[p].id /\ rec' = rec
      BY <2>3, <2>6, <3>1, DeriveRowEffect
    <3>3. me[p].id \in Children(rec[j])
      BY <1>3, <2>6, <3>1 DEF Registered
    <3>4. rows'[FirstRow(j)'].derive \in Children(rec'[j])
      BY <2>3, <3>2, <3>3
    <3>5. QED
      BY <2>3, <3>4 DEF ParentNames
  <2>7. ASSUME rows[FirstRow(j)].derive \in Children(rec[j])
        PROVE  ParentNames(k)'
    <3>1. CASE DeriveRow(p) /\ me[p].parent = j
      BY <2>6, <3>1
    <3>2. CASE ~(DeriveRow(p) /\ me[p].parent = j)
      <4>1. rows'[FirstRow(j)].derive = rows[FirstRow(j)].derive
        <5>1. CASE ~DeriveRow(p)
          BY <1>1, <2>3, <5>1 DEF RowsLast
        <5>2. CASE DeriveRow(p) /\ me[p].parent # j
          <6>1. me[p].parent # Root /\ Has(me[p].parent)
            BY <5>2, DerivingCall
          <6>2. RowPatched(me[p].parent)
            BY <5>2, <6>1, DeriveRowEffect
          <6>3. rows[FirstRow(me[p].parent)].id = me[p].parent
            BY <6>1, FirstRowIs DEF Index
          <6>4. QED
            BY <2>3, <5>2, <6>2, <6>3 DEF RowPatched
        <5>3. QED
          BY <3>2, <5>1, <5>2
      <4>2. rows'[FirstRow(j)'].derive \in Children(rec'[j])
        BY <1>4, <2>3, <2>7, <4>1
      <4>3. QED
        BY <2>3, <4>2 DEF ParentNames
    <3>3. QED
      BY <3>1, <3>2
  <2>8. ASSUME NEW q \in Proc, pc[q] = "derive_row", me[q].id = rows[k].id, me[q].parent = j
        PROVE  ParentNames(k)'
    <3>1. CASE q = p
      BY <1>2, <2>6, <2>8, <3>1, MoverAlive
    <3>2. CASE q # p
      <4>1. pc'[q] = "derive_row" /\ me'[q].id = rows'[k].id /\ me'[q].parent = rows'[k].inherit
        BY <1>1, <2>0, <2>3, <2>8, <3>2 DEF Stay
      <4>2. QED
        BY <4>1 DEF ParentNames, Unlinked
    <3>3. QED
      BY <3>1, <3>2
  <2>9. Listed(k)'
    <3>1. Listed(k)
      BY <1>3, <1>7
    <3>2. CASE rows[k].id \in Children(rec[j])
      BY <2>5, <3>2
    <3>3. CASE Unlinked(k, ToLink)
      BY <2>3, <2>4, <3>3 DEF Unlinked
    <3>4. QED
      BY <2>3, <3>1, <3>2, <3>3 DEF Listed
  <2>10. ParentNames(k)'
    <3>1. ParentNames(k)
      BY <1>3, <1>7
    <3>2. CASE rows[FirstRow(j)].derive \in Children(rec[j])
      BY <2>7, <3>2
    <3>3. CASE Unlinked(k, ToLink \cup {"derive_row"})
      <4>1. PICK q \in Proc : /\ pc[q] \in ToLink \cup {"derive_row"}
                              /\ me[q].id = rows[k].id /\ me[q].parent = rows[k].inherit
        BY <3>3 DEF Unlinked
      <4>2. QED
        BY <2>3, <2>4, <2>8, <4>1
    <3>4. QED
      BY <2>3, <3>1, <3>2, <3>3 DEF ParentNames
  <2>11. QED
    BY <2>9, <2>10
<1>8. ASSUME NEW k \in DOMAIN rows', rows'[k].inherit # Root
      PROVE  Listed(k)' /\ ParentNames(k)'
  <2>1. CASE k \in DOMAIN rows
    BY <1>1, <1>7, <1>8, <2>1 DEF RowsLast
  <2>2. CASE k \notin DOMAIN rows
    <3>1. AppendRow(p)
      BY <1>1, <1>8, <2>2 DEF RowsLast
    <3>2. PICK x : /\ rows' = Append(rows, x) /\ IsRow(x) /\ x.id = me[p].id
                   /\ x.inherit = me[p].parent
      BY <3>1, AppendRowEffect
    <3>3. pc'[p] = "truncate" /\ me'[p] = me[p]
      BY <3>1, AppendRowEffect DEF Goes
    <3>4. /\ Len(rows) \in Nat /\ DOMAIN rows = 1..Len(rows)
          /\ DOMAIN rows' = 1..Len(rows) + 1 /\ rows'[Len(rows) + 1] = x
      BY <3>2, Appended DEF Index
    <3>5. k = Len(rows) + 1
      BY <1>8, <2>2, <3>4
    <3>6. rows'[k].id = me'[p].id /\ rows'[k].inherit = me'[p].parent
      BY <3>2, <3>3, <3>4, <3>5
    <3>7. QED
      BY <3>3, <3>6 DEF Listed, ParentNames, Unlinked, ToLink
  <2>3. QED
    BY <2>1, <2>2
<1>9. QED
  BY <1>4, <1>5, <1>6, <1>8 DEF Family

(* With the families, the invariant is inductive as well. *)
FamilyInv == CountInv /\ Family

LEMMA FamilyInit == Init => FamilyInv
<1> SUFFICES ASSUME Init PROVE FamilyInv
  OBVIOUS
<1>1. CountInv
  BY CountInit
<1>2. \A i \in EnvId : rec[i].links = <<>>
  BY DEF Init, NoRecord
<1>3. Links /\ Heads
  <2>1. << >> \in Seq(EnvId)
    OBVIOUS
  <2>2. QED
    BY <1>2, <2>1 DEF Links, Heads
<1>4. \A p \in Proc : Registered(p)
  BY DEF Init, Registered
<1>5. DOMAIN rows = {}
  BY DEF Init
<1>6. QED
  BY <1>1, <1>3, <1>4, <1>5 DEF FamilyInv, Family

LEMMA FamilyInvStep == FamilyInv /\ [Next]_vars => FamilyInv'
<1> SUFFICES ASSUME FamilyInv, [Next]_vars PROVE FamilyInv'
  OBVIOUS
<1>1. CountInv'
  BY CountStep DEF FamilyInv
<1>2. CASE Next
  <2>1. PICK p \in Proc : Moved(p)
    BY <1>2, NextMoves
  <2>2. Family'
    BY <2>1, FamilyStep DEF FamilyInv, CountInv, IInv
  <2>3. QED
    BY <1>1, <2>2 DEF FamilyInv
<1>3. CASE UNCHANGED vars
  <2>1. rows' = rows /\ rec' = rec /\ pc' = pc /\ me' = me /\ overlap' = overlap /\ clash' = clash
    BY <1>3 DEF vars
  <2>2. (Links => Links') /\ (Heads => Heads') /\ (Alive' => Alive)
    BY <2>1 DEF Links, Heads, Alive
  <2>3. \A p \in Proc : Registered(p) => Registered(p)'
    BY <2>1 DEF Registered
  <2>4. \A i : FirstRow(i)' = FirstRow(i)
    BY <2>1 DEF FirstRow
  <2>5. \A k \in DOMAIN rows : Listed(k) /\ ParentNames(k) => Listed(k)' /\ ParentNames(k)'
    BY <2>1, <2>4 DEF Listed, ParentNames, Unlinked
  <2>6. Family'
    BY <2>1, <2>2, <2>3, <2>5 DEF FamilyInv, Family
  <2>7. QED
    BY <1>1, <2>6 DEF FamilyInv
<1>4. QED
  BY <1>2, <1>3

LEMMA FamiliesLinked == FamilyInv => FamilyLinked
<1> SUFFICES ASSUME FamilyInv, Quiet, ~overlap, ~clash, NEW k \in DOMAIN rows,
                    rows[k].inherit # Root
             PROVE  /\ rows[k].id \in Children(rec[rows[k].inherit])
                    /\ rec[rows[k].inherit].derive \in Children(rec[rows[k].inherit])
                    /\ rows[FirstRow(rows[k].inherit)].derive \in Children(rec[rows[k].inherit])
  BY DEF FamilyLinked
<1>1. Alive
  BY DEF Quiet, Alive
<1>2. Heads /\ Listed(k) /\ ParentNames(k)
  BY <1>1 DEF FamilyInv, Family
<1>3. ~Unlinked(k, ToLink) /\ ~Unlinked(k, ToLink \cup {"derive_row"})
  BY DEF Unlinked, ToLink, Rewrite, Quiet
<1>4. /\ rows[k].id \in Children(rec[rows[k].inherit])
      /\ rows[FirstRow(rows[k].inherit)].derive \in Children(rec[rows[k].inherit])
  BY <1>2, <1>3 DEF Listed, ParentNames
<1>5. rows[k].inherit \in EnvId
  BY IdFacts DEF FamilyInv, CountInv, IInv, Index, RowsType, IsRow
<1>6. rec[rows[k].inherit].links # <<>>
  BY <1>4 DEF Children
<1>7. QED
  BY <1>2, <1>4, <1>5, <1>6 DEF Heads

(* Once all are back and none met another at a record, every environment   *)
(* is listed by its parent's record, and the parent's row and record name  *)
(* one of its children, for any number of environments and processes.      *)
THEOREM FamiliesAreLinked == Spec => []FamilyLinked
  BY FamilyInit, FamilyInvStep, FamiliesLinked, PTL DEF Spec
=============================================================================
