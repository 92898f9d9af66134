------------------------- MODULE KernelRecordProofs -------------------------
(***************************************************************************)
(* Proofs about KernelRecord: as long as commands on a name do not overlap *)
(* the installed kernel of the name is the active one once they are done   *)
(* (InstalledIsActive), and scans never leave a name without an active     *)
(* kernel (KeepsActive).                                                   *)
(***************************************************************************)
EXTENDS KernelRecord, WellFoundedInduction, TLAPS

-----------------------------------------------------------------------------
(* Types *)

IsSeq(s) == s \in Seq(Range(s))

IsRec(r) == r \in [live : BOOLEAN, whole : BOOLEAN, active : {0, 1}, meta : {r.meta},
                   told : BOOLEAN]

IsRow(r) == r \in [id : Id, name : {NameOf[r.id]}, active : {0, 1}, utc : {r.utc}]

(* Operations that only make sense of an object that could be hashed. *)
OfObject == {"copy_open", "copy", "resolve", "write_open", "write", "append",
             "append_end", "set_keys", "set_key"}

(* An operation of a command on the name n, where the index has len rows. *)
IsOp(o, n, len) ==
    /\ o \in [op : {o.op}, id : {o.id}, arg : {o.arg}]
    /\ o.id \in Id => NameOf[o.id] = n
    /\ o.op \in OfObject => o.id \in Id
    /\ o.op \in {"write_open", "write"} => IsRec(o.arg)
    /\ o.op \in {"row", "record"} => o.arg \in {0, 1}
    /\ o.op = "off" => o.arg \in [from : Nat \ {0}, to : 0..len]

(* Which operations stand where in what a process still has to do. *)
AtFirst == {"backup", "copy", "resolve", "write_open", "write", "append_end"}
AtLast == {"set", "set_keys"}
Moving == {"backup", "copy_open", "copy"}
Early == Moving \cup {"row", "record", "activate", "set"}

ShapeAt(s, j) ==
    /\ s[j].op \in AtFirst => j = 1
    /\ s[j].op \in AtLast => j = Len(s)
    /\ s[j].op = "set_key" => \A m \in DOMAIN s : m > j => s[m].op = "set_key"
    /\ s[j].op = "activate" => \A m \in DOMAIN s : m > j => s[m].op = "set"
    /\ s[j].op = "append" => \A m \in DOMAIN s : m < j => s[m].op \in {"write_open", "write"}
    /\ s[j].op = "off" => \A m \in DOMAIN s : m < j => s[m].op \in {"row", "record"}
    /\ s[j].op = "row" => /\ j < Len(s) /\ s[j + 1].op = "record"
                          /\ s[j + 1].id = s[j].id /\ s[j + 1].arg = s[j].arg
    /\ s[j].op \in {"copy_open", "copy"} => j < Len(s) /\ s[j + 1].op = "activate"
    /\ s[j].op = "activate" => j = 1 \/ s[j - 1].op \in {"copy_open", "copy"}
    /\ s[j].op = "backup" => Len(s) = 1 \/ \E m \in DOMAIN s : s[m].op = "activate"
    /\ s[j].op \in Moving => \A m \in DOMAIN s : s[m].op \in Early
    /\ s[j].op = "set" => \A m \in DOMAIN s : s[m].op \in Early \cup {"deactivate", "off"}

Shape(s) == \A j \in DOMAIN s : ShapeAt(s, j)

IsRun(r, len) ==
    /\ r \in [cmd : {r.cmd}, name : {r.name}, override : BOOLEAN, todo : {r.todo}]
    /\ IsSeq(r.todo) /\ (r.todo # <<>> => r.name \in Name)
    /\ \A o \in Range(r.todo) : IsOp(o, r.name, len)
    /\ Shape(r.todo)

Objects == so = [n \in Name |-> so[n]] /\ \A n \in Name : so[n] \in Id => NameOf[so[n]] = n
Rows == IsSeq(rows) /\ \A k \in DOMAIN rows : IsRow(rows[k])
Records == rec = [i \in Id |-> rec[i]] /\ \A i \in Id : IsRec(rec[i])
Runs == run = [p \in Proc |-> run[p]] /\ \A p \in Proc : IsRun(run[p], Len(rows))
Faults == fault = [n \in Name |-> fault[n]] /\ broken \in BOOLEAN

Types == Objects /\ Rows /\ Records /\ Runs /\ Faults

-----------------------------------------------------------------------------
(* Commands on a name that did not overlap *)

Calm(n) == fault[n] # "overlap" /\ ~broken
Owns(p, n) == Busy(p) /\ TheName(p) = n
Items(p) == Range(run[p].todo)

Single(n) == \A p, q \in Proc : Owns(p, n) /\ Owns(q, n) => p = q
Unique(n) == \A k, l \in RowsOf(n) : rows[k].id = rows[l].id => k = l

(* What is registered, activated and set is what is installed. *)
OfInstalled == {"resolve", "write_open", "write", "append", "append_end",
                "deactivate", "off", "set_keys", "set_key"}
Aimed(p, n) == \A o \in Items(p) : o.op \in OfInstalled => o.id = so[n]

(* What is to be appended is not listed yet. *)
Appends == {"append", "append_end"}
NotListed(p) == \A o \in Items(p) : o.op \in Appends => ~HasRow(o.id)

(* A list that is gone through has all rows of the name. *)
Covers(p, n) ==
    \A o \in Items(p) : o.op = "off" => \A k \in RowsOf(n) : k <= o.arg.to

(* A scan switches off others only when the installed kernel is listed as  *)
(* active, or is to be first.                                              *)
Switching == {"deactivate", "off", "row"}
Gentle(p, n) ==
    run[p].cmd \in {"scan", "set"} /\ ~run[p].override =>
        /\ \A o \in Items(p) : /\ o.op \notin Moving \cup {"activate"}
                               /\ o.op = "row" => o.id # so[n]
        /\ \/ \A o \in Items(p) : o.op \notin Switching
           \/ \E o \in Items(p) : o.op \in Appends
           \/ \E k \in ActiveRows(n) : rows[k].id = so[n]

Ordered(n) ==
    Calm(n) => /\ Single(n) /\ Unique(n)
               /\ \A p \in Proc : Owns(p, n) =>
                    Aimed(p, n) /\ NotListed(p) /\ Covers(p, n) /\ Gentle(p, n)

-----------------------------------------------------------------------------
(* Commands on a name that were not disturbed *)

Quiet(n) == fault[n] = "none" /\ ~broken

Want(n, x) == IF x = so[n] THEN 1 ELSE 0

(* Row k and its record are as they should be. *)
Done(n, k) ==
    LET x == rows[k].id IN
    rows[k].active = Want(n, x) /\ (rec[x].whole => rec[x].active = Want(n, x))

(* What p has still to do puts row k and its record right. *)
WillDo(p, n, k) ==
    LET x == rows[k].id IN
    \/ \E o \in Items(p) : o.op = "activate"
    \/ x # so[n] /\ \E o \in Items(p) : \/ o.op = "deactivate"
                                        \/ o.op = "off" /\ o.arg.from <= k
    \/ \E o \in Items(p) : o.op = "row" /\ o.id = x /\ o.arg = Want(n, x)
    \/ /\ rows[k].active = Want(n, x)
       /\ \E o \in Items(p) : o.op = "record" /\ o.id = x /\ o.arg = Want(n, x)
    \/ /\ so[n] \in Id /\ (run[p].override \/ ~HasRow(so[n]))
       /\ \E o \in Items(p) : o.op \in {"resolve", "set"}

Right(n, k) == Done(n, k) \/ \E p \in Proc : Owns(p, n) /\ WillDo(p, n, k)

(* No flag is set to what it should not be, unless all are set once more. *)
Meant(p, n) ==
    \/ \E o \in Items(p) : o.op = "activate"
    \/ \A o \in Items(p) : o.op \in {"row", "record"} => o.arg = Want(n, o.id)

(* What is written to the record of a kernel is active if the kernel is or *)
(* will be listed, and so is the record when its row is appended.          *)
Writing == {"write_open", "write"}
Writes(p) ==
    \A o \in Items(p) :
        o.op \in Writing /\ (HasRow(o.id) \/ \E w \in Items(p) : w.op \in Appends)
        => o.arg.active = 1
Written(p) ==
    \A o \in Items(p) : o.op \in Appends =>
        rec[o.id].active = 1 \/ \E w \in Items(p) : w.op \in Writing

(* There is, or will be, something to activate. *)
Installed(p, n) ==
    (\E o \in Items(p) : o.op = "activate") =>
        so[n] # NoSo \/ \E o \in Items(p) : o.op \in {"copy_open", "copy"}

Orderly(n) ==
    Quiet(n) => /\ \A k \in RowsOf(n) : Right(n, k)
                /\ \A p \in Proc : Owns(p, n) =>
                     Meant(p, n) /\ Writes(p) /\ Written(p) /\ Installed(p, n)

IInv == Types /\ \A n \in Name : Ordered(n) /\ Orderly(n)

-----------------------------------------------------------------------------
(* Sequences *)

LEMMA SeqFacts ==
    ASSUME NEW s, IsSeq(s)
    PROVE  /\ Len(s) \in Nat /\ DOMAIN s = 1..Len(s)
           /\ \A j \in DOMAIN s : s[j] \in Range(s)
           /\ \A x \in Range(s) : \E j \in DOMAIN s : s[j] = x
           /\ s = <<>> <=> Len(s) = 0
  BY DEF IsSeq, Range

LEMMA SeqOver ==
    ASSUME NEW S, NEW s \in Seq(S)
    PROVE  IsSeq(s)
<1>1. Len(s) \in Nat /\ DOMAIN s = 1..Len(s)
  OBVIOUS
<1>2. s \in [1..Len(s) -> Range(s)]
  BY <1>1 DEF Range
<1>3. QED
  BY <1>1, <1>2 DEF IsSeq

LEMMA TailFacts ==
    ASSUME NEW s, IsSeq(s), s # <<>>
    PROVE  /\ IsSeq(Tail(s)) /\ Len(Tail(s)) = Len(s) - 1 /\ Len(s) \in Nat \ {0}
           /\ 1 \in DOMAIN s /\ Head(s) = s[1]
           /\ \A j \in DOMAIN Tail(s) : j + 1 \in DOMAIN s /\ Tail(s)[j] = s[j + 1]
           /\ Range(s) = {Head(s)} \cup Range(Tail(s))
<1>1. /\ Len(s) \in Nat \ {0} /\ DOMAIN s = 1..Len(s) /\ Head(s) = s[1]
      /\ Tail(s) \in Seq(Range(s)) /\ Len(Tail(s)) = Len(s) - 1
      /\ \A j \in 1..Len(s) - 1 : Tail(s)[j] = s[j + 1]
  BY DEF IsSeq
<1>2. IsSeq(Tail(s)) /\ DOMAIN Tail(s) = 1..Len(s) - 1
  <2>1. IsSeq(Tail(s))
    BY <1>1, SeqOver
  <2>2. DOMAIN Tail(s) = 1..Len(Tail(s))
    BY <2>1, SeqFacts
  <2>3. QED
    BY <1>1, <2>1, <2>2
<1>3. ASSUME NEW j \in DOMAIN s
      PROVE  s[j] \in {Head(s)} \cup Range(Tail(s))
  <2>1. CASE j = 1
    BY <1>1, <2>1
  <2>2. CASE j # 1
    <3>1. j - 1 \in DOMAIN Tail(s) /\ Tail(s)[j - 1] = s[j]
      BY <1>1, <1>2, <2>2
    <3>2. QED
      BY <3>1 DEF Range
  <2>3. QED
    BY <2>1, <2>2
<1>4. Range(Tail(s)) \subseteq Range(s) /\ Head(s) \in Range(s)
  BY <1>1, <1>2 DEF Range
<1>5. Range(s) = {Head(s)} \cup Range(Tail(s))
  BY <1>3, <1>4 DEF Range
<1>6. QED
  BY <1>1, <1>2, <1>5

LEMMA ConcatFacts ==
    ASSUME NEW s, NEW t, IsSeq(s), IsSeq(t)
    PROVE  /\ IsSeq(s \o t) /\ Len(s \o t) = Len(s) + Len(t)
           /\ DOMAIN (s \o t) = 1..Len(s) + Len(t)
           /\ \A j \in 1..Len(s) : (s \o t)[j] = s[j]
           /\ \A j \in 1..Len(t) : (s \o t)[Len(s) + j] = t[j]
           /\ Range(s \o t) = Range(s) \cup Range(t)
<1> DEFINE S == Range(s) \cup Range(t)
<1>1. s \in Seq(S) /\ t \in Seq(S)
  BY DEF IsSeq
<1> HIDE DEF S
<1>2. /\ s \o t \in Seq(S) /\ Len(s \o t) = Len(s) + Len(t)
      /\ Len(s) \in Nat /\ Len(t) \in Nat
      /\ DOMAIN s = 1..Len(s) /\ DOMAIN t = 1..Len(t)
  BY <1>1
<1>3. IsSeq(s \o t) /\ DOMAIN (s \o t) = 1..Len(s) + Len(t)
  <2>1. IsSeq(s \o t)
    BY <1>2, SeqOver
  <2>2. DOMAIN (s \o t) = 1..Len(s \o t)
    BY <2>1, SeqFacts
  <2>3. QED
    BY <1>2, <2>1, <2>2
<1>4. \A j \in 1..Len(s) : (s \o t)[j] = s[j]
  BY <1>1, <1>2
<1>5. \A j \in 1..Len(t) : (s \o t)[Len(s) + j] = t[j]
  BY <1>1, <1>2
<1>6. ASSUME NEW j \in DOMAIN (s \o t)
      PROVE  (s \o t)[j] \in Range(s) \cup Range(t)
  <2>1. CASE j <= Len(s)
    BY <1>2, <1>3, <1>4, <2>1 DEF Range
  <2>2. CASE ~(j <= Len(s))
    <3>1. j - Len(s) \in 1..Len(t) /\ j = Len(s) + (j - Len(s))
      BY <1>2, <1>3, <2>2
    <3>2. (s \o t)[j] = t[j - Len(s)]
      BY <1>5, <3>1
    <3>3. QED
      BY <1>2, <3>1, <3>2 DEF Range
  <2>3. QED
    BY <2>1, <2>2
<1>7. Range(s) \cup Range(t) \subseteq Range(s \o t)
  <2>1. \A j \in DOMAIN s : s[j] \in Range(s \o t)
    BY <1>2, <1>3, <1>4 DEF Range
  <2>2. ASSUME NEW j \in DOMAIN t
        PROVE  t[j] \in Range(s \o t)
    <3>1. Len(s) + j \in 1..Len(s) + Len(t)
      BY <1>2
    <3>2. (s \o t)[Len(s) + j] = t[j]
      BY <1>2, <1>5
    <3>3. QED
      BY <1>3, <3>1, <3>2 DEF Range
  <2>3. QED
    BY <2>1, <2>2 DEF Range
<1>8. Range(s \o t) = Range(s) \cup Range(t)
  BY <1>6, <1>7 DEF Range
<1>9. QED
  BY <1>2, <1>3, <1>4, <1>5, <1>8

LEMMA EmptyTuple ==
    IsSeq(<<>>) /\ Len(<<>>) = 0 /\ DOMAIN <<>> = {} /\ Range(<<>>) = {}
<1>1. <<>> \in Seq({}) /\ Len(<<>>) = 0 /\ DOMAIN <<>> = {}
  OBVIOUS
<1>2. QED
  BY <1>1, SeqOver DEF Range

LEMMA Tuple1 ==
    ASSUME NEW x
    PROVE  /\ IsSeq(<<x>>) /\ Len(<<x>>) = 1 /\ DOMAIN <<x>> = {1} /\ <<x>>[1] = x
           /\ Range(<<x>>) = {x}
<1>1. <<x>> \in Seq({x}) /\ Len(<<x>>) = 1 /\ DOMAIN <<x>> = {1} /\ <<x>>[1] = x
  OBVIOUS
<1>2. QED
  BY <1>1, SeqOver DEF Range

LEMMA Tuple2 ==
    ASSUME NEW x, NEW y, NEW s, s = <<x, y>>
    PROVE  /\ IsSeq(s) /\ Len(s) = 2 /\ DOMAIN s = {1, 2} /\ s[1] = x /\ s[2] = y
           /\ Range(s) = {x, y}
<1>1. /\ s \in Seq({x, y}) /\ Len(s) = 2 /\ DOMAIN s = {1, 2} /\ s[1] = x /\ s[2] = y
  OBVIOUS
<1>2. QED
  BY <1>1, SeqOver DEF Range

LEMMA Tuple3 ==
    ASSUME NEW x, NEW y, NEW z, NEW s, s = <<x, y, z>>
    PROVE  /\ IsSeq(s) /\ Len(s) = 3 /\ DOMAIN s = {1, 2, 3}
           /\ s[1] = x /\ s[2] = y /\ s[3] = z /\ Range(s) = {x, y, z}
<1>1. /\ s \in Seq({x, y, z}) /\ Len(s) = 3 /\ DOMAIN s = {1, 2, 3}
      /\ s[1] = x /\ s[2] = y /\ s[3] = z
  OBVIOUS
<1>2. QED
  BY <1>1, SeqOver DEF Range

LEMMA Tuple4 ==
    ASSUME NEW x, NEW y, NEW z, NEW u, NEW s, s = <<x, y, z, u>>
    PROVE  /\ IsSeq(s) /\ Len(s) = 4 /\ DOMAIN s = {1, 2, 3, 4}
           /\ s[1] = x /\ s[2] = y /\ s[3] = z /\ s[4] = u /\ Range(s) = {x, y, z, u}
<1>1. /\ s \in Seq({x, y, z, u}) /\ Len(s) = 4 /\ DOMAIN s = {1, 2, 3, 4}
      /\ s[1] = x /\ s[2] = y /\ s[3] = z /\ s[4] = u
  OBVIOUS
<1>2. QED
  BY <1>1, SeqOver DEF Range

LEMMA Tuple5 ==
    ASSUME NEW x, NEW y, NEW z, NEW u, NEW v, NEW s, s = <<x, y, z, u, v>>
    PROVE  /\ IsSeq(s) /\ Len(s) = 5 /\ DOMAIN s = {1, 2, 3, 4, 5}
           /\ s[1] = x /\ s[2] = y /\ s[3] = z /\ s[4] = u /\ s[5] = v
           /\ Range(s) = {x, y, z, u, v}
<1>1. /\ s \in Seq({x, y, z, u, v}) /\ Len(s) = 5 /\ DOMAIN s = {1, 2, 3, 4, 5}
      /\ s[1] = x /\ s[2] = y /\ s[3] = z /\ s[4] = u /\ s[5] = v
  OBVIOUS
<1>2. QED
  BY <1>1, SeqOver DEF Range

LEMMA MinFacts ==
    ASSUME NEW T, T \subseteq Nat, T # {}
    PROVE  Min(T) \in T /\ \A y \in T : Min(T) <= y
<1>1. \E x \in T : \A y \in T : ~(<<y, x>> \in OpToRel(<, Nat))
  BY NatLessThanWellFounded, WFMin
<1>2. \E x \in T : \A y \in T : ~(y < x)
  BY <1>1 DEF OpToRel
<1>3. \E x \in T : \A y \in T : x =< y
  BY <1>2
<1>4. QED
  BY <1>3 DEF Min

LEMMA MaxOfOne ==
    ASSUME NEW m \in Nat
    PROVE  Max({m}) = m
  BY DEF Max

-----------------------------------------------------------------------------
(* What a process still has to do *)

(* What may follow the operation h in such a sequence. *)
Follows(h, T) ==
    /\ \A y \in Range(T) : y.op \notin AtFirst
    /\ h.op \in AtLast => T = <<>>
    /\ h.op = "set_key" => \A y \in Range(T) : y.op = "set_key"
    /\ h.op = "activate" => \A y \in Range(T) : y.op = "set"
    /\ h.op \notin Writing => \A y \in Range(T) : y.op # "append"
    /\ h.op \notin {"row", "record"} => \A y \in Range(T) : y.op # "off"
    /\ h.op = "row" => \E y \in Range(T) : y.op = "record" /\ y.id = h.id /\ y.arg = h.arg
    /\ h.op \in {"copy_open", "copy"} => T # <<>> /\ T[1].op = "activate"
    /\ h.op \notin {"copy_open", "copy"} => T = <<>> \/ T[1].op # "activate"
    /\ h.op \notin {"copy_open", "copy"} /\ (\E y \in Range(T) : y.op = "activate") =>
           \E y \in Range(T) : y.op \in {"copy_open", "copy"}
    /\ h.op = "backup" => T = <<>> \/ \E y \in Range(T) : y.op = "activate"
    /\ h.op \in Moving => \A y \in Range(T) : y.op \in Early
    /\ h.op \notin Early => \A y \in Range(T) : y.op \notin Moving
    /\ h.op \notin Early \cup {"deactivate", "off"} => \A y \in Range(T) : y.op # "set"

LEMMA HeadFacts ==
    ASSUME NEW s, IsSeq(s), s # <<>>, Shape(s)
    PROVE  Follows(Head(s), Tail(s))
<1> DEFINE T == Tail(s)
           h == Head(s)
<1>1. /\ IsSeq(T) /\ Len(T) = Len(s) - 1 /\ Len(s) \in Nat \ {0}
      /\ 1 \in DOMAIN s /\ h = s[1] /\ DOMAIN s = 1..Len(s) /\ DOMAIN T = 1..Len(T)
      /\ \A j \in DOMAIN T : j + 1 \in DOMAIN s /\ T[j] = s[j + 1]
      /\ T = <<>> <=> Len(T) = 0
  BY TailFacts, SeqFacts
<1>2. \A y \in Range(T) : \E m \in DOMAIN s : m > 1 /\ y = s[m]
  <2>1. ASSUME NEW y \in Range(T) PROVE \E m \in DOMAIN s : m > 1 /\ y = s[m]
    <3>1. PICK j \in DOMAIN T : T[j] = y
      BY <1>1, SeqFacts
    <3>2. j + 1 \in DOMAIN s /\ j + 1 > 1 /\ y = s[j + 1]
      BY <1>1, <3>1
    <3>3. QED
      BY <3>2
  <2>2. QED
    BY <2>1
<1>3. \A m \in DOMAIN s : m > 1 => s[m] \in Range(T)
  <2>1. ASSUME NEW m \in DOMAIN s, m > 1 PROVE s[m] \in Range(T)
    <3>1. m - 1 \in DOMAIN T /\ T[m - 1] = s[m]
      BY <1>1, <2>1
    <3>2. QED
      BY <3>1, <1>1, SeqFacts
  <2>2. QED
    BY <2>1
<1>4. T # <<>> => 2 \in DOMAIN s /\ T[1] = s[2]
  BY <1>1
<1> HIDE DEF T, h
<1>5. \A j \in DOMAIN s : ShapeAt(s, j)
  BY DEF Shape
<1>6. ShapeAt(s, 1)
  BY <1>1, <1>5
<1>a. \A y \in Range(T) : y.op \notin AtFirst
  BY <1>1, <1>2, <1>5 DEF ShapeAt
<1>b. h.op \in AtLast => T = <<>>
  BY <1>1, <1>6 DEF ShapeAt
<1>c. h.op = "set_key" => \A y \in Range(T) : y.op = "set_key"
  BY <1>1, <1>2, <1>6 DEF ShapeAt
<1>n. h.op = "activate" => \A y \in Range(T) : y.op = "set"
  BY <1>1, <1>2, <1>6 DEF ShapeAt
<1>d. h.op \notin Writing => \A y \in Range(T) : y.op # "append"
  BY <1>1, <1>2, <1>5 DEF ShapeAt, Writing
<1>e. h.op \notin {"row", "record"} => \A y \in Range(T) : y.op # "off"
  BY <1>1, <1>2, <1>5 DEF ShapeAt
<1>f. h.op = "row" => \E y \in Range(T) : y.op = "record" /\ y.id = h.id /\ y.arg = h.arg
  <2>1. SUFFICES ASSUME h.op = "row" PROVE \E y \in Range(T) : y.op = "record" /\ y.id = h.id /\ y.arg = h.arg
    OBVIOUS
  <2>2. 1 < Len(s) /\ s[1 + 1].op = "record" /\ s[1 + 1].id = h.id /\ s[1 + 1].arg = h.arg
    BY <2>1, <1>1, <1>6 DEF ShapeAt
  <2>3. s[1 + 1] \in Range(T)
    BY <2>2, <1>1, <1>3
  <2>4. QED
    BY <2>2, <2>3
<1>g. h.op \in {"copy_open", "copy"} => T # <<>> /\ T[1].op = "activate"
  BY <1>1, <1>4, <1>6 DEF ShapeAt
<1>i. h.op \notin {"copy_open", "copy"} => T = <<>> \/ T[1].op # "activate"
  <2>1. SUFFICES ASSUME h.op \notin {"copy_open", "copy"}, T # <<>>, T[1].op = "activate" PROVE FALSE
    OBVIOUS
  <2>2. ShapeAt(s, 2) /\ s[2].op = "activate" /\ 2 - 1 = 1
    BY <2>1, <1>4, <1>5
  <2>3. QED
    BY <2>1, <2>2, <1>1 DEF ShapeAt
<1>o. ASSUME h.op \notin {"copy_open", "copy"}, NEW y \in Range(T), y.op = "activate"
      PROVE  \E z \in Range(T) : z.op \in {"copy_open", "copy"}
  <2>1. PICK m \in DOMAIN s : m > 1 /\ y = s[m]
    BY <1>2
  <2>2. ShapeAt(s, m) /\ m # 1 /\ m \in Nat
    BY <2>1, <1>1, <1>5
  <2>3. s[m - 1].op \in {"copy_open", "copy"}
    BY <2>1, <2>2, <1>o DEF ShapeAt
  <2>4. m - 1 \in DOMAIN s /\ m - 1 # 1
    BY <2>1, <2>2, <2>3, <1>1, <1>o
  <2>5. s[m - 1] \in Range(T)
    BY <2>4, <1>1, <1>3
  <2>6. QED
    BY <2>3, <2>5
<1>j. h.op = "backup" => T = <<>> \/ \E y \in Range(T) : y.op = "activate"
  <2>1. SUFFICES ASSUME h.op = "backup", T # <<>> PROVE \E y \in Range(T) : y.op = "activate"
    OBVIOUS
  <2>2. PICK m \in DOMAIN s : s[m].op = "activate"
    BY <2>1, <1>1, <1>6 DEF ShapeAt
  <2>3. m > 1
    BY <2>1, <2>2, <1>1
  <2>4. QED
    BY <2>2, <2>3, <1>3
<1>k. h.op \in Moving => \A y \in Range(T) : y.op \in Early
  BY <1>1, <1>2, <1>6 DEF ShapeAt
<1>l. h.op \notin Early => \A y \in Range(T) : y.op \notin Moving
  BY <1>1, <1>2, <1>5 DEF ShapeAt
<1>m. h.op \notin Early \cup {"deactivate", "off"} => \A y \in Range(T) : y.op # "set"
  BY <1>1, <1>2, <1>5 DEF ShapeAt
<1>7. QED
  BY <1>a, <1>b, <1>c, <1>d, <1>e, <1>f, <1>g, <1>i, <1>j, <1>k, <1>l, <1>m, <1>n, <1>o DEF Follows, T, h

LEMMA PopShape ==
    ASSUME NEW s, IsSeq(s), s # <<>>, Shape(s)
    PROVE  Shape(Tail(s))
<1> DEFINE T == Tail(s)
<1>1. /\ IsSeq(T) /\ Len(T) = Len(s) - 1 /\ Len(s) \in Nat \ {0}
      /\ DOMAIN s = 1..Len(s) /\ DOMAIN T = 1..Len(T)
      /\ \A j \in DOMAIN T : j + 1 \in DOMAIN s /\ T[j] = s[j + 1]
  BY TailFacts, SeqFacts
<1> HIDE DEF T
<1>2. ASSUME NEW j \in DOMAIN T
      PROVE  ShapeAt(T, j)
  <2>1. /\ j \in Nat \ {0} /\ j + 1 \in DOMAIN s /\ T[j] = s[j + 1] /\ ShapeAt(s, j + 1)
        /\ j + 1 # 1 /\ (j + 1) - 1 = j
    BY <1>1, <1>2 DEF Shape
  <2>2. /\ T[j].op \notin AtFirst
        /\ T[j].op \in AtLast => j = Len(T)
    BY <1>1, <2>1 DEF ShapeAt
  <2>3. T[j].op = "set_key" => \A m \in DOMAIN T : m > j => T[m].op = "set_key"
    BY <1>1, <2>1 DEF ShapeAt
  <2>14. T[j].op = "activate" => \A m \in DOMAIN T : m > j => T[m].op = "set"
    BY <1>1, <2>1 DEF ShapeAt
  <2>4. T[j].op = "append" => \A m \in DOMAIN T : m < j => T[m].op \in {"write_open", "write"}
    BY <1>1, <2>1 DEF ShapeAt
  <2>5. T[j].op = "off" => \A m \in DOMAIN T : m < j => T[m].op \in {"row", "record"}
    BY <1>1, <2>1 DEF ShapeAt
  <2>6. j + 1 < Len(s) => j < Len(T) /\ T[j + 1] = s[(j + 1) + 1]
    BY <1>1, <2>1
  <2>7. T[j].op = "row" => /\ j < Len(T) /\ T[j + 1].op = "record"
                           /\ T[j + 1].id = T[j].id /\ T[j + 1].arg = T[j].arg
    BY <2>1, <2>6 DEF ShapeAt
  <2>8. T[j].op \in {"copy_open", "copy"} => j < Len(T) /\ T[j + 1].op = "activate"
    BY <2>1, <2>6 DEF ShapeAt
  <2>9. T[j].op = "activate" => j = 1 \/ T[j - 1].op \in {"copy_open", "copy"}
    <3>1. j # 1 => T[j - 1] = s[j]
      BY <1>1, <2>1
    <3>2. QED
      BY <3>1, <2>1 DEF ShapeAt
  <2>10. T[j].op # "backup"
    BY <2>2 DEF AtFirst
  <2>11. T[j].op \in Moving => \A m \in DOMAIN T : T[m].op \in Early
    BY <1>1, <2>1 DEF ShapeAt
  <2>12. T[j].op = "set" => \A m \in DOMAIN T : T[m].op \in Early \cup {"deactivate", "off"}
    BY <1>1, <2>1 DEF ShapeAt
  <2>13. QED
    BY <2>2, <2>3, <2>4, <2>5, <2>7, <2>8, <2>9, <2>10, <2>11, <2>12, <2>14 DEF ShapeAt
<1>3. QED
  BY <1>2 DEF Shape, T

(* What may be put in front of T. *)
Fits(f, T) ==
    /\ \A y \in Range(T) : y.op \notin AtFirst
    /\ T = <<>> \/ \A x \in Range(f) : x.op \notin AtLast
    /\ \A x \in Range(f) : x.op \notin Moving \cup {"activate", "set"}
    /\ (\E x \in Range(f) : x.op = "set_key") => \A y \in Range(T) : y.op = "set_key"
    /\ (\E y \in Range(T) : y.op = "append") => \A x \in Range(f) : x.op \in Writing
    /\ (\E y \in Range(T) : y.op = "off") => \A x \in Range(f) : x.op \in {"row", "record"}
    /\ T = <<>> \/ T[1].op # "activate"
    /\ (\E y \in Range(T) : y.op \in Moving) => \A x \in Range(f) : x.op \in Early
    /\ (\E y \in Range(T) : y.op = "set") =>
           \A x \in Range(f) : x.op \in Early \cup {"deactivate", "off"}

LEMMA Graft ==
    ASSUME NEW f, NEW T, IsSeq(f), IsSeq(T), Shape(f), Shape(T), Fits(f, T)
    PROVE  Shape(f \o T)
<1> DEFINE s == f \o T
<1>1. /\ IsSeq(s) /\ Len(s) = Len(f) + Len(T) /\ DOMAIN s = 1..Len(f) + Len(T)
      /\ \A j \in 1..Len(f) : s[j] = f[j]
      /\ \A j \in 1..Len(T) : s[Len(f) + j] = T[j]
  BY ConcatFacts
<1>2. /\ Len(f) \in Nat /\ Len(T) \in Nat /\ DOMAIN f = 1..Len(f) /\ DOMAIN T = 1..Len(T)
      /\ \A j \in DOMAIN f : f[j] \in Range(f)
      /\ \A j \in DOMAIN T : T[j] \in Range(T)
      /\ T = <<>> <=> Len(T) = 0
  BY SeqFacts
<1> HIDE DEF s
<1>3. ASSUME NEW m \in DOMAIN s
      PROVE  \/ m \in DOMAIN f /\ s[m] = f[m]
             \/ m > Len(f) /\ m - Len(f) \in DOMAIN T /\ s[m] = T[m - Len(f)]
  <2>1. CASE m <= Len(f)
    BY <2>1, <1>1, <1>2
  <2>2. CASE ~(m <= Len(f))
    <3>1. m - Len(f) \in 1..Len(T) /\ Len(f) + (m - Len(f)) = m
      BY <2>2, <1>1, <1>2
    <3>2. s[Len(f) + (m - Len(f))] = T[m - Len(f)]
      BY <1>1, <3>1
    <3>3. QED
      BY <3>1, <3>2, <2>2, <1>1, <1>2
  <2>3. QED
    BY <2>1, <2>2
<1>4. ASSUME NEW j \in DOMAIN f
      PROVE  ShapeAt(s, j)
  <2>1. /\ s[j] = f[j] /\ ShapeAt(f, j) /\ j \in Nat /\ j >= 1 /\ j <= Len(f) /\ f[j] \in Range(f)
    BY <1>1, <1>2, <1>4 DEF Shape
  <2>2. /\ s[j].op \in AtFirst => j = 1
        /\ s[j].op \in AtLast => j = Len(s)
    BY <2>1, <1>1, <1>2 DEF ShapeAt, Fits
  <2>3. s[j].op = "set_key" => \A m \in DOMAIN s : m > j => s[m].op = "set_key"
    BY <2>1, <1>2, <1>3 DEF ShapeAt, Fits
  <2>4. s[j].op = "append" => \A m \in DOMAIN s : m < j => s[m].op \in {"write_open", "write"}
    BY <2>1, <1>1, <1>2, <1>3 DEF ShapeAt
  <2>5. s[j].op = "off" => \A m \in DOMAIN s : m < j => s[m].op \in {"row", "record"}
    BY <2>1, <1>1, <1>2, <1>3 DEF ShapeAt
  <2>6. j < Len(f) => j < Len(s) /\ s[j + 1] = f[j + 1]
    BY <2>1, <1>1, <1>2
  <2>7. s[j].op = "row" => /\ j < Len(s) /\ s[j + 1].op = "record"
                           /\ s[j + 1].id = s[j].id /\ s[j + 1].arg = s[j].arg
    BY <2>1, <2>6 DEF ShapeAt
  <2>8. s[j].op \notin Moving \cup {"activate", "set"}
    BY <2>1 DEF Fits
  <2>9. QED
    BY <2>2, <2>3, <2>4, <2>5, <2>7, <2>8 DEF ShapeAt, Moving
<1>5. ASSUME NEW i \in DOMAIN T
      PROVE  ShapeAt(s, Len(f) + i)
  <2> DEFINE j == Len(f) + i
  <2>1. /\ j \in DOMAIN s /\ s[j] = T[i] /\ ShapeAt(T, i) /\ i \in Nat /\ i >= 1 /\ i <= Len(T)
        /\ T[i] \in Range(T) /\ T # <<>> /\ j \in Nat /\ j - Len(f) = i /\ Len(f) + i = j
    BY <1>1, <1>2, <1>5 DEF Shape
  <2> HIDE DEF j
  <2>2. /\ s[j].op \notin AtFirst
        /\ s[j].op \in AtLast => j = Len(s)
    BY <2>1, <1>1, <1>2 DEF ShapeAt, Fits
  <2>3. s[j].op = "set_key" => \A m \in DOMAIN s : m > j => s[m].op = "set_key"
    <3>1. SUFFICES ASSUME s[j].op = "set_key", NEW m \in DOMAIN s, m > j PROVE s[m].op = "set_key"
      OBVIOUS
    <3>2. m > Len(f) /\ m - Len(f) \in DOMAIN T /\ s[m] = T[m - Len(f)] /\ m - Len(f) > i
      BY <3>1, <2>1, <1>1, <1>2, <1>3
    <3>3. QED
      BY <3>1, <3>2, <2>1 DEF ShapeAt
  <2>15. s[j].op = "activate" => \A m \in DOMAIN s : m > j => s[m].op = "set"
    <3>1. SUFFICES ASSUME s[j].op = "activate", NEW m \in DOMAIN s, m > j PROVE s[m].op = "set"
      OBVIOUS
    <3>2. m > Len(f) /\ m - Len(f) \in DOMAIN T /\ s[m] = T[m - Len(f)] /\ m - Len(f) > i
      BY <3>1, <2>1, <1>1, <1>2, <1>3
    <3>3. QED
      BY <3>1, <3>2, <2>1 DEF ShapeAt
  <2>4. s[j].op = "append" => \A m \in DOMAIN s : m < j => s[m].op \in {"write_open", "write"}
    <3>1. SUFFICES ASSUME s[j].op = "append", NEW m \in DOMAIN s, m < j
                   PROVE  s[m].op \in {"write_open", "write"}
      OBVIOUS
    <3>2. CASE m \in DOMAIN f /\ s[m] = f[m]
      BY <3>1, <3>2, <2>1, <1>2 DEF Fits, Writing
    <3>3. CASE m > Len(f) /\ m - Len(f) \in DOMAIN T /\ s[m] = T[m - Len(f)]
      <4>1. m - Len(f) < i
        BY <3>1, <3>3, <2>1, <1>1, <1>2
      <4>2. QED
        BY <3>1, <3>3, <4>1, <2>1 DEF ShapeAt
    <3>4. QED
      BY <3>2, <3>3, <1>3
  <2>5. s[j].op = "off" => \A m \in DOMAIN s : m < j => s[m].op \in {"row", "record"}
    <3>1. SUFFICES ASSUME s[j].op = "off", NEW m \in DOMAIN s, m < j
                   PROVE  s[m].op \in {"row", "record"}
      OBVIOUS
    <3>2. CASE m \in DOMAIN f /\ s[m] = f[m]
      BY <3>1, <3>2, <2>1, <1>2 DEF Fits
    <3>3. CASE m > Len(f) /\ m - Len(f) \in DOMAIN T /\ s[m] = T[m - Len(f)]
      <4>1. m - Len(f) < i
        BY <3>1, <3>3, <2>1, <1>1, <1>2
      <4>2. QED
        BY <3>1, <3>3, <4>1, <2>1 DEF ShapeAt
    <3>4. QED
      BY <3>2, <3>3, <1>3
  <2>6. i < Len(T) => j < Len(s) /\ s[j + 1] = T[i + 1]
    <3>1. SUFFICES ASSUME i < Len(T) PROVE j < Len(s) /\ s[j + 1] = T[i + 1]
      OBVIOUS
    <3>2. i + 1 \in 1..Len(T) /\ Len(f) + (i + 1) = j + 1
      BY <3>1, <2>1, <1>2
    <3>5. j < Len(s)
      BY <3>1, <2>1, <1>1, <1>2
    <3>3. s[Len(f) + (i + 1)] = T[i + 1]
      BY <3>2, <1>1
    <3>4. QED
      BY <3>2, <3>3, <3>5
  <2>7. s[j].op = "row" => /\ j < Len(s) /\ s[j + 1].op = "record"
                           /\ s[j + 1].id = s[j].id /\ s[j + 1].arg = s[j].arg
    BY <2>1, <2>6 DEF ShapeAt
  <2>8. s[j].op \in {"copy_open", "copy"} => j < Len(s) /\ s[j + 1].op = "activate"
    BY <2>1, <2>6 DEF ShapeAt
  <2>9. s[j].op = "activate" => j = 1 \/ s[j - 1].op \in {"copy_open", "copy"}
    <3>1. SUFFICES ASSUME s[j].op = "activate" PROVE s[j - 1].op \in {"copy_open", "copy"}
      OBVIOUS
    <3>2. i # 1
      BY <3>1, <2>1 DEF Fits
    <3>3. i - 1 \in 1..Len(T) /\ Len(f) + (i - 1) = j - 1
      BY <3>2, <2>1, <1>2
    <3>4. s[Len(f) + (i - 1)] = T[i - 1]
      BY <3>3, <1>1
    <3>5. T[i - 1].op \in {"copy_open", "copy"}
      BY <3>1, <3>2, <2>1 DEF ShapeAt
    <3>6. QED
      BY <3>3, <3>4, <3>5
  <2>10. s[j].op # "backup"
    BY <2>2 DEF AtFirst
  <2>11. s[j].op \in Moving => \A m \in DOMAIN s : s[m].op \in Early
    <3>1. SUFFICES ASSUME s[j].op \in Moving, NEW m \in DOMAIN s
                   PROVE  s[m].op \in Early
      OBVIOUS
    <3>2. CASE m \in DOMAIN f /\ s[m] = f[m]
      BY <3>1, <3>2, <2>1, <1>2 DEF Fits
    <3>3. CASE m > Len(f) /\ m - Len(f) \in DOMAIN T /\ s[m] = T[m - Len(f)]
      BY <3>1, <3>3, <2>1 DEF ShapeAt
    <3>4. QED
      BY <3>2, <3>3, <1>3
  <2>12. s[j].op = "set" => \A m \in DOMAIN s : s[m].op \in Early \cup {"deactivate", "off"}
    <3>1. SUFFICES ASSUME s[j].op = "set", NEW m \in DOMAIN s
                   PROVE  s[m].op \in Early \cup {"deactivate", "off"}
      OBVIOUS
    <3>2. CASE m \in DOMAIN f /\ s[m] = f[m]
      BY <3>1, <3>2, <2>1, <1>2 DEF Fits
    <3>3. CASE m > Len(f) /\ m - Len(f) \in DOMAIN T /\ s[m] = T[m - Len(f)]
      BY <3>1, <3>3, <2>1 DEF ShapeAt
    <3>4. QED
      BY <3>2, <3>3, <1>3
  <2>13. ShapeAt(s, j)
    BY <2>2, <2>3, <2>4, <2>5, <2>7, <2>8, <2>9, <2>10, <2>11, <2>12, <2>15 DEF ShapeAt
  <2>14. QED
    BY <2>13 DEF j
<1>6. ASSUME NEW m \in DOMAIN s
      PROVE  ShapeAt(s, m)
  <2>1. CASE m \in DOMAIN f
    BY <2>1, <1>4
  <2>2. CASE m > Len(f) /\ m - Len(f) \in DOMAIN T
    <3>1. Len(f) + (m - Len(f)) = m
      BY <1>1, <1>2
    <3>2. ShapeAt(s, Len(f) + (m - Len(f)))
      BY <2>2, <1>5
    <3>3. QED
      BY <3>1, <3>2
  <2>3. QED
    BY <2>1, <2>2, <1>3
<1>7. QED
  BY <1>6 DEF Shape, s

(* The sequences that operations put in front. *)

LEMMA ShapeNone == Shape(<<>>)
  BY EmptyTuple DEF Shape

LEMMA ShapeOne ==
    ASSUME NEW o, o.op \notin {"row", "copy_open", "copy"}, NEW f, f = <<o>>
    PROVE  IsSeq(f) /\ Shape(f) /\ Range(f) = {o}
<1>1. /\ IsSeq(f) /\ Len(f) = 1 /\ DOMAIN f = {1} /\ f[1] = o /\ Range(f) = {o}
  BY Tuple1
<1>2. ShapeAt(f, 1)
  BY <1>1 DEF ShapeAt, Moving, Early
<1>3. QED
  BY <1>1, <1>2 DEF Shape

LEMMA ShapeRow ==
    ASSUME NEW x, NEW v, NEW f, f = <<Op("row", x, v), Op("record", x, v)>>
    PROVE  IsSeq(f) /\ Shape(f) /\ Range(f) = {Op("row", x, v), Op("record", x, v)}
<1>1. /\ IsSeq(f) /\ Len(f) = 2 /\ DOMAIN f = {1, 2}
      /\ f[1] = Op("row", x, v) /\ f[2] = Op("record", x, v)
      /\ Range(f) = {Op("row", x, v), Op("record", x, v)}
  BY Tuple2
<1>2. ShapeAt(f, 1) /\ ShapeAt(f, 2)
  BY <1>1 DEF ShapeAt, Moving, AtFirst, AtLast, Op
<1>3. QED
  BY <1>1, <1>2 DEF Shape

LEMMA ShapeRowOff ==
    ASSUME NEW x, NEW v, NEW y, NEW w, NEW f,
           f = <<Op("row", x, v), Op("record", x, v), Op("off", y, w)>>
    PROVE  /\ IsSeq(f) /\ Shape(f)
           /\ Range(f) = {Op("row", x, v), Op("record", x, v), Op("off", y, w)}
<1>1. /\ IsSeq(f) /\ Len(f) = 3 /\ DOMAIN f = {1, 2, 3}
      /\ f[1] = Op("row", x, v) /\ f[2] = Op("record", x, v) /\ f[3] = Op("off", y, w)
      /\ Range(f) = {Op("row", x, v), Op("record", x, v), Op("off", y, w)}
  BY Tuple3
<1>2. ShapeAt(f, 1) /\ ShapeAt(f, 2) /\ ShapeAt(f, 3)
  BY <1>1 DEF ShapeAt, Moving, AtFirst, AtLast, Op
<1>3. QED
  BY <1>1, <1>2 DEF Shape

LEMMA ShapeActivate ==
    ASSUME NEW x, NEW f,
           f = <<Op("deactivate", x, 0), Op("row", x, 1), Op("record", x, 1)>>
    PROVE  /\ IsSeq(f) /\ Shape(f)
           /\ Range(f) = {Op("deactivate", x, 0), Op("row", x, 1), Op("record", x, 1)}
<1>1. /\ IsSeq(f) /\ Len(f) = 3 /\ DOMAIN f = {1, 2, 3}
      /\ f[1] = Op("deactivate", x, 0) /\ f[2] = Op("row", x, 1) /\ f[3] = Op("record", x, 1)
      /\ Range(f) = {Op("deactivate", x, 0), Op("row", x, 1), Op("record", x, 1)}
  BY Tuple3
<1>2. ShapeAt(f, 1) /\ ShapeAt(f, 2) /\ ShapeAt(f, 3)
  BY <1>1 DEF ShapeAt, Moving, AtFirst, AtLast, Op
<1>3. QED
  BY <1>1, <1>2 DEF Shape

LEMMA ShapeRegisterNew ==
    ASSUME NEW x
    PROVE  /\ IsSeq(RegisterNew(x)) /\ Shape(RegisterNew(x))
           /\ Range(RegisterNew(x)) = {Op("write_open", x, FreshRecord), Op("append", x, 0),
                                       Op("deactivate", x, 0)}
<1> DEFINE f == RegisterNew(x)
<1>1. /\ IsSeq(f) /\ Len(f) = 3 /\ DOMAIN f = {1, 2, 3}
      /\ f[1] = Op("write_open", x, FreshRecord) /\ f[2] = Op("append", x, 0)
      /\ f[3] = Op("deactivate", x, 0)
      /\ Range(f) = {Op("write_open", x, FreshRecord), Op("append", x, 0),
                     Op("deactivate", x, 0)}
  BY Tuple3 DEF RegisterNew
<1> HIDE DEF f
<1>2. ShapeAt(f, 1) /\ ShapeAt(f, 2) /\ ShapeAt(f, 3)
  BY <1>1 DEF ShapeAt, Moving, AtFirst, AtLast, Op
<1>3. QED
  BY <1>1, <1>2 DEF Shape, f

LEMMA ShapeReregister ==
    ASSUME NEW x
    PROVE  /\ IsSeq(Reregister(x)) /\ Shape(Reregister(x))
           /\ Range(Reregister(x)) = {Op("write_open", x, FreshRecord), Op("deactivate", x, 0),
                                      Op("row", x, 1), Op("record", x, 1), Op("utc", x, 0)}
<1> DEFINE f == Reregister(x)
<1>1. /\ IsSeq(f) /\ Len(f) = 5 /\ DOMAIN f = {1, 2, 3, 4, 5}
      /\ f[1] = Op("write_open", x, FreshRecord) /\ f[2] = Op("deactivate", x, 0)
      /\ f[3] = Op("row", x, 1) /\ f[4] = Op("record", x, 1) /\ f[5] = Op("utc", x, 0)
      /\ Range(f) = {Op("write_open", x, FreshRecord), Op("deactivate", x, 0),
                     Op("row", x, 1), Op("record", x, 1), Op("utc", x, 0)}
  BY Tuple5 DEF Reregister
<1> HIDE DEF f
<1>2. ShapeAt(f, 1) /\ ShapeAt(f, 2)
  BY <1>1 DEF ShapeAt, Moving, AtFirst, AtLast, Op
<1>3. ShapeAt(f, 3) /\ ShapeAt(f, 4) /\ ShapeAt(f, 5)
  BY <1>1 DEF ShapeAt, Moving, AtFirst, AtLast, Op
<1>4. QED
  BY <1>1, <1>2, <1>3 DEF Shape, f

LEMMA ShapeSet ==
    ASSUME NEW x, NEW v, NEW f, f = <<Op("resolve", x, 0), Op("set_keys", x, v)>>
    PROVE  IsSeq(f) /\ Shape(f) /\ Range(f) = {Op("resolve", x, 0), Op("set_keys", x, v)}
<1>1. /\ IsSeq(f) /\ Len(f) = 2 /\ DOMAIN f = {1, 2}
      /\ f[1] = Op("resolve", x, 0) /\ f[2] = Op("set_keys", x, v)
      /\ Range(f) = {Op("resolve", x, 0), Op("set_keys", x, v)}
  BY Tuple2
<1>2. ShapeAt(f, 1) /\ ShapeAt(f, 2)
  BY <1>1 DEF ShapeAt, Moving, AtFirst, AtLast, Op
<1>3. QED
  BY <1>1, <1>2 DEF Shape

LEMMA ShapeBuild ==
    ASSUME NEW x, NEW f,
           f = <<Op("backup", x, 0), Op("copy_open", x, 0), Op("activate", x, 0), Op("set", x, 0)>>
    PROVE  /\ IsSeq(f) /\ Shape(f)
           /\ Range(f) = {Op("backup", x, 0), Op("copy_open", x, 0), Op("activate", x, 0),
                          Op("set", x, 0)}
<1>1. /\ IsSeq(f) /\ Len(f) = 4 /\ DOMAIN f = {1, 2, 3, 4}
      /\ f[1] = Op("backup", x, 0) /\ f[2] = Op("copy_open", x, 0)
      /\ f[3] = Op("activate", x, 0) /\ f[4] = Op("set", x, 0)
      /\ Range(f) = {Op("backup", x, 0), Op("copy_open", x, 0), Op("activate", x, 0),
                     Op("set", x, 0)}
  BY Tuple4
<1>2. ShapeAt(f, 1) /\ ShapeAt(f, 2)
  BY <1>1 DEF ShapeAt, Moving, Early, AtFirst, AtLast, Op
<1>3. ShapeAt(f, 3) /\ ShapeAt(f, 4)
  BY <1>1 DEF ShapeAt, Moving, Early, AtFirst, AtLast, Op
<1>4. QED
  BY <1>1, <1>2, <1>3 DEF Shape

LEMMA ShapeKeys ==
    ASSUME NEW x, NEW f, f = [k \in DOMAIN Pairs |-> Op("set_key", x, k)]
    PROVE  /\ IsSeq(f) /\ Shape(f)
           /\ Range(f) = {Op("set_key", x, k) : k \in DOMAIN Pairs}
<1>1. Len(Pairs) \in Nat /\ DOMAIN Pairs = 1..Len(Pairs)
  BY KernelAssumption
<1>2. f \in Seq(Range(f)) /\ DOMAIN f = DOMAIN Pairs
  BY <1>1 DEF Range
<1>3. \A j \in DOMAIN f : f[j].op = "set_key"
  BY DEF Op
<1>4. Shape(f)
  BY <1>3 DEF Shape, ShapeAt, Moving, AtFirst, AtLast
<1>5. Range(f) = {Op("set_key", x, k) : k \in DOMAIN Pairs}
  BY DEF Range
<1>6. QED
  BY <1>2, <1>4, <1>5 DEF IsSeq

-----------------------------------------------------------------------------
(* What a step leaves a process to do *)

Rest(p) == Range(Tail(run[p].todo))

LEMMA BusyFacts ==
    ASSUME Runs, NEW p \in Proc, Busy(p)
    PROVE  LET s == run[p].todo  h == Head(s) IN
           /\ IsSeq(s) /\ IsSeq(Tail(s)) /\ Shape(Tail(s)) /\ Follows(h, Tail(s))
           /\ Items(p) = {h} \cup Rest(p) /\ (Rest(p) = {} <=> Tail(s) = <<>>)
           /\ \A o \in Items(p) : IsOp(o, TheName(p), Len(rows))
           /\ TheName(p) \in Name /\ run[p].override \in BOOLEAN
           /\ run[p] \in [cmd : {run[p].cmd}, name : {run[p].name},
                           override : BOOLEAN, todo : {run[p].todo}]
<1> DEFINE s == run[p].todo
<1>1. IsRun(run[p], Len(rows)) /\ s # <<>>
  BY DEF Runs, Busy
<1>2. IsSeq(s) /\ Shape(s)
  BY <1>1 DEF IsRun
<1>3. IsSeq(Tail(s)) /\ Items(p) = {Head(s)} \cup Rest(p)
  BY <1>1, <1>2, TailFacts DEF Items, Rest
<1>4. Rest(p) = {} <=> Tail(s) = <<>>
  <2>1. Tail(s) = <<>> => Rest(p) = {}
    BY EmptyTuple DEF Rest
  <2>2. Tail(s) # <<>> => 1 \in DOMAIN Tail(s)
    BY <1>3, SeqFacts
  <2>3. QED
    BY <2>1, <2>2, <1>3, SeqFacts DEF Rest
<1>5. Shape(Tail(s)) /\ Follows(Head(s), Tail(s))
  BY <1>1, <1>2, PopShape, HeadFacts
<1>6. /\ \A o \in Items(p) : IsOp(o, TheName(p), Len(rows))
      /\ TheName(p) \in Name /\ run[p].override \in BOOLEAN
      /\ run[p] \in [cmd : {run[p].cmd}, name : {run[p].name},
                      override : BOOLEAN, todo : {run[p].todo}]
  BY <1>1 DEF IsRun, Items, TheName
<1>7. QED
  BY <1>2, <1>3, <1>4, <1>5, <1>6

(* After a step of p it has the operations I to do; the others go on.      *)
NewRun(p, I) ==
    /\ run' = [q \in Proc |-> run'[q]] /\ \A q \in Proc : IsRun(run'[q], Len(rows))
    /\ \A q \in Proc \ {p} : run'[q] = run[q]
    /\ Range(run'[p].todo) = I
    /\ run'[p].todo # <<>> => /\ run'[p].name = run[p].name /\ run'[p].cmd = run[p].cmd
                              /\ run'[p].override = run[p].override

LEMMA IdleRun == ASSUME NEW len PROVE IsRun(Idle, len) /\ Idle.todo = <<>>
  BY EmptyTuple, ShapeNone DEF IsRun, Idle

LEMMA Advance ==
    ASSUME Runs, NEW p \in Proc, Busy(p), NEW t, Continue(p, t), IsSeq(t), Shape(t),
           \A o \in Range(t) : IsOp(o, TheName(p), Len(rows))
    PROVE  NewRun(p, Range(t))
<1>1. /\ run[p] \in [cmd : {run[p].cmd}, name : {run[p].name},
                      override : BOOLEAN, todo : {run[p].todo}]
      /\ TheName(p) \in Name
  BY BusyFacts
<1>2. run = [q \in Proc |-> run[q]] /\ \A q \in Proc : IsRun(run[q], Len(rows))
  BY DEF Runs
<1>3. /\ run' = [q \in Proc |-> run'[q]]
      /\ \A q \in Proc \ {p} : run'[q] = run[q]
      /\ run'[p] = IF t = <<>> THEN Idle ELSE [run[p] EXCEPT !.todo = t]
  BY <1>2 DEF Continue
<1>4. CASE t = <<>>
  <2>1. run'[p] = Idle
    BY <1>3, <1>4
  <2>2. IsRun(run'[p], Len(rows)) /\ run'[p].todo = <<>>
    BY <2>1, IdleRun
  <2>3. QED
    BY <1>2, <1>3, <2>2, <1>4 DEF NewRun
<1>5. CASE t # <<>>
  <2>1. run'[p] = [run[p] EXCEPT !.todo = t]
    BY <1>3, <1>5
  <2>2. /\ run'[p].todo = t /\ run'[p].name = run[p].name /\ run'[p].cmd = run[p].cmd
        /\ run'[p].override = run[p].override
        /\ run'[p] \in [cmd : {run'[p].cmd}, name : {run'[p].name}, override : BOOLEAN,
                         todo : {run'[p].todo}]
    BY <2>1, <1>1
  <2>3. IsRun(run'[p], Len(rows))
    BY <2>2, <1>1 DEF IsRun, TheName
  <2>4. QED
    BY <1>2, <1>3, <2>2, <2>3 DEF NewRun
<1>6. QED
  BY <1>4, <1>5

LEMMA Grafted ==
    ASSUME Runs, NEW p \in Proc, Busy(p), NEW f, Then(p, f), IsSeq(f), Shape(f),
           Fits(f, Tail(run[p].todo)),
           \A o \in Range(f) : IsOp(o, TheName(p), Len(rows))
    PROVE  NewRun(p, Range(f) \cup Rest(p))
<1> DEFINE T == Tail(run[p].todo)
           t == f \o T
<1>1. /\ IsSeq(T) /\ Shape(T) /\ \A o \in Range(T) : IsOp(o, TheName(p), Len(rows))
  BY BusyFacts DEF Rest
<1>2. IsSeq(t) /\ Range(t) = Range(f) \cup Range(T) /\ Shape(t)
  BY <1>1, ConcatFacts, Graft
<1>3. Continue(p, t)
  BY DEF Then
<1>4. \A o \in Range(t) : IsOp(o, TheName(p), Len(rows))
  BY <1>1, <1>2
<1> HIDE DEF t
<1>5. NewRun(p, Range(t))
  BY <1>2, <1>3, <1>4, Advance
<1>6. QED
  BY <1>2, <1>5 DEF Rest

LEMMA Popped ==
    ASSUME Runs, NEW p \in Proc, Busy(p), Then(p, <<>>)
    PROVE  NewRun(p, Rest(p))
<1> DEFINE T == Tail(run[p].todo)
<1>1. /\ IsSeq(T) /\ Shape(T) /\ \A o \in Range(T) : IsOp(o, TheName(p), Len(rows))
  BY BusyFacts DEF Rest
<1>2. <<>> \o T = T
  BY <1>1 DEF IsSeq
<1>3. Continue(p, T)
  BY <1>2 DEF Then
<1>4. NewRun(p, Range(T))
  BY <1>1, <1>3, Advance
<1>5. QED
  BY <1>4 DEF Rest

LEMMA Ended ==
    ASSUME Runs, NEW p \in Proc, Busy(p), Continue(p, <<>>)
    PROVE  NewRun(p, {})
  BY EmptyTuple, ShapeNone, Advance

LEMMA AfterResolveRun ==
    ASSUME Runs, NEW p \in Proc, Busy(p), Continue(p, AfterResolve(p))
    PROVE  \E I \in SUBSET Rest(p) : NewRun(p, I) /\ \A o \in I : o.op = "set_keys"
<1> DEFINE T == Tail(run[p].todo)
           sets == {k \in DOMAIN T : T[k].op = "set_keys"}
<1>1. /\ IsSeq(T) /\ Shape(T) /\ \A o \in Range(T) : IsOp(o, TheName(p), Len(rows))
  BY BusyFacts DEF Rest
<1>2. /\ Len(T) \in Nat /\ DOMAIN T = 1..Len(T)
      /\ \A j \in DOMAIN T : T[j] \in Range(T)
  BY <1>1, SeqFacts
<1>3. AfterResolve(p) = IF sets = {} THEN <<>> ELSE SubSeq(T, Min(sets), Len(T))
  BY DEF AfterResolve
<1> HIDE DEF T
<1>4. CASE sets = {}
  <2>1. NewRun(p, {})
    BY <1>3, <1>4, Ended
  <2>2. QED
    BY <2>1
<1>5. CASE sets # {}
  <2>8. sets \subseteq Nat
    BY <1>2
  <2>1. Min(sets) \in sets
    <3> HIDE DEF sets
    <3>1. QED
      BY <2>8, <1>5, MinFacts
  <2>2. /\ Min(sets) = Len(T) /\ Len(T) \in DOMAIN T /\ T[Len(T)].op = "set_keys"
    BY <1>1, <2>1 DEF Shape, ShapeAt, AtLast
  <2> DEFINE o == T[Len(T)]
  <2>3. AfterResolve(p) = <<o>>
    <3> DEFINE u == SubSeq(T, Len(T), Len(T))
    <3>3. Len(T) >= 1 /\ Len(T) <= Len(T)
      BY <1>2, <2>2
    <3>4. u \in Seq(Range(T)) /\ Len(u) = 1 /\ u[1] = T[Len(T)]
      BY <1>1, <1>2, <3>3 DEF IsSeq
    <3>5. u = <<u[1]>>
      <4> HIDE DEF u
      <4>1. QED
        BY <3>4
    <3>1. u = <<T[Len(T)]>>
      BY <3>4, <3>5
    <3>2. QED
      BY <3>1, <1>3, <1>5, <2>2
  <2> HIDE DEF o
  <2>4. o.op = "set_keys" /\ o \in Range(T) /\ IsOp(o, TheName(p), Len(rows))
    BY <1>1, <1>2, <2>2 DEF o
  <2>5. IsSeq(<<o>>) /\ Shape(<<o>>) /\ Range(<<o>>) = {o}
    BY <2>4, ShapeOne
  <2>6. NewRun(p, {o})
    BY <2>3, <2>4, <2>5, Advance
  <2>7. QED
    BY <2>4, <2>6 DEF Rest, T
<1>6. QED
  BY <1>4, <1>5

-----------------------------------------------------------------------------
(* One lemma for each operation that puts others in front *)

LEMMA BackupRun ==
    ASSUME Runs, Objects, NEW p \in Proc, Backup(p)
    PROVE  LET n == TheName(p) IN
           IF so[n] = NoSo THEN NewRun(p, Rest(p))
           ELSE NewRun(p, {Op("row", so[n], 0), Op("record", so[n], 0)} \cup Rest(p))
<1> DEFINE n == TheName(p)
           x == so[n]
           f == <<Op("row", x, 0), Op("record", x, 0)>>
           T == Tail(run[p].todo)
           h == Head(run[p].todo)
<1>1. Busy(p) /\ h.op = "backup" /\ n \in Name /\ Follows(h, T)
  BY BusyFacts DEF Backup, At
<1>2. IsSeq(f) /\ Shape(f) /\ Range(f) = {Op("row", x, 0), Op("record", x, 0)}
  BY ShapeRow
<1>3. CASE so[n] = NoSo
  <2>1. Then(p, <<>>)
    BY <1>3 DEF Backup
  <2>2. QED
    BY <1>1, <1>3, <2>1, Popped
<1>4. CASE so[n] # NoSo
  <2>1. Then(p, f)
    BY <1>4 DEF Backup
  <2> HIDE DEF T, h, f
  <2>2. Fits(f, T)
    BY <1>1, <1>2 DEF Fits, Follows, Early, Moving, AtFirst, AtLast, Writing, Op
  <2>3. x \in Id => NameOf[x] = n
    BY <1>1 DEF Objects
  <2>4. \A o \in Range(f) : IsOp(o, n, Len(rows))
    BY <1>2, <2>3 DEF IsOp, Op, OfObject
  <2>5. NewRun(p, Range(f) \cup Rest(p))
    BY <1>1, <1>2, <2>1, <2>2, <2>4, Grafted DEF T
  <2>6. QED
    BY <1>2, <1>4, <2>5
<1>5. QED
  BY <1>3, <1>4

LEMMA CopyOpenRun ==
    ASSUME Runs, NEW p \in Proc, CopyOpen(p)
    PROVE  NewRun(p, {Op("copy", TheId(p), 0)} \cup Rest(p))
<1> DEFINE n == TheName(p)
           c == Op("copy", TheId(p), 0)
           T == Tail(run[p].todo)
           h == Head(run[p].todo)
           s == <<c>> \o T
<1>1. /\ Busy(p) /\ h.op = "copy_open" /\ n \in Name /\ Follows(h, T) /\ IsSeq(T) /\ Shape(T)
      /\ \A o \in Items(p) : IsOp(o, n, Len(rows))
      /\ h \in Items(p) /\ Rest(p) \subseteq Items(p)
  BY BusyFacts DEF CopyOpen, At
<1>2. IsSeq(<<c>>) /\ Len(<<c>>) = 1 /\ <<c>>[1] = c /\ Range(<<c>>) = {c}
  BY Tuple1
<1>3. /\ IsSeq(s) /\ Len(s) = 1 + Len(T) /\ DOMAIN s = 1..1 + Len(T) /\ s[1] = c
      /\ \A j \in 1..Len(T) : s[1 + j] = T[j]
      /\ Range(s) = {c} \cup Range(T)
  <2>1. /\ IsSeq(s) /\ Len(s) = Len(<<c>>) + Len(T) /\ DOMAIN s = 1..Len(<<c>>) + Len(T)
        /\ \A j \in 1..Len(<<c>>) : s[j] = <<c>>[j]
        /\ \A j \in 1..Len(T) : s[Len(<<c>>) + j] = T[j]
        /\ Range(s) = Range(<<c>>) \cup Range(T)
    BY <1>1, <1>2, ConcatFacts
  <2>2. QED
    BY <1>2, <2>1
<1>4. Continue(p, s)
  BY DEF CopyOpen, Then
<1>5. c.op = "copy" /\ c.id = TheId(p) /\ c = [op |-> "copy", id |-> TheId(p), arg |-> 0]
  BY DEF Op
<1>6. /\ Len(T) \in Nat /\ DOMAIN T = 1..Len(T) /\ \A j \in DOMAIN T : T[j] \in Range(T)
      /\ T # <<>> /\ T[1].op = "activate" /\ Len(T) # 0
      /\ \A y \in Range(T) : y.op \in Early /\ y.op \notin AtFirst
  BY <1>1, SeqFacts DEF Follows, Moving
<1> HIDE DEF T, h, s, c
<1>7. ShapeAt(s, 1)
  <2>1. \A m \in DOMAIN s : s[m].op \in Early
    <3>1. ASSUME NEW m \in DOMAIN s PROVE s[m].op \in Early
      <4>1. m = 1 \/ (m - 1 \in 1..Len(T) /\ 1 + (m - 1) = m)
        BY <1>3, <1>6
      <4>2. m = 1 \/ s[m] = T[m - 1]
        BY <4>1, <1>3
      <4>3. QED
        BY <4>1, <4>2, <1>3, <1>5, <1>6 DEF Early, Moving
    <3>2. QED
      BY <3>1
  <2>2. 1 < Len(s) /\ s[1 + 1].op = "activate"
    BY <1>3, <1>6
  <2>3. QED
    BY <2>1, <2>2, <1>3, <1>5 DEF ShapeAt, AtLast
<1>8. ASSUME NEW i \in DOMAIN T PROVE ShapeAt(s, 1 + i)
  <2>1. /\ s[1 + i] = T[i] /\ ShapeAt(T, i) /\ T[i] \in Range(T) /\ T[i].op \in Early
        /\ T[i].op \notin AtFirst /\ i \in Nat \ {0} /\ i <= Len(T) /\ 1 + i \in DOMAIN s
    BY <1>1, <1>3, <1>6, <1>8 DEF Shape
  <2>2. T[i].op \in {"copy_open", "row", "record", "activate", "set"}
    BY <2>1 DEF Early, Moving, AtFirst
  <2>3. \A m \in DOMAIN s : s[m].op \in Early
    <3>1. ASSUME NEW m \in DOMAIN s PROVE s[m].op \in Early
      <4>1. m = 1 \/ (m - 1 \in 1..Len(T) /\ 1 + (m - 1) = m)
        BY <1>3, <1>6
      <4>2. m = 1 \/ s[m] = T[m - 1]
        BY <4>1, <1>3
      <4>3. QED
        BY <4>1, <4>2, <1>3, <1>5, <1>6 DEF Early, Moving
    <3>2. QED
      BY <3>1
  <2>4. T[i].op = "set" => 1 + i = Len(s)
    BY <2>1, <1>3, <1>6 DEF ShapeAt, AtLast
  <2>5. i < Len(T) => 1 + i < Len(s) /\ s[(1 + i) + 1] = T[i + 1]
    <3>1. SUFFICES ASSUME i < Len(T) PROVE 1 + i < Len(s) /\ s[(1 + i) + 1] = T[i + 1]
      OBVIOUS
    <3>2. i + 1 \in 1..Len(T) /\ 1 + (i + 1) = (1 + i) + 1 /\ 1 + i < Len(s)
      BY <3>1, <2>1, <1>3, <1>6
    <3>3. s[1 + (i + 1)] = T[i + 1]
      BY <3>2, <1>3
    <3>4. QED
      BY <3>2, <3>3
  <2>6. T[i].op = "row" => /\ 1 + i < Len(s) /\ s[(1 + i) + 1].op = "record"
                           /\ s[(1 + i) + 1].id = T[i].id /\ s[(1 + i) + 1].arg = T[i].arg
    BY <2>1, <2>5 DEF ShapeAt
  <2>7. T[i].op = "copy_open" => 1 + i < Len(s) /\ s[(1 + i) + 1].op = "activate"
    BY <2>1, <2>5 DEF ShapeAt
  <2>8. T[i].op = "activate" => s[(1 + i) - 1].op \in {"copy_open", "copy"}
    <3>1. CASE i = 1
      <4>1. (1 + i) - 1 = 1
        BY <3>1
      <4>2. QED
        BY <4>1, <1>3, <1>5
    <3>2. CASE i # 1
      <4>1. i - 1 \in 1..Len(T) /\ 1 + (i - 1) = (1 + i) - 1
        BY <3>2, <2>1, <1>6
      <4>2. s[1 + (i - 1)] = T[i - 1]
        BY <4>1, <1>3
      <4>3. QED
        BY <4>1, <4>2, <2>1, <3>2 DEF ShapeAt
    <3>3. QED
      BY <3>1, <3>2
  <2>9. T[i].op = "activate" => \A m \in DOMAIN s : m > 1 + i => s[m].op = "set"
    <3>1. SUFFICES ASSUME T[i].op = "activate", NEW m \in DOMAIN s, m > 1 + i PROVE s[m].op = "set"
      OBVIOUS
    <3>2. m - 1 \in 1..Len(T) /\ 1 + (m - 1) = m /\ m - 1 > i
      BY <3>1, <2>1, <1>3, <1>6
    <3>3. s[1 + (m - 1)] = T[m - 1]
      BY <3>2, <1>3
    <3>4. QED
      BY <3>1, <3>2, <3>3, <2>1, <1>6 DEF ShapeAt
  <2>10. QED
    BY <2>1, <2>2, <2>3, <2>4, <2>6, <2>7, <2>8, <2>9 DEF ShapeAt, AtLast
<1>9. Shape(s)
  <2>1. ASSUME NEW m \in DOMAIN s PROVE ShapeAt(s, m)
    <3>1. m = 1 \/ (m - 1 \in DOMAIN T /\ 1 + (m - 1) = m)
      BY <1>3, <1>6
    <3>2. m - 1 \in DOMAIN T => ShapeAt(s, 1 + (m - 1))
      BY <1>8
    <3>3. QED
      BY <3>1, <3>2, <1>7
  <2>2. QED
    BY <2>1 DEF Shape
<1>10. \A o \in Range(s) : IsOp(o, n, Len(rows))
  <2>1. TheId(p) \in Id /\ NameOf[TheId(p)] = n
    BY <1>1 DEF IsOp, OfObject, TheId, h
  <2>2. IsOp(c, n, Len(rows))
    BY <1>5, <2>1 DEF IsOp
  <2>3. QED
    BY <1>1, <1>3, <2>2 DEF Rest, T
<1>11. NewRun(p, Range(s))
  BY <1>1, <1>3, <1>4, <1>9, <1>10, Advance
<1>12. QED
  BY <1>3, <1>11 DEF Rest, T, c

LEMMA ActivateRun ==
    ASSUME Runs, Objects, NEW p \in Proc, Activate(p)
    PROVE  LET x == so[TheName(p)] IN
           IF x = NoSo THEN NewRun(p, {})
           ELSE NewRun(p, {Op("deactivate", x, 0), Op("row", x, 1), Op("record", x, 1)}
                            \cup Rest(p))
<1> DEFINE n == TheName(p)
           x == so[n]
           f == <<Op("deactivate", x, 0), Op("row", x, 1), Op("record", x, 1)>>
           T == Tail(run[p].todo)
           h == Head(run[p].todo)
<1>1. Busy(p) /\ h.op = "activate" /\ n \in Name /\ Follows(h, T)
  BY BusyFacts DEF Activate, At
<1>2. /\ IsSeq(f) /\ Shape(f)
      /\ Range(f) = {Op("deactivate", x, 0), Op("row", x, 1), Op("record", x, 1)}
  BY ShapeActivate
<1>3. CASE x = NoSo
  <2>1. Continue(p, <<>>)
    BY <1>3 DEF Activate
  <2>2. QED
    BY <1>1, <1>3, <2>1, Ended
<1>4. CASE x # NoSo
  <2>1. Then(p, f)
    BY <1>4 DEF Activate
  <2> HIDE DEF T, h, f
  <2>2. Fits(f, T)
    BY <1>1, <1>2 DEF Fits, Follows, Early, Moving, AtFirst, AtLast, Writing, Op
  <2>3. x \in Id => NameOf[x] = n
    BY <1>1 DEF Objects
  <2>4. \A o \in Range(f) : IsOp(o, n, Len(rows))
    BY <1>2, <2>3 DEF IsOp, Op, OfObject
  <2>5. NewRun(p, Range(f) \cup Rest(p))
    BY <1>1, <1>2, <2>1, <2>2, <2>4, Grafted DEF T
  <2>6. QED
    BY <1>2, <1>4, <2>5
<1>5. QED
  BY <1>3, <1>4

LEMMA DeactivateRun ==
    ASSUME Runs, Rows, NEW p \in Proc, Deactivate(p)
    PROVE  NewRun(p, {Op("off", TheId(p), [from |-> 1, to |-> Len(rows)])} \cup Rest(p))
<1> DEFINE n == TheName(p)
           w == [from |-> 1, to |-> Len(rows)]
           o == Op("off", TheId(p), w)
           f == <<o>>
           T == Tail(run[p].todo)
           h == Head(run[p].todo)
<1>1. /\ Busy(p) /\ h.op = "deactivate" /\ Follows(h, T) /\ IsOp(h, n, Len(rows))
  BY BusyFacts DEF Deactivate, At
<1>2. IsSeq(f) /\ Shape(f) /\ Range(f) = {o}
  BY ShapeOne DEF Op
<1>3. Then(p, f)
  BY DEF Deactivate
<1>4. w \in [from : Nat \ {0}, to : 0..Len(rows)]
  BY SeqFacts DEF Rows
<1>5. o = [op |-> "off", id |-> h.id, arg |-> w]
  BY DEF Op, TheId
<1> HIDE DEF T, h, f, o, w
<1>6. Fits(f, T)
  BY <1>1, <1>2, <1>5 DEF Fits, Follows, Early, Moving, AtFirst, AtLast, Writing
<1>7. IsOp(o, n, Len(rows))
  BY <1>1, <1>4, <1>5 DEF IsOp, OfObject
<1>8. NewRun(p, Range(f) \cup Rest(p))
  BY <1>1, <1>2, <1>3, <1>6, <1>7, Grafted DEF T
<1>9. QED
  BY <1>2, <1>8 DEF o, w

(* The rows of the name that p has still to switch off. *)
OtherRows(p) == {k \in Arg(p).from..Arg(p).to :
               rows[k].name = TheName(p) /\ rows[k].id # TheId(p)}

LEMMA SwitchOffRun ==
    ASSUME Runs, Rows, NEW p \in Proc, SwitchOff(p)
    PROVE  IF OtherRows(p) = {} THEN NewRun(p, Rest(p))
           ELSE /\ Min(OtherRows(p)) \in OtherRows(p) /\ \A k \in OtherRows(p) : Min(OtherRows(p)) <= k
                /\ OtherRows(p) \subseteq DOMAIN rows
                /\ NewRun(p, {Op("row", rows[Min(OtherRows(p))].id, 0),
                              Op("record", rows[Min(OtherRows(p))].id, 0),
                              Op("off", TheId(p), [from |-> Min(OtherRows(p)) + 1, to |-> Arg(p).to])}
                             \cup Rest(p))
<1> DEFINE n == TheName(p)
           m == Min(OtherRows(p))
           x == rows[m].id
           w == [Arg(p) EXCEPT !.from = m + 1]
           f == <<Op("row", x, 0), Op("record", x, 0), Op("off", TheId(p), w)>>
           T == Tail(run[p].todo)
           h == Head(run[p].todo)
<1>1. /\ Busy(p) /\ h.op = "off" /\ Follows(h, T) /\ IsOp(h, n, Len(rows)) /\ n \in Name
  BY BusyFacts DEF SwitchOff, At
<1>2. CASE OtherRows(p) = {}
  <2>1. Then(p, <<>>)
    BY <1>2 DEF SwitchOff, OtherRows
  <2>2. QED
    BY <1>1, <1>2, <2>1, Popped
<1>3. CASE OtherRows(p) # {}
  <2>1. Then(p, f)
    BY <1>3 DEF SwitchOff, OtherRows
  <2>2. Arg(p) \in [from : Nat \ {0}, to : 0..Len(rows)]
    BY <1>1 DEF IsOp, Arg
  <2>3. /\ DOMAIN rows = 1..Len(rows) /\ Len(rows) \in Nat
        /\ \A k \in DOMAIN rows : IsRow(rows[k])
    BY SeqFacts DEF Rows
  <2>4. OtherRows(p) \subseteq DOMAIN rows /\ OtherRows(p) \subseteq Nat
    BY <2>2, <2>3 DEF OtherRows
  <2>5. m \in OtherRows(p) /\ \A k \in OtherRows(p) : m <= k
    BY <2>4, <1>3, MinFacts
  <2>6. m \in DOMAIN rows /\ m \in Nat /\ rows[m].name = n /\ IsRow(rows[m])
    BY <2>3, <2>4, <2>5 DEF OtherRows
  <2> HIDE DEF m
  <2>7. x \in Id /\ NameOf[x] = n
    BY <2>6 DEF IsRow
  <2>8. /\ w = [from |-> m + 1, to |-> Arg(p).to]
        /\ w \in [from : Nat \ {0}, to : 0..Len(rows)]
    BY <2>2, <2>6
  <2>9. /\ IsSeq(f) /\ Shape(f)
        /\ Range(f) = {Op("row", x, 0), Op("record", x, 0), Op("off", TheId(p), w)}
    BY ShapeRowOff
  <2>10. TheId(p) = h.id
    BY DEF TheId
  <2> HIDE DEF T, h, f, w, x
  <2>11. Fits(f, T)
    BY <1>1, <2>9 DEF Fits, Follows, Early, Moving, AtFirst, AtLast, Writing, Op
  <2>12. /\ IsOp(Op("row", x, 0), n, Len(rows)) /\ IsOp(Op("record", x, 0), n, Len(rows))
    BY <2>7 DEF IsOp, OfObject, Op
  <2>13. IsOp(Op("off", TheId(p), w), n, Len(rows))
    BY <1>1, <2>8, <2>10 DEF IsOp, OfObject, Op
  <2>14. NewRun(p, Range(f) \cup Rest(p))
    BY <1>1, <2>1, <2>9, <2>11, <2>12, <2>13, Grafted DEF T
  <2>15. QED
    BY <1>3, <2>4, <2>5, <2>8, <2>9, <2>14 DEF m, x
<1>4. QED
  BY <1>2, <1>3

LEMMA WriteOpenRun ==
    ASSUME Runs, NEW p \in Proc, WriteOpen(p)
    PROVE  NewRun(p, {Op("write", TheId(p), Arg(p))} \cup Rest(p))
<1> DEFINE n == TheName(p)
           o == Op("write", TheId(p), Arg(p))
           f == <<o>>
           T == Tail(run[p].todo)
           h == Head(run[p].todo)
<1>1. /\ Busy(p) /\ h.op = "write_open" /\ Follows(h, T) /\ IsOp(h, n, Len(rows))
  BY BusyFacts DEF WriteOpen, At
<1>2. IsSeq(f) /\ Shape(f) /\ Range(f) = {o}
  BY ShapeOne DEF Op
<1>3. Then(p, f)
  BY DEF WriteOpen
<1>5. o = [op |-> "write", id |-> h.id, arg |-> h.arg]
  BY DEF Op, TheId, Arg
<1> HIDE DEF T, h, f, o
<1>6. Fits(f, T)
  BY <1>1, <1>2, <1>5 DEF Fits, Follows, Early, Moving, AtFirst, AtLast, Writing
<1>7. IsOp(o, n, Len(rows))
  BY <1>1, <1>5 DEF IsOp, OfObject
<1>8. NewRun(p, Range(f) \cup Rest(p))
  BY <1>1, <1>2, <1>3, <1>6, <1>7, Grafted DEF T
<1>9. QED
  BY <1>2, <1>8 DEF o

LEMMA AppendBeginRun ==
    ASSUME Runs, NEW p \in Proc, AppendBegin(p)
    PROVE  NewRun(p, {Op("append_end", TheId(p), 0)} \cup Rest(p))
<1> DEFINE n == TheName(p)
           o == Op("append_end", TheId(p), 0)
           f == <<o>>
           T == Tail(run[p].todo)
           h == Head(run[p].todo)
<1>1. /\ Busy(p) /\ h.op = "append" /\ Follows(h, T) /\ IsOp(h, n, Len(rows))
  BY BusyFacts DEF AppendBegin, At
<1>2. IsSeq(f) /\ Shape(f) /\ Range(f) = {o}
  BY ShapeOne DEF Op
<1>3. Then(p, f)
  BY DEF AppendBegin
<1>5. o = [op |-> "append_end", id |-> h.id, arg |-> 0]
  BY DEF Op, TheId
<1> HIDE DEF T, h, f, o
<1>6. Fits(f, T)
  BY <1>1, <1>2, <1>5 DEF Fits, Follows, Early, Moving, AtFirst, AtLast, Writing
<1>7. IsOp(o, n, Len(rows))
  BY <1>1, <1>5 DEF IsOp, OfObject
<1>8. NewRun(p, Range(f) \cup Rest(p))
  BY <1>1, <1>2, <1>3, <1>6, <1>7, Grafted DEF T
<1>9. QED
  BY <1>2, <1>8 DEF o

LEMMA FreshIsRec == IsRec(FreshRecord) /\ FreshRecord.active = 1
  BY DEF IsRec, FreshRecord

LEMMA RegisterRun ==
    ASSUME Runs, NEW p \in Proc, At(p, "resolve"), Then(p, RegisterNew(TheId(p)))
    PROVE  NewRun(p, {Op("write_open", TheId(p), FreshRecord), Op("append", TheId(p), 0),
                      Op("deactivate", TheId(p), 0)} \cup Rest(p))
<1> DEFINE n == TheName(p)
           x == TheId(p)
           f == RegisterNew(x)
           T == Tail(run[p].todo)
           h == Head(run[p].todo)
<1>1. /\ Busy(p) /\ h.op = "resolve" /\ Follows(h, T) /\ IsOp(h, n, Len(rows))
  BY BusyFacts DEF At
<1>2. /\ IsSeq(f) /\ Shape(f)
      /\ Range(f) = {Op("write_open", x, FreshRecord), Op("append", x, 0), Op("deactivate", x, 0)}
  BY ShapeRegisterNew
<1>3. x \in Id /\ NameOf[x] = n
  BY <1>1 DEF IsOp, OfObject, TheId
<1> HIDE DEF T, h, f, x
<1>4. Fits(f, T)
  BY <1>1, <1>2 DEF Fits, Follows, Early, Moving, AtFirst, AtLast, Writing, Op
<1>5. \A o \in Range(f) : IsOp(o, n, Len(rows))
  BY <1>2, <1>3, FreshIsRec DEF IsOp, OfObject, Op
<1>6. NewRun(p, Range(f) \cup Rest(p))
  BY <1>1, <1>2, <1>4, <1>5, Grafted DEF T, f, x
<1>7. QED
  BY <1>2, <1>6 DEF x

LEMMA ReregisterRun ==
    ASSUME Runs, NEW p \in Proc, At(p, "resolve"), Then(p, Reregister(TheId(p)))
    PROVE  NewRun(p, {Op("write_open", TheId(p), FreshRecord), Op("deactivate", TheId(p), 0),
                      Op("row", TheId(p), 1), Op("record", TheId(p), 1),
                      Op("utc", TheId(p), 0)} \cup Rest(p))
<1> DEFINE n == TheName(p)
           x == TheId(p)
           f == Reregister(x)
           T == Tail(run[p].todo)
           h == Head(run[p].todo)
<1>1. /\ Busy(p) /\ h.op = "resolve" /\ Follows(h, T) /\ IsOp(h, n, Len(rows))
  BY BusyFacts DEF At
<1>2. /\ IsSeq(f) /\ Shape(f)
      /\ Range(f) = {Op("write_open", x, FreshRecord), Op("deactivate", x, 0),
                     Op("row", x, 1), Op("record", x, 1), Op("utc", x, 0)}
  BY ShapeReregister
<1>3. x \in Id /\ NameOf[x] = n
  BY <1>1 DEF IsOp, OfObject, TheId
<1> HIDE DEF T, h, f, x
<1>4. Fits(f, T)
  BY <1>1, <1>2 DEF Fits, Follows, Early, Moving, AtFirst, AtLast, Writing, Op
<1>5. \A o \in Range(f) : IsOp(o, n, Len(rows))
  BY <1>2, <1>3, FreshIsRec DEF IsOp, OfObject, Op
<1>6. NewRun(p, Range(f) \cup Rest(p))
  BY <1>1, <1>2, <1>4, <1>5, Grafted DEF T, f, x
<1>7. QED
  BY <1>2, <1>6 DEF x

LEMMA SetBeginRun ==
    ASSUME Runs, Objects, NEW p \in Proc, SetBegin(p)
    PROVE  LET x == so[TheName(p)] IN
           /\ Rest(p) = {}
           /\ IF x \in Id
                THEN NewRun(p, {Op("resolve", x, 0), Op("set_keys", x, ListOk /\ HasRow(x))})
                ELSE NewRun(p, {})
<1> DEFINE n == TheName(p)
           x == so[n]
           v == ListOk /\ HasRow(x)
           f == <<Op("resolve", x, 0), Op("set_keys", x, v)>>
           T == Tail(run[p].todo)
           h == Head(run[p].todo)
<1>1. Busy(p) /\ h.op = "set" /\ n \in Name /\ Follows(h, T) /\ (Rest(p) = {} <=> T = <<>>)
  BY BusyFacts DEF SetBegin, At
<1>2. IsSeq(f) /\ Shape(f) /\ Range(f) = {Op("resolve", x, 0), Op("set_keys", x, v)}
  BY ShapeSet
<1>3. T = <<>> /\ Rest(p) = {}
  BY <1>1 DEF Follows, AtLast
<1>4. CASE x \notin Id
  <2>1. Continue(p, <<>>)
    BY <1>4 DEF SetBegin
  <2>2. QED
    BY <1>1, <1>3, <1>4, <2>1, Ended
<1>5. CASE x \in Id
  <2>1. Then(p, f)
    BY <1>5 DEF SetBegin
  <2>2. NameOf[x] = n
    BY <1>1, <1>5 DEF Objects
  <2> HIDE DEF T, h, f, v
  <2>3. Fits(f, T)
    BY <1>2, <1>3, EmptyTuple DEF Fits, Moving, Op
  <2>4. \A o \in Range(f) : IsOp(o, n, Len(rows))
    BY <1>2, <1>5, <2>2 DEF IsOp, Op, OfObject
  <2>5. NewRun(p, Range(f) \cup Rest(p))
    BY <1>1, <1>2, <2>1, <2>3, <2>4, Grafted DEF T
  <2>6. QED
    BY <1>2, <1>3, <1>5, <2>5 DEF v
<1>6. QED
  BY <1>4, <1>5

LEMMA SetKeysRun ==
    ASSUME Runs, NEW p \in Proc, SetKeys(p)
    PROVE  /\ Rest(p) = {}
           /\ \/ NewRun(p, {})
              \/ NewRun(p, {Op("set_key", TheId(p), k) : k \in DOMAIN Pairs})
<1> DEFINE n == TheName(p)
           x == TheId(p)
           f == [k \in DOMAIN Pairs |-> Op("set_key", x, k)]
           T == Tail(run[p].todo)
           h == Head(run[p].todo)
<1>1. /\ Busy(p) /\ h.op = "set_keys" /\ Follows(h, T) /\ (Rest(p) = {} <=> T = <<>>)
      /\ IsOp(h, n, Len(rows))
  BY BusyFacts DEF SetKeys, At
<1>2. IsSeq(f) /\ Shape(f) /\ Range(f) = {Op("set_key", x, k) : k \in DOMAIN Pairs}
  BY ShapeKeys
<1>3. T = <<>> /\ Rest(p) = {}
  BY <1>1 DEF Follows, AtLast
<1>4. CASE Then(p, <<>>)
  BY <1>1, <1>3, <1>4, Popped
<1>5. CASE Then(p, f)
  <2>1. x \in Id /\ NameOf[x] = n
    BY <1>1 DEF IsOp, OfObject, TheId
  <2> HIDE DEF T, h, f, x
  <2>2. \A o \in Range(f) : o.op = "set_key"
    BY <1>2 DEF Op
  <2>3. Fits(f, T)
    BY <1>3, <2>2, EmptyTuple DEF Fits, Moving
  <2>4. \A o \in Range(f) : IsOp(o, n, Len(rows))
    BY <1>2, <2>1 DEF IsOp, Op, OfObject
  <2>5. NewRun(p, Range(f) \cup Rest(p))
    BY <1>1, <1>2, <1>5, <2>3, <2>4, Grafted DEF T
  <2>6. QED
    BY <1>2, <1>3, <2>5 DEF x
<1>6. Then(p, <<>>) \/ Then(p, f)
  BY DEF SetKeys
<1>7. QED
  BY <1>4, <1>5, <1>6

LEMMA SetKeyRun ==
    ASSUME Runs, Records, NEW p \in Proc, SetKey(p)
    PROVE  LET x == TheId(p) IN
           IF rec[x].whole
             THEN \E r : /\ IsRec(r) /\ r.active = rec[x].active
                         /\ NewRun(p, {Op("write_open", x, r)} \cup Rest(p))
             ELSE NewRun(p, {})
<1> DEFINE n == TheName(p)
           x == TheId(p)
           pair == Pairs[Arg(p)]
           r == [rec[x] EXCEPT !.meta = UpdateMetaKey(@, pair.sec, pair.key, pair.val),
                               !.told = Arg(p) = Len(Pairs)]
           o == Op("write_open", x, r)
           f == <<o>>
           T == Tail(run[p].todo)
           h == Head(run[p].todo)
<1>1. /\ Busy(p) /\ h.op = "set_key" /\ Follows(h, T) /\ IsOp(h, n, Len(rows))
  BY BusyFacts DEF SetKey, At
<1>2. CASE ~rec[x].whole
  <2>1. Continue(p, <<>>)
    BY <1>2 DEF SetKey
  <2>2. QED
    BY <1>1, <1>2, <2>1, Ended
<1>3. CASE rec[x].whole
  <2>1. Then(p, f)
    BY <1>3 DEF SetKey
  <2>2. x \in Id /\ NameOf[x] = n
    BY <1>1 DEF IsOp, OfObject, TheId
  <2>3. IsRec(rec[x])
    BY <2>2 DEF Records
  <2>4. IsRec(r) /\ r.active = rec[x].active
    BY <2>3 DEF IsRec
  <2> HIDE DEF r
  <2>5. IsSeq(f) /\ Shape(f) /\ Range(f) = {o}
    BY ShapeOne DEF Op
  <2>6. o = [op |-> "write_open", id |-> x, arg |-> r]
    BY DEF Op
  <2> HIDE DEF T, h, f, x, o
  <2>7. Fits(f, T)
    BY <1>1, <2>5, <2>6 DEF Fits, Follows, Early, Moving, AtFirst, AtLast, Writing
  <2>8. IsOp(o, n, Len(rows))
    BY <2>2, <2>4, <2>6 DEF IsOp, OfObject
  <2>9. NewRun(p, Range(f) \cup Rest(p))
    BY <1>1, <2>1, <2>5, <2>7, <2>8, Grafted DEF T
  <2>10. QED
    BY <1>3, <2>4, <2>5, <2>9 DEF o, x
<1>4. QED
  BY <1>2, <1>3

-----------------------------------------------------------------------------
(* Types are kept *)

LEMMA RowFacts ==
    ASSUME Rows
    PROVE  /\ Len(rows) \in Nat /\ DOMAIN rows = 1..Len(rows) /\ IsSeq(rows)
           /\ \A k \in DOMAIN rows :
                /\ k \in Nat /\ rows[k].id \in Id /\ rows[k].name = NameOf[rows[k].id]
                /\ rows[k].active \in {0, 1} /\ IsRow(rows[k])
  BY SeqFacts DEF Rows, IsRow

LEMMA FirstRowFacts ==
    ASSUME Rows, NEW x, HasRow(x)
    PROVE  FirstRow(x) \in DOMAIN rows /\ rows[FirstRow(x)].id = x
<1> DEFINE S == {k \in DOMAIN rows : rows[k].id = x}
<1>1. S \subseteq Nat /\ S # {}
  BY RowFacts DEF HasRow
<1>2. FirstRow(x) = Min(S)
  BY DEF FirstRow
<1>3. Min(S) \in S
  <2> HIDE DEF S
  <2>1. QED
    BY <1>1, MinFacts
<1>4. QED
  BY <1>2, <1>3

(* Rows change in place. *)
SameRows ==
    /\ IsSeq(rows') /\ Len(rows') = Len(rows) /\ DOMAIN rows' = DOMAIN rows
    /\ \A k \in DOMAIN rows : /\ rows'[k].id = rows[k].id /\ rows'[k].name = rows[k].name
                              /\ IsRow(rows'[k])

LEMMA SameRowsIfUnchanged == ASSUME Rows, rows' = rows PROVE SameRows
  BY DEF SameRows, Rows

LEMMA RowChanged ==
    ASSUME Rows, NEW j \in DOMAIN rows, NEW r, IsRow(r), r.id = rows[j].id,
           rows' = [rows EXCEPT ![j] = r]
    PROVE  SameRows /\ rows'[j] = r /\ \A k \in DOMAIN rows : k # j => rows'[k] = rows[k]
<1>1. /\ Len(rows) \in Nat /\ DOMAIN rows = 1..Len(rows) /\ IsSeq(rows)
      /\ \A k \in DOMAIN rows : IsRow(rows[k]) /\ rows[k].name = NameOf[rows[k].id]
  BY RowFacts
<1>2. rows \in Seq(Range(rows) \cup {r})
  BY <1>1 DEF IsSeq
<1>3. /\ rows' \in Seq(Range(rows) \cup {r}) /\ Len(rows') = Len(rows)
      /\ DOMAIN rows' = DOMAIN rows /\ rows'[j] = r
      /\ \A k \in DOMAIN rows : k # j => rows'[k] = rows[k]
  BY <1>1, <1>2
<1>4. IsSeq(rows')
  BY <1>3, SeqOver
<1>5. r.name = rows[j].name
  BY <1>1 DEF IsRow
<1>6. QED
  BY <1>1, <1>3, <1>4, <1>5 DEF SameRows

LEMMA PatchRowRows ==
    ASSUME Types, NEW p \in Proc, PatchRow(p)
    PROVE  /\ SameRows
           /\ \A k \in DOMAIN rows :
                rows'[k].active = IF rows[k].id = TheId(p) /\ k = FirstRow(TheId(p))
                                  THEN Arg(p) ELSE rows[k].active
<1> DEFINE x == TheId(p)
<1>1. Arg(p) \in {0, 1} /\ Rows
  BY BusyFacts DEF PatchRow, At, IsOp, Arg, Types
<1>2. CASE ~HasRow(x)
  <2>1. rows' = rows
    BY <1>2 DEF PatchRow
  <2>2. \A k \in DOMAIN rows : rows[k].id # x
    BY <1>2 DEF HasRow
  <2>3. QED
    BY <1>1, <2>1, <2>2, SameRowsIfUnchanged
<1>3. CASE HasRow(x)
  <2> DEFINE j == FirstRow(x)
             r == [rows[j] EXCEPT !.active = Arg(p)]
  <2>1. rows' = [rows EXCEPT ![j] = r]
    BY <1>3 DEF PatchRow
  <2>2. j \in DOMAIN rows /\ rows[j].id = x /\ IsRow(rows[j])
    BY <1>1, <1>3, FirstRowFacts, RowFacts
  <2>3. IsRow(r) /\ r.id = rows[j].id /\ r.active = Arg(p)
    BY <1>1, <2>2 DEF IsRow
  <2> HIDE DEF r, j
  <2>4. SameRows /\ rows'[j] = r /\ \A k \in DOMAIN rows : k # j => rows'[k] = rows[k]
    BY <1>1, <2>1, <2>2, <2>3, RowChanged
  <2>5. QED
    BY <2>2, <2>3, <2>4 DEF j
<1>4. QED
  BY <1>2, <1>3

LEMMA PatchUtcRows ==
    ASSUME Types, NEW p \in Proc, PatchUtc(p)
    PROVE  SameRows /\ \A k \in DOMAIN rows : rows'[k].active = rows[k].active
<1> DEFINE x == TheId(p)
<1>1. Rows
  BY DEF Types
<1>2. CASE ~HasRow(x)
  <2>1. rows' = rows
    BY <1>2 DEF PatchUtc
  <2>2. QED
    BY <1>1, <2>1, SameRowsIfUnchanged
<1>3. CASE HasRow(x)
  <2> DEFINE j == FirstRow(x)
             r == [rows[j] EXCEPT !.utc = "override"]
  <2>1. rows' = [rows EXCEPT ![j] = r]
    BY <1>3 DEF PatchUtc
  <2>2. j \in DOMAIN rows /\ IsRow(rows[j])
    BY <1>1, <1>3, FirstRowFacts, RowFacts
  <2>3. IsRow(r) /\ r.id = rows[j].id /\ r.active = rows[j].active
    BY <2>2 DEF IsRow
  <2> HIDE DEF r, j
  <2>4. SameRows /\ rows'[j] = r /\ \A k \in DOMAIN rows : k # j => rows'[k] = rows[k]
    BY <1>1, <2>1, <2>2, <2>3, RowChanged
  <2>5. QED
    BY <2>3, <2>4
<1>4. QED
  BY <1>2, <1>3

LEMMA RunsKept ==
    ASSUME NEW p \in Proc, NEW I, NewRun(p, I), Len(rows') = Len(rows)
    PROVE  Runs'
  BY DEF NewRun, Runs

LEMMA RowsKept == ASSUME SameRows PROVE Rows'
  BY DEF SameRows, Rows

LEMMA FaultsKept ==
    ASSUME Faults, NEW n, NEW what, Disturb(n, what)
    PROVE  fault' = [m \in Name |-> fault'[m]]
  BY DEF Faults, Disturb

(* A step that leaves objects, rows and records alone. *)
LEMMA TypesIfRun ==
    ASSUME Types, NEW p \in Proc, NEW I, NewRun(p, I), UNCHANGED <<so, rows, rec>>,
           fault' = [m \in Name |-> fault'[m]], broken' \in BOOLEAN
    PROVE  Types'
<1>1. Runs'
  BY RunsKept
<1>2. Objects' /\ Rows' /\ Records'
  BY DEF Types, Objects, Rows, Records
<1>3. QED
  BY <1>1, <1>2 DEF Types, Faults

LEMMA StartRun ==
    ASSUME Types, NEW p \in Proc, NEW cmd, NEW n \in Name, NEW override \in BOOLEAN,
           NEW todo, Start(p, cmd, n, override, todo), IsSeq(todo), Shape(todo),
           \A o \in Range(todo) : IsOp(o, n, Len(rows))
    PROVE  /\ Types' /\ \A q \in Proc \ {p} : run'[q] = run[q]
           /\ run'[p].cmd = cmd /\ run'[p].name = n /\ run'[p].override = override
           /\ run'[p].todo = todo
<1> DEFINE r == [cmd |-> cmd, name |-> n, override |-> override, todo |-> todo]
<1>1. /\ run = [q \in Proc |-> run[q]] /\ \A q \in Proc : IsRun(run[q], Len(rows))
      /\ fault = [m \in Name |-> fault[m]] /\ broken \in BOOLEAN
  BY DEF Types, Runs, Faults
<1>2. run' = [run EXCEPT ![p] = r] /\ UNCHANGED <<so, rows, rec, broken>>
  BY DEF Start
<1>3. fault' = [m \in Name |-> fault'[m]]
  BY <1>1 DEF Start
<1>4. IsRun(r, Len(rows))
  BY DEF IsRun
<1>5. r.cmd = cmd /\ r.name = n /\ r.override = override /\ r.todo = todo
  OBVIOUS
<1> HIDE DEF r
<1>6. /\ run' = [q \in Proc |-> run'[q]] /\ run'[p] = r
      /\ \A q \in Proc \ {p} : run'[q] = run[q]
  BY <1>1, <1>2
<1>7. Runs'
  BY <1>1, <1>2, <1>4, <1>6 DEF Runs
<1>8. Objects' /\ Rows' /\ Records' /\ Faults'
  BY <1>1, <1>2, <1>3 DEF Types, Objects, Rows, Records, Faults
<1>9. QED
  BY <1>5, <1>6, <1>7, <1>8 DEF Types

-----------------------------------------------------------------------------
(* A step of p, or of none of the processes, on the name n leaves the other names alone *)

Frame(p, n) ==
    /\ \A m \in Name \ {n} : so'[m] = so[m] /\ fault'[m] = fault[m]
    /\ \A m \in Name \ {n} : /\ RowsOf(m)' = RowsOf(m)
                            /\ \A k \in RowsOf(m) : rows'[k] = rows[k]
    /\ \A i \in Id : NameOf[i] # n => rec'[i] = rec[i]
    /\ \A q \in Proc \ {p} : run'[q] = run[q]
    /\ p \in Proc => /\ run'[p].todo # <<>> => run'[p].name = n
                     /\ run[p].todo # <<>> => run[p].name = n
    /\ broken => broken'

LEMMA RowOfName ==
    ASSUME Rows, NEW x \in Id
    PROVE  HasRow(x) <=> \E k \in RowsOf(NameOf[x]) : rows[k].id = x
  BY RowFacts DEF HasRow, RowsOf

LEMMA OtherNames ==
    ASSUME Types, Types', NEW p, NEW n \in Name, Frame(p, n),
           NEW m \in Name, m # n, Ordered(m), Orderly(m)
    PROVE  Ordered(m)' /\ Orderly(m)'
<1>1. /\ so'[m] = so[m] /\ fault'[m] = fault[m] /\ RowsOf(m)' = RowsOf(m)
      /\ \A k \in RowsOf(m) : rows'[k] = rows[k]
      /\ broken => broken'
  BY DEF Frame
<1>2. \A q \in Proc : Owns(q, m)' => Owns(q, m) /\ run'[q] = run[q]
  BY DEF Frame, Owns, Busy, TheName
<1>3. \A q \in Proc : Owns(q, m) => Owns(q, m)' /\ run'[q] = run[q]
  BY DEF Frame, Owns, Busy, TheName
<1>4. \A x \in Id : NameOf[x] = m => rec'[x] = rec[x]
  BY DEF Frame
<1>5. \A x \in Id : NameOf[x] = m => (HasRow(x)' <=> HasRow(x))
  <2>1. ASSUME NEW x \in Id, NameOf[x] = m PROVE HasRow(x)' <=> HasRow(x)
    <3>1. HasRow(x) <=> \E k \in RowsOf(m) : rows[k].id = x
      BY <2>1, RowOfName DEF Types
    <3>2. HasRow(x)' <=> \E k \in RowsOf(m)' : rows'[k].id = x
      <4>1. Rows'
        BY DEF Types
      <4>2. \A k \in DOMAIN rows' : IsRow(rows'[k])
        BY <4>1 DEF Rows
      <4>3. \A k \in DOMAIN rows' : rows'[k].id = x => rows'[k].name = m
        BY <4>2, <2>1 DEF IsRow
      <4>4. QED
        BY <4>3 DEF HasRow, RowsOf
    <3>3. QED
      BY <1>1, <3>1, <3>2
  <2>2. QED
    BY <2>1
<1>6. \A q \in Proc : Owns(q, m) =>
        \A o \in Items(q) : o.op \in OfObject => o.id \in Id /\ NameOf[o.id] = m
  BY BusyFacts DEF Types, Owns, IsOp
<1>7. \A k \in RowsOf(m) : rows[k].id \in Id /\ NameOf[rows[k].id] = m
  BY RowFacts DEF RowsOf, Types
<1>8. so[m] \in Id => NameOf[so[m]] = m
  BY DEF Types, Objects
<1>9. Ordered(m)'
  <2>1. SUFFICES ASSUME Calm(m)'
                 PROVE  /\ Single(m)' /\ Unique(m)'
                        /\ \A q \in Proc : Owns(q, m)' =>
                             (Aimed(q, m) /\ NotListed(q) /\ Covers(q, m) /\ Gentle(q, m))'
    BY DEF Ordered
  <2>2. /\ Single(m) /\ Unique(m)
        /\ \A q \in Proc : Owns(q, m) =>
             Aimed(q, m) /\ NotListed(q) /\ Covers(q, m) /\ Gentle(q, m)
    BY <2>1, <1>1 DEF Ordered, Calm
  <2>3. Single(m)'
    BY <2>2, <1>2 DEF Single
  <2>4. Unique(m)'
    BY <2>2, <1>1 DEF Unique
  <2>5. ASSUME NEW q \in Proc, Owns(q, m)'
        PROVE  (Aimed(q, m) /\ NotListed(q) /\ Covers(q, m) /\ Gentle(q, m))'
    <3>1. Owns(q, m) /\ run'[q] = run[q] /\ Items(q)' = Items(q)
      BY <2>5, <1>2 DEF Items
    <3>2. Aimed(q, m)'
      BY <3>1, <2>2, <1>1 DEF Aimed
    <3>3. NotListed(q)'
      <4>1. \A o \in Items(q) : o.op \in Appends => o.id \in Id /\ NameOf[o.id] = m
        BY <3>1, <1>6 DEF Appends, OfObject
      <4>2. QED
        BY <3>1, <2>2, <4>1, <1>5 DEF NotListed
    <3>4. Covers(q, m)'
      BY <3>1, <2>2, <1>1 DEF Covers
    <3>5. Gentle(q, m)'
      BY <3>1, <2>2, <1>1 DEF Gentle, ActiveRows
    <3>6. QED
      BY <3>2, <3>3, <3>4, <3>5
  <2>6. QED
    BY <2>3, <2>4, <2>5
<1>10. Orderly(m)'
  <2>1. SUFFICES ASSUME Quiet(m)'
                 PROVE  /\ \A k \in RowsOf(m)' : Right(m, k)'
                        /\ \A q \in Proc : Owns(q, m)' =>
                             (Meant(q, m) /\ Writes(q) /\ Written(q) /\ Installed(q, m))'
    BY DEF Orderly
  <2>2. /\ \A k \in RowsOf(m) : Right(m, k)
        /\ \A q \in Proc : Owns(q, m) =>
             Meant(q, m) /\ Writes(q) /\ Written(q) /\ Installed(q, m)
    BY <2>1, <1>1 DEF Orderly, Quiet
  <2>3. ASSUME NEW k \in RowsOf(m)' PROVE Right(m, k)'
    <3>1. k \in RowsOf(m) /\ rows'[k] = rows[k] /\ rec'[rows[k].id] = rec[rows[k].id]
      BY <2>3, <1>1, <1>4, <1>7
    <3>2. CASE Done(m, k)
      <4>1. Done(m, k)'
        BY <3>1, <3>2, <1>1 DEF Done, Want
      <4>2. QED
        BY <4>1 DEF Right
    <3>3. ASSUME NEW q \in Proc, Owns(q, m), WillDo(q, m, k) PROVE Right(m, k)'
      <4>1. Owns(q, m)' /\ run'[q] = run[q] /\ Items(q)' = Items(q)
        BY <3>3, <1>3 DEF Items
      <4>2. WillDo(q, m, k)'
        BY <4>1, <3>1, <3>3, <1>1, <1>5, <1>8 DEF WillDo, Want
      <4>3. QED
        BY <4>1, <4>2 DEF Right
    <3>4. QED
      BY <2>2, <3>1, <3>2, <3>3 DEF Right
  <2>4. ASSUME NEW q \in Proc, Owns(q, m)'
        PROVE  (Meant(q, m) /\ Writes(q) /\ Written(q) /\ Installed(q, m))'
    <3>1. Owns(q, m) /\ run'[q] = run[q] /\ Items(q)' = Items(q)
      BY <2>4, <1>2 DEF Items
    <3>2. Meant(q, m)'
      BY <3>1, <2>2, <1>1 DEF Meant, Want
    <3>3. Writes(q)'
      <4>1. \A o \in Items(q) : o.op \in Writing => o.id \in Id /\ NameOf[o.id] = m
        BY <3>1, <1>6 DEF Writing, OfObject
      <4>2. QED
        BY <3>1, <2>2, <4>1, <1>5 DEF Writes
    <3>4. Written(q)'
      <4>1. \A o \in Items(q) : o.op \in Appends => o.id \in Id /\ NameOf[o.id] = m
        BY <3>1, <1>6 DEF Appends, OfObject
      <4>2. QED
        BY <3>1, <2>2, <4>1, <1>4 DEF Written
    <3>5. Installed(q, m)'
      BY <3>1, <2>2, <1>1 DEF Installed
    <3>6. QED
      BY <3>2, <3>3, <3>4, <3>5
  <2>5. QED
    BY <2>3, <2>4
<1>11. QED
  BY <1>9, <1>10

-----------------------------------------------------------------------------
(* The name a step works on *)

OwnOrdered(p, n) == Aimed(p, n) /\ NotListed(p) /\ Covers(p, n) /\ Gentle(p, n)
OwnOrderly(p, n) == Meant(p, n) /\ Writes(p) /\ Written(p) /\ Installed(p, n)

(* What a process at work on a name may count on. *)
LEMMA Before ==
    ASSUME IInv, NEW p \in Proc, Busy(p), NEW n, n = TheName(p)
    PROVE  /\ n \in Name
           /\ Calm(n) => Single(n) /\ Unique(n) /\ OwnOrdered(p, n)
           /\ Quiet(n) => /\ Calm(n) /\ OwnOrderly(p, n)
                          /\ \A k \in RowsOf(n) : Done(n, k) \/ WillDo(p, n, k)
<1>1. n \in Name /\ Owns(p, n) /\ Ordered(n) /\ Orderly(n)
  BY BusyFacts DEF IInv, Types, Owns
<1>2. Calm(n) => Single(n) /\ Unique(n) /\ OwnOrdered(p, n)
  BY <1>1 DEF Ordered, OwnOrdered
<1>3. Quiet(n) => Calm(n)
  BY DEF Quiet, Calm
<1>4. Quiet(n) => OwnOrderly(p, n) /\ \A k \in RowsOf(n) : Right(n, k)
  BY <1>1 DEF Orderly, OwnOrderly
<1>5. Quiet(n) => \A k \in RowsOf(n) : Done(n, k) \/ WillDo(p, n, k)
  BY <1>1, <1>2, <1>3, <1>4 DEF Right, Single
<1>6. QED
  BY <1>1, <1>2, <1>3, <1>4, <1>5

LEMMA RunItems ==
    ASSUME NEW p, NEW I, NewRun(p, I)
    PROVE  /\ Items(p)' = I
           /\ I # {} => run'[p].cmd = run[p].cmd /\ run'[p].override = run[p].override
<1>1. Range(run'[p].todo) = I
  BY DEF NewRun
<1>2. I # {} => run'[p].todo # <<>>
  BY <1>1, EmptyTuple
<1>3. QED
  BY <1>1, <1>2 DEF NewRun, Items

LEMMA StepInv ==
    ASSUME IInv, NEW p \in Proc, Busy(p), NEW n, n = TheName(p), Types', Frame(p, n),
           Calm(n)' => /\ Calm(n) /\ Unique(n)' /\ OwnOrdered(p, n)',
           Quiet(n)' => /\ OwnOrderly(p, n)'
                        /\ \A k \in RowsOf(n)' : Done(n, k)' \/ WillDo(p, n, k)'
    PROVE  IInv'
<1>1. n \in Name /\ (Calm(n) => Single(n))
  BY Before
<1>2. ASSUME NEW m \in Name, m # n PROVE Ordered(m)' /\ Orderly(m)'
  BY <1>1, <1>2, OtherNames DEF IInv
<1>3. Owns(p, n)
  BY DEF Owns
<1>4. Calm(n)' => \A q \in Proc : Owns(q, n)' => q = p
  BY <1>1, <1>3 DEF Single, Owns, Busy, TheName, Frame
<1>5. Ordered(n)'
  BY <1>4 DEF Ordered, Single, OwnOrdered
<1>6. Quiet(n)' => Calm(n)'
  BY DEF Quiet, Calm
<1>7. ASSUME Quiet(n)', NEW k \in RowsOf(n)', WillDo(p, n, k)' PROVE Right(n, k)'
  <2>1. Items(p)' # {}
    BY <1>7 DEF WillDo
  <2>2. run'[p].todo # <<>>
    BY <2>1, EmptyTuple DEF Items
  <2>3. Owns(p, n)'
    BY <2>2 DEF Owns, Busy, TheName, Frame
  <2>4. QED
    BY <1>7, <2>3 DEF Right
<1>8. Orderly(n)'
  <2>1. Quiet(n)' => \A k \in RowsOf(n)' : Right(n, k)'
    BY <1>7 DEF Right
  <2>2. QED
    BY <1>4, <1>6, <2>1 DEF Orderly, OwnOrderly
<1>9. QED
  BY <1>1, <1>2, <1>5, <1>8 DEF IInv

(* A step that leaves the index alone. *)
LEMMA FrameIfRun ==
    ASSUME Types, NEW p \in Proc, Busy(p), NEW n, n = TheName(p), NEW I, NewRun(p, I),
           \A m \in Name \ {n} : so'[m] = so[m] /\ fault'[m] = fault[m],
           rows' = rows, \A i \in Id : NameOf[i] # n => rec'[i] = rec[i], broken => broken'
    PROVE  Frame(p, n)
<1>1. \A m \in Name \ {n} : /\ RowsOf(m)' = RowsOf(m)
                            /\ \A k \in RowsOf(m) : rows'[k] = rows[k]
  BY DEF RowsOf
<1>2. QED
  BY <1>1 DEF Frame, NewRun, TheName

(* One that leaves objects and records alone too. *)
LEMMA RunOnly ==
    ASSUME Types, NEW p \in Proc, Busy(p), NEW n, n = TheName(p), NEW I, NewRun(p, I),
           UNCHANGED <<so, rows, rec>>, broken => broken', broken' \in BOOLEAN,
           fault' = fault \/ \E what : Disturb(n, what)
    PROVE  Types' /\ Frame(p, n)
<1>1. Faults /\ fault = [m \in Name |-> fault[m]]
  BY DEF Types, Faults
<1>2. /\ fault' = [m \in Name |-> fault'[m]]
      /\ \A m \in Name \ {n} : fault'[m] = fault[m]
  BY <1>1 DEF Disturb
<1>3. Types'
  BY <1>2, TypesIfRun
<1>4. QED
  BY <1>2, <1>3, FrameIfRun

LEMMA SameFault ==
    ASSUME NEW n, fault' = fault, broken' = broken
    PROVE  (Calm(n)' <=> Calm(n)) /\ (Quiet(n)' <=> Quiet(n))
  BY DEF Calm, Quiet

LEMMA ObjectChanged ==
    ASSUME Types, NEW p \in Proc, Busy(p), NEW n, n = TheName(p), NEW I, NewRun(p, I),
           NEW x, so' = [so EXCEPT ![n] = x], x \in Id => NameOf[x] = n,
           UNCHANGED <<rows, rec, fault, broken>>
    PROVE  Types' /\ Frame(p, n) /\ so'[n] = x
<1>1. /\ n \in Name /\ so = [m \in Name |-> so[m]]
      /\ \A m \in Name : so[m] \in Id => NameOf[so[m]] = m
  BY BusyFacts DEF Types, Objects
<1>2. /\ so' = [m \in Name |-> so'[m]] /\ so'[n] = x
      /\ \A m \in Name \ {n} : so'[m] = so[m]
  BY <1>1
<1>3. Objects'
  BY <1>1, <1>2 DEF Objects
<1>4. Runs' /\ Rows' /\ Records' /\ Faults'
  BY RunsKept DEF Types, Rows, Records, Faults
<1>5. Frame(p, n)
  BY <1>2, FrameIfRun
<1>6. QED
  BY <1>2, <1>3, <1>4, <1>5 DEF Types

LEMMA BackupStep ==
    ASSUME IInv, NEW p \in Proc, Backup(p), NEW n, n = TheName(p)
    PROVE  IInv'
<1> DEFINE h == Head(run[p].todo)
           T == Tail(run[p].todo)
<1>1. /\ Types /\ Busy(p) /\ h.op = "backup" /\ n \in Name /\ Follows(h, T)
      /\ Items(p) = {h} \cup Rest(p) /\ (Rest(p) = {} <=> T = <<>>)
  BY BusyFacts DEF Backup, At, IInv, Types
<1>2. /\ Calm(n) => Unique(n) /\ OwnOrdered(p, n)
      /\ Quiet(n) => /\ Calm(n) /\ OwnOrderly(p, n)
                     /\ \A k \in RowsOf(n) : Done(n, k) \/ WillDo(p, n, k)
  BY <1>1, Before
<1>3. /\ UNCHANGED <<rows, rec, fault, broken>> /\ RowsOf(n)' = RowsOf(n)
      /\ (Calm(n)' <=> Calm(n)) /\ (Quiet(n)' <=> Quiet(n))
  BY SameFault DEF Backup, RowsOf
<1>4. /\ \A y \in Rest(p) : y.op \in Early /\ y.op \notin AtFirst
      /\ Rest(p) = {} \/ \E y \in Rest(p) : y.op = "activate"
      /\ (\E y \in Rest(p) : y.op = "activate") =>
            \E y \in Rest(p) : y.op \in {"copy_open", "copy"}
  BY <1>1 DEF Follows, Moving, Rest
<1>5. Calm(n) => ~(run[p].cmd \in {"scan", "set"} /\ ~run[p].override)
  BY <1>1, <1>2 DEF OwnOrdered, Gentle, Moving
<1>6. Calm(n)' => Unique(n)'
  BY <1>2, <1>3 DEF Unique
<1>7. CASE so[n] = NoSo
  <2>1. NewRun(p, Rest(p)) /\ so' = so
    BY <1>7, BackupRun DEF IInv, Types, Backup
  <2>2. /\ Items(p)' = Rest(p)
        /\ Rest(p) # {} => run'[p].cmd = run[p].cmd /\ run'[p].override = run[p].override
    BY <2>1, RunItems
  <2>3. Types' /\ Frame(p, n)
    BY <1>1, <1>3, <2>1, RunOnly DEF Types, Faults
  <2>4. Calm(n)' => OwnOrdered(p, n)'
    <3>1. Aimed(p, n)' /\ NotListed(p)' /\ Covers(p, n)'
      BY <1>4, <2>2 DEF Aimed, NotListed, Covers, OfInstalled, Appends, Early, Moving
    <3>2. Calm(n)' => Gentle(p, n)'
      BY <1>3, <1>5, <2>2 DEF Gentle
    <3>3. QED
      BY <3>1, <3>2 DEF OwnOrdered
  <2>5. Quiet(n)' => OwnOrderly(p, n)'
    <3>1. Quiet(n)' => Meant(p, n)'
      BY <1>1, <1>2, <1>3, <2>1, <2>2 DEF OwnOrderly, Meant, Want
    <3>2. Writes(p)' /\ Written(p)'
      BY <1>4, <2>2 DEF Writes, Written, Writing, Appends, Early, Moving
    <3>3. Installed(p, n)'
      BY <1>4, <2>2 DEF Installed
    <3>4. QED
      BY <3>1, <3>2, <3>3 DEF OwnOrderly
  <2>6. ASSUME Quiet(n)', NEW k \in RowsOf(n)' PROVE Done(n, k)' \/ WillDo(p, n, k)'
    <3>1. CASE Done(n, k)
      BY <3>1, <1>3, <2>1 DEF Done, Want
    <3>2. CASE WillDo(p, n, k)
      <4>1. HasRow(so[n])' <=> HasRow(so[n])
        BY <1>3, <2>1 DEF HasRow
      <4>2. WillDo(p, n, k)'
        BY <3>2, <4>1, <1>1, <1>3, <2>1, <2>2 DEF WillDo, Want
      <4>3. QED
        BY <4>2
    <3>3. QED
      BY <2>6, <3>1, <3>2, <1>2, <1>3
  <2>7. QED
    BY <1>1, <1>3, <1>6, <2>3, <2>4, <2>5, <2>6, StepInv
<1>8. CASE so[n] # NoSo
  <2> DEFINE x == so[n]
             F == {Op("row", x, 0), Op("record", x, 0)}
  <2>1. NewRun(p, F \cup Rest(p)) /\ so' = [so EXCEPT ![n] = NoSo]
    BY <1>8, BackupRun DEF IInv, Types, Backup
  <2>2. /\ Items(p)' = F \cup Rest(p)
        /\ run'[p].cmd = run[p].cmd /\ run'[p].override = run[p].override
    BY <2>1, RunItems
  <2>3. Types' /\ Frame(p, n) /\ so'[n] = NoSo
    BY <1>1, <1>3, <2>1, ObjectChanged, KernelAssumption
  <2>4. \A o \in F : o.op \in {"row", "record"} /\ o.id = x /\ o.arg = 0
    BY DEF Op
  <2>9. Op("row", x, 0) \in F /\ Op("row", x, 0).op = "row" /\ Op("row", x, 0).id = x
        /\ Op("row", x, 0).arg = 0
    BY DEF Op
  <2> HIDE DEF F
  <2>5. Calm(n)' => OwnOrdered(p, n)'
    <3>1. Aimed(p, n)' /\ NotListed(p)' /\ Covers(p, n)'
      BY <1>4, <2>2, <2>4 DEF Aimed, NotListed, Covers, OfInstalled, Appends, Early, Moving
    <3>2. Calm(n)' => Gentle(p, n)'
      BY <1>3, <1>5, <2>2 DEF Gentle
    <3>3. QED
      BY <3>1, <3>2 DEF OwnOrdered
  <2>6. Quiet(n)' => OwnOrderly(p, n)'
    <3>1. Meant(p, n)'
      BY <1>4, <1>8, <2>2, <2>3, <2>4 DEF Meant, Want
    <3>2. Writes(p)' /\ Written(p)'
      BY <1>4, <2>2, <2>4 DEF Writes, Written, Writing, Appends, Early, Moving
    <3>3. Installed(p, n)'
      BY <1>4, <2>2, <2>4 DEF Installed
    <3>4. QED
      BY <3>1, <3>2, <3>3 DEF OwnOrderly
  <2>7. ASSUME Quiet(n)', NEW k \in RowsOf(n)' PROVE Done(n, k)' \/ WillDo(p, n, k)'
    <3>1. CASE \E y \in Rest(p) : y.op = "activate"
      BY <3>1, <2>2 DEF WillDo
    <3>2. CASE Rest(p) = {}
      <4>1. ~WillDo(p, n, k)
        BY <3>2, <1>1 DEF WillDo
      <4>2. Done(n, k)
        BY <4>1, <2>7, <1>2, <1>3
      <4>3. rows[k].id \in Id /\ rows[k].id # NoSo
        BY <2>7, <1>1, <1>3, RowFacts, KernelAssumption DEF RowsOf, Types
      <4>4. CASE rows[k].id = x
        <5>1. WillDo(p, n, k)'
          BY <4>3, <4>4, <1>3, <2>2, <2>3, <2>9 DEF WillDo, Want
        <5>2. QED
          BY <5>1
      <4>5. CASE rows[k].id # x
        BY <4>2, <4>3, <4>5, <1>3, <2>3 DEF Done, Want
      <4>6. QED
        BY <4>4, <4>5
    <3>3. QED
      BY <1>4, <3>1, <3>2
  <2>8. QED
    BY <1>1, <1>3, <1>6, <2>3, <2>5, <2>6, <2>7, StepInv
<1>9. QED
  BY <1>7, <1>8

(* A list that is lost: the commands on the name have overlapped, or the   *)
(* index cannot be read any more.                                          *)
LEMMA LostStep ==
    ASSUME IInv, NEW p \in Proc, Busy(p), NEW n, n = TheName(p), NEW I, NewRun(p, I),
           UNCHANGED <<so, rows, rec, broken>>, ListLost(p)
    PROVE  IInv'
<1>1. /\ Types /\ n \in Name /\ fault = [m \in Name |-> fault[m]] /\ broken \in BOOLEAN
  BY BusyFacts DEF IInv, Types, Faults
<1>2. fault' = fault \/ Disturb(n, "overlap")
  BY DEF ListLost, Raced
<1>3. Types' /\ Frame(p, n)
  BY <1>1, <1>2, RunOnly
<1>4. ~Calm(n)' /\ ~Quiet(n)'
  <2>1. CASE broken
    BY <2>1 DEF Calm, Quiet
  <2>2. CASE Disturb(n, "overlap")
    <3>1. fault'[n] = "overlap"
      BY <2>2, <1>1 DEF Disturb
    <3>2. QED
      BY <3>1 DEF Calm, Quiet
  <2>3. QED
    BY <2>1, <2>2 DEF ListLost, Raced
<1>5. QED
  BY <1>3, <1>4, StepInv

LEMMA PatchListFailStep ==
    ASSUME IInv, NEW p \in Proc, PatchListFail(p)
    PROVE  IInv'
<1>1. Busy(p) /\ NewRun(p, Rest(p)) /\ ListLost(p) /\ UNCHANGED <<so, rows, rec, broken>>
  BY Popped DEF PatchListFail, IInv, Types
<1>2. QED
  BY <1>1, LostStep

LEMMA ResolveBlindStep ==
    ASSUME IInv, NEW p \in Proc, ResolveBlind(p)
    PROVE  IInv'
<1>1. Busy(p) /\ ListLost(p) /\ UNCHANGED <<so, rows, rec, broken>> /\ At(p, "resolve")
  BY DEF ResolveBlind, At
<1>2. PICK I : NewRun(p, I)
  BY <1>1, RegisterRun DEF ResolveBlind, IInv, Types
<1>3. QED
  BY <1>1, <1>2, LostStep

LEMMA AppendRefuseStep ==
    ASSUME IInv, NEW p \in Proc, AppendRefuse(p)
    PROVE  IInv'
<1>1. Busy(p) /\ ListLost(p) /\ UNCHANGED <<so, rows, rec, broken>>
  BY DEF AppendRefuse, At, ListLost
<1>2. PICK I : NewRun(p, I)
  BY <1>1, AfterResolveRun DEF AppendRefuse, IInv, Types
<1>3. QED
  BY <1>1, <1>2, LostStep

(* A failure, after which p does less than it had to. *)
LEMMA FailedStep ==
    ASSUME IInv, NEW p \in Proc, Busy(p), NEW n, n = TheName(p), NEW I, NewRun(p, I),
           I \subseteq Items(p), UNCHANGED <<so, rows, rec>>, broken => broken',
           broken' \in BOOLEAN, Fail(n),
           (\A o \in I : o.op \notin Switching) \/ (\E o \in Items(p) : o.op \in Moving)
    PROVE  IInv'
<1>1. /\ Types /\ n \in Name /\ fault = [m \in Name |-> fault[m]]
  BY BusyFacts DEF IInv, Types, Faults
<1>2. Disturb(n, "failed")
  BY DEF Fail
<1>3. Types' /\ Frame(p, n)
  BY <1>1, <1>2, RunOnly
<1>4. /\ ~Quiet(n)' /\ (Calm(n)' => Calm(n))
  <2>1. fault'[n] = IF fault[n] = "overlap" THEN "overlap" ELSE "failed"
    BY <1>1, <1>2 DEF Disturb
  <2>2. QED
    BY <2>1 DEF Calm, Quiet
<1>5. /\ Items(p)' = I
      /\ I # {} => run'[p].cmd = run[p].cmd /\ run'[p].override = run[p].override
  BY RunItems
<1>6. Calm(n) => Unique(n) /\ Aimed(p, n) /\ NotListed(p) /\ Covers(p, n) /\ Gentle(p, n)
  BY Before DEF OwnOrdered
<1>7. RowsOf(n)' = RowsOf(n) /\ ActiveRows(n)' = ActiveRows(n)
  BY DEF RowsOf, ActiveRows
<1>8. Calm(n)' => Unique(n)' /\ Aimed(p, n)' /\ NotListed(p)' /\ Covers(p, n)'
  <2>1. Calm(n)' => Unique(n)' /\ Aimed(p, n)'
    BY <1>4, <1>5, <1>6, <1>7 DEF Unique, Aimed
  <2>2. Calm(n)' => NotListed(p)'
    BY <1>4, <1>5, <1>6 DEF NotListed, HasRow
  <2>3. Calm(n)' => Covers(p, n)'
    BY <1>4, <1>5, <1>6, <1>7 DEF Covers
  <2>4. QED
    BY <2>1, <2>2, <2>3
<1>9. Calm(n)' => Gentle(p, n)'
  BY <1>4, <1>5, <1>6, <1>7 DEF Gentle, Switching, Moving
<1>10. QED
  BY <1>3, <1>4, <1>8, <1>9, StepInv DEF OwnOrdered

LEMMA BackupFailStep ==
    ASSUME IInv, NEW p \in Proc, BackupFail(p)
    PROVE  IInv'
<1>1. /\ Busy(p) /\ Types /\ NewRun(p, Rest(p)) /\ Fail(TheName(p))
      /\ UNCHANGED <<so, rows, rec, broken>>
  BY Popped DEF BackupFail, At, IInv, Types
<1>2. Rest(p) \subseteq Items(p) /\ \E o \in Items(p) : o.op \in Moving
  BY <1>1, BusyFacts DEF BackupFail, At, Types, Moving
<1>3. QED
  BY <1>1, <1>2, FailedStep DEF Types, Faults

LEMMA CopyFailStep ==
    ASSUME IInv, NEW p \in Proc, CopyFail(p)
    PROVE  IInv'
<1>1. /\ Busy(p) /\ Types /\ NewRun(p, {}) /\ Fail(TheName(p))
      /\ UNCHANGED <<so, rows, rec, broken>>
  BY Ended DEF CopyFail, IInv, Types
<1>2. QED
  BY <1>1, FailedStep DEF Types, Faults

LEMMA WriteFailStep ==
    ASSUME IInv, NEW p \in Proc, WriteFail(p)
    PROVE  IInv'
<1>1. /\ Busy(p) /\ Types /\ Fail(TheName(p)) /\ UNCHANGED <<so, rows, rec, broken>>
  BY DEF WriteFail, IInv
<1>2. PICK I \in SUBSET Rest(p) : NewRun(p, I) /\ \A o \in I : o.op = "set_keys"
  BY <1>1, AfterResolveRun DEF WriteFail, Types
<1>3. I \subseteq Items(p)
  BY <1>1, BusyFacts DEF Types
<1>4. QED
  BY <1>1, <1>2, <1>3, FailedStep DEF Types, Faults, Switching

LEMMA CrashStep ==
    ASSUME IInv, NEW p \in Proc, Crash(p)
    PROVE  IInv'
<1>1. /\ Busy(p) /\ Types /\ Fail(TheName(p)) /\ UNCHANGED <<so, rows, rec>>
      /\ Continue(p, <<>>) /\ broken' = (broken \/ writer = p)
  BY DEF Crash, Continue, IInv
<1>2. NewRun(p, {})
  BY <1>1, Ended DEF Types
<1>3. QED
  BY <1>1, <1>2, FailedStep

LEMMA CopyOpenStep ==
    ASSUME IInv, NEW p \in Proc, CopyOpen(p) \/ Copy(p), NEW n, n = TheName(p)
    PROVE  IInv'
<1> DEFINE h == Head(run[p].todo)
           T == Tail(run[p].todo)
<1>1. /\ Types /\ Busy(p) /\ h.op \in {"copy_open", "copy"} /\ n \in Name /\ Follows(h, T)
      /\ Items(p) = {h} \cup Rest(p) /\ IsOp(h, n, Len(rows)) /\ IsSeq(T)
  BY BusyFacts DEF CopyOpen, Copy, At, IInv, Types
<1>2. Calm(n) => Unique(n) /\ OwnOrdered(p, n)
  BY <1>1, Before
<1>3. /\ UNCHANGED <<rows, rec, fault, broken>> /\ RowsOf(n)' = RowsOf(n)
      /\ (Calm(n)' <=> Calm(n)) /\ (Quiet(n)' <=> Quiet(n))
  BY SameFault DEF CopyOpen, Copy, RowsOf
<1>4. /\ \A y \in Rest(p) : y.op \in Early /\ y.op \notin AtFirst
      /\ \E y \in Rest(p) : y.op = "activate"
  <2>1. T # <<>> /\ T[1].op = "activate" /\ \A y \in Range(T) : y.op \in Early /\ y.op \notin AtFirst
    BY <1>1 DEF Follows, Moving
  <2>2. 1 \in DOMAIN T
    BY <1>1, <2>1, SeqFacts
  <2>3. T[1] \in Range(T)
    BY <1>1, <2>2, SeqFacts
  <2>4. QED
    BY <2>1, <2>3 DEF Rest
<1>5. Calm(n) => ~(run[p].cmd \in {"scan", "set"} /\ ~run[p].override)
  BY <1>1, <1>2 DEF OwnOrdered, Gentle, Moving
<1>6. Calm(n)' => Unique(n)'
  BY <1>2, <1>3 DEF Unique
<1> DEFINE F == IF h.op = "copy_open" THEN {Op("copy", TheId(p), 0)} ELSE {}
           x == IF h.op = "copy_open" THEN Torn ELSE TheId(p)
<1>7. /\ NewRun(p, F \cup Rest(p)) /\ so' = [so EXCEPT ![n] = x]
      /\ \A o \in F : o.op = "copy"
      /\ x # NoSo \/ F # {}
      /\ x \in Id => NameOf[x] = n
  <2>1. CASE CopyOpen(p)
    <3>1. NewRun(p, {Op("copy", TheId(p), 0)} \cup Rest(p)) /\ so' = [so EXCEPT ![n] = Torn]
      BY <2>1, <1>1, CopyOpenRun DEF Types, CopyOpen
    <3>2. \A o \in {Op("copy", TheId(p), 0)} : o.op = "copy"
      BY DEF Op
    <3>3. Torn \notin Id
      BY KernelAssumption
    <3>4. F = {Op("copy", TheId(p), 0)} /\ x = Torn
      BY <2>1 DEF CopyOpen, At
    <3>5. QED
      BY <3>1, <3>2, <3>3, <3>4
  <2>2. CASE Copy(p)
    <3>1. NewRun(p, {} \cup Rest(p)) /\ so' = [so EXCEPT ![n] = TheId(p)]
      BY <2>2, <1>1, Popped DEF Types, Copy
    <3>2. TheId(p) \in Id /\ NameOf[TheId(p)] = n
      BY <1>1 DEF IsOp, OfObject, TheId
    <3>3. TheId(p) # NoSo
      BY <3>2, KernelAssumption
    <3>4. F = {} /\ x = TheId(p)
      BY <2>2 DEF Copy, At
    <3>5. QED
      BY <3>1, <3>2, <3>3, <3>4
  <2>3. QED
    BY <2>1, <2>2
<1> HIDE DEF F, x
<1>8. /\ Items(p)' = F \cup Rest(p)
      /\ run'[p].cmd = run[p].cmd /\ run'[p].override = run[p].override
  BY <1>4, <1>7, RunItems
<1>9. Types' /\ Frame(p, n) /\ so'[n] = x
  BY <1>1, <1>3, <1>7, ObjectChanged
<1>10. Calm(n)' => OwnOrdered(p, n)'
  <2>1. Aimed(p, n)' /\ NotListed(p)' /\ Covers(p, n)'
    BY <1>4, <1>7, <1>8 DEF Aimed, NotListed, Covers, OfInstalled, Appends, Early, Moving
  <2>2. Calm(n)' => Gentle(p, n)'
    BY <1>3, <1>5, <1>8 DEF Gentle
  <2>3. QED
    BY <2>1, <2>2 DEF OwnOrdered
<1>11. OwnOrderly(p, n)'
  <2>1. Meant(p, n)'
    BY <1>4, <1>8 DEF Meant
  <2>2. Writes(p)' /\ Written(p)'
    BY <1>4, <1>7, <1>8 DEF Writes, Written, Writing, Appends, Early, Moving
  <2>3. Installed(p, n)'
    BY <1>7, <1>8, <1>9 DEF Installed
  <2>4. QED
    BY <2>1, <2>2, <2>3 DEF OwnOrderly
<1>12. \A k \in RowsOf(n)' : WillDo(p, n, k)'
  BY <1>4, <1>8 DEF WillDo
<1>13. QED
  BY <1>1, <1>3, <1>6, <1>9, <1>10, <1>11, <1>12, StepInv

LEMMA ActivateStep ==
    ASSUME IInv, NEW p \in Proc, Activate(p), NEW n, n = TheName(p)
    PROVE  IInv'
<1> DEFINE h == Head(run[p].todo)
           T == Tail(run[p].todo)
           x == so[n]
           F == {Op("deactivate", x, 0), Op("row", x, 1), Op("record", x, 1)}
<1>1. /\ Types /\ Busy(p) /\ h.op = "activate" /\ n \in Name /\ Follows(h, T)
      /\ Items(p) = {h} \cup Rest(p)
  BY BusyFacts DEF Activate, At, IInv, Types
<1>2. /\ Calm(n) => Unique(n) /\ OwnOrdered(p, n)
      /\ Quiet(n) => OwnOrderly(p, n)
  BY <1>1, Before
<1>3. /\ UNCHANGED <<so, rows, rec, fault, broken>> /\ RowsOf(n)' = RowsOf(n)
      /\ (Calm(n)' <=> Calm(n)) /\ (Quiet(n)' <=> Quiet(n))
  BY SameFault DEF Activate, RowsOf
<1>4. \A y \in Rest(p) : y.op = "set"
  BY <1>1 DEF Follows, Rest
<1>5. Calm(n) => ~(run[p].cmd \in {"scan", "set"} /\ ~run[p].override)
  BY <1>1, <1>2 DEF OwnOrdered, Gentle
<1>6. Calm(n)' => Unique(n)'
  BY <1>2, <1>3 DEF Unique
<1>7. CASE x = NoSo
  <2>1. NewRun(p, {})
    BY <1>1, <1>7, ActivateRun DEF Types
  <2>2. Items(p)' = {}
    BY <2>1, RunItems
  <2>3. Types' /\ Frame(p, n)
    BY <1>1, <1>3, <2>1, RunOnly DEF Types, Faults
  <2>4. ~Quiet(n)
    BY <1>1, <1>2, <1>4, <1>7 DEF OwnOrderly, Installed
  <2>5. OwnOrdered(p, n)'
    BY <2>2 DEF OwnOrdered, Aimed, NotListed, Covers, Gentle
  <2>6. QED
    BY <1>1, <1>3, <1>6, <2>3, <2>4, <2>5, StepInv
<1>8. CASE x # NoSo
  <2>1. NewRun(p, F \cup Rest(p))
    BY <1>1, <1>8, ActivateRun DEF Types
  <2>2. /\ Items(p)' = F \cup Rest(p)
        /\ run'[p].cmd = run[p].cmd /\ run'[p].override = run[p].override
    BY <2>1, RunItems
  <2>3. Types' /\ Frame(p, n)
    BY <1>1, <1>3, <2>1, RunOnly DEF Types, Faults
  <2>4. /\ \A o \in F : /\ o.op \in {"deactivate", "row", "record"} /\ o.id = x
                        /\ o.op \in {"row", "record"} => o.arg = 1
        /\ \E o \in F : o.op = "deactivate"
        /\ \E o \in F : o.op = "row" /\ o.id = x /\ o.arg = 1
    BY DEF Op
  <2> HIDE DEF F
  <2>5. Calm(n)' => OwnOrdered(p, n)'
    <3>1. Aimed(p, n)' /\ NotListed(p)' /\ Covers(p, n)'
      BY <1>3, <1>4, <2>2, <2>4 DEF Aimed, NotListed, Covers, OfInstalled, Appends
    <3>2. Calm(n)' => Gentle(p, n)'
      BY <1>3, <1>5, <2>2 DEF Gentle
    <3>3. QED
      BY <3>1, <3>2 DEF OwnOrdered
  <2>6. OwnOrderly(p, n)'
    <3>1. Meant(p, n)'
      BY <1>3, <1>4, <2>2, <2>4 DEF Meant, Want
    <3>2. Writes(p)' /\ Written(p)'
      BY <1>4, <2>2, <2>4 DEF Writes, Written, Writing, Appends
    <3>3. Installed(p, n)'
      BY <1>4, <2>2, <2>4 DEF Installed
    <3>4. QED
      BY <3>1, <3>2, <3>3 DEF OwnOrderly
  <2>7. \A k \in RowsOf(n)' : WillDo(p, n, k)'
    BY <1>3, <2>2, <2>4 DEF WillDo, Want
  <2>8. QED
    BY <1>1, <1>3, <1>6, <2>3, <2>5, <2>6, <2>7, StepInv
<1>9. QED
  BY <1>7, <1>8

(* What holds when p is about to do op. *)
LEMMA AtStep ==
    ASSUME IInv, NEW p \in Proc, NEW op, At(p, op), NEW n, n = TheName(p)
    PROVE  /\ Types /\ Busy(p) /\ n \in Name /\ Head(run[p].todo).op = op
           /\ Follows(Head(run[p].todo), Tail(run[p].todo))
           /\ Items(p) = {Head(run[p].todo)} \cup Rest(p)
           /\ \A o \in Items(p) : IsOp(o, n, Len(rows))
           /\ IsOp(Head(run[p].todo), n, Len(rows))
           /\ Calm(n) => /\ Unique(n) /\ Aimed(p, n) /\ NotListed(p) /\ Covers(p, n)
                         /\ Gentle(p, n)
           /\ Quiet(n) => /\ Calm(n) /\ Meant(p, n) /\ Writes(p) /\ Written(p)
                          /\ Installed(p, n)
                          /\ \A k \in RowsOf(n) : Done(n, k) \/ WillDo(p, n, k)
<1>1. /\ Types /\ Busy(p) /\ n \in Name /\ Head(run[p].todo).op = op
      /\ Follows(Head(run[p].todo), Tail(run[p].todo))
      /\ Items(p) = {Head(run[p].todo)} \cup Rest(p)
      /\ \A o \in Items(p) : IsOp(o, n, Len(rows))
  BY BusyFacts DEF At, IInv, Types
<1>2. /\ Calm(n) => Single(n) /\ Unique(n) /\ OwnOrdered(p, n)
      /\ Quiet(n) => /\ Calm(n) /\ OwnOrderly(p, n)
                     /\ \A k \in RowsOf(n) : Done(n, k) \/ WillDo(p, n, k)
  BY <1>1, Before
<1>3. QED
  BY <1>1, <1>2 DEF OwnOrdered, OwnOrderly

LEMMA PatchRowStep ==
    ASSUME IInv, NEW p \in Proc, PatchRow(p), NEW n, n = TheName(p)
    PROVE  IInv'
<1> DEFINE h == Head(run[p].todo)
           T == Tail(run[p].todo)
<1>0. At(p, "row")
  BY DEF PatchRow
<1>1. /\ Types /\ Busy(p) /\ n \in Name /\ h.op = "row" /\ Follows(h, T)
      /\ Items(p) = {h} \cup Rest(p) /\ IsOp(h, n, Len(rows))
  BY <1>0, AtStep
<1>2. /\ Calm(n) => /\ Unique(n) /\ Aimed(p, n) /\ NotListed(p) /\ Covers(p, n)
                    /\ Gentle(p, n)
      /\ Quiet(n) => /\ Calm(n) /\ Meant(p, n) /\ Writes(p) /\ Written(p) /\ Installed(p, n)
                     /\ \A k \in RowsOf(n) : Done(n, k) \/ WillDo(p, n, k)
  BY <1>0, AtStep
<1>3. /\ UNCHANGED <<so, rec, fault, broken>> /\ h.id = TheId(p) /\ h.arg = Arg(p)
      /\ (Calm(n)' <=> Calm(n)) /\ (Quiet(n)' <=> Quiet(n))
  BY SameFault DEF PatchRow, Listed, TheId, Arg
<1>4. /\ \A y \in Rest(p) : y.op \notin AtFirst /\ y.op # "append"
      /\ \E y \in Rest(p) : y.op = "record" /\ y.id = h.id /\ y.arg = h.arg
  BY <1>1 DEF Follows, Rest, Writing
<1>5. NewRun(p, Rest(p))
  BY <1>1, Popped DEF PatchRow, Types
<1>6. /\ Items(p)' = Rest(p)
      /\ run'[p].cmd = run[p].cmd /\ run'[p].override = run[p].override
  BY <1>4, <1>5, RunItems
<1>7. /\ SameRows
      /\ \A k \in DOMAIN rows :
           rows'[k].active = IF rows[k].id = h.id /\ k = FirstRow(h.id)
                             THEN h.arg ELSE rows[k].active
  BY <1>1, <1>3, PatchRowRows
<1>8. /\ RowsOf(n)' = RowsOf(n) /\ DOMAIN rows' = DOMAIN rows
      /\ \A k \in DOMAIN rows : rows'[k].id = rows[k].id /\ rows'[k].name = rows[k].name
      /\ \A z : HasRow(z)' <=> HasRow(z)
  BY <1>7 DEF SameRows, RowsOf, HasRow
<1>9. \A k \in DOMAIN rows : rows[k].id \in Id /\ rows[k].name = NameOf[rows[k].id]
  BY <1>1, RowFacts DEF Types
<1>10. Types'
  <2>1. Runs' /\ Rows'
    BY <1>5, <1>7, RunsKept, RowsKept DEF SameRows
  <2>2. QED
    BY <1>1, <1>3, <2>1 DEF Types, Objects, Records, Faults
<1>11. Frame(p, n)
  <2>1. ASSUME NEW m \in Name, m # n
        PROVE  RowsOf(m)' = RowsOf(m) /\ \A k \in RowsOf(m) : rows'[k] = rows[k]
    <3>1. RowsOf(m)' = RowsOf(m)
      BY <1>8 DEF RowsOf
    <3>2. ASSUME NEW k \in RowsOf(m) PROVE rows'[k] = rows[k]
      <4>1. rows[k].id # h.id
        BY <2>1, <3>2, <1>1, <1>9 DEF IsOp, RowsOf
      <4>2. CASE ~HasRow(h.id)
        BY <4>2, <1>3 DEF PatchRow
      <4>3. CASE HasRow(h.id)
        <5>1. FirstRow(h.id) \in DOMAIN rows /\ rows[FirstRow(h.id)].id = h.id
          BY <4>3, <1>1, FirstRowFacts DEF Types
        <5>2. rows' = [rows EXCEPT ![FirstRow(h.id)].active = h.arg]
          BY <4>3, <1>3 DEF PatchRow
        <5>3. k # FirstRow(h.id) /\ k \in DOMAIN rows
          BY <4>1, <5>1, <3>2 DEF RowsOf
        <5>4. QED
          BY <5>2, <5>3
      <4>4. QED
        BY <4>2, <4>3
    <3>3. QED
      BY <3>1, <3>2
  <2>2. QED
    BY <2>1, <1>1, <1>3, <1>5 DEF Frame, NewRun, TheName
<1>12. Calm(n)' => Unique(n)' /\ Aimed(p, n)' /\ NotListed(p)' /\ Covers(p, n)'
  <2>1. Calm(n)' => Unique(n)' /\ Covers(p, n)'
    BY <1>1, <1>2, <1>3, <1>6, <1>8 DEF Unique, Covers, RowsOf
  <2>2. Calm(n)' => Aimed(p, n)' /\ NotListed(p)'
    BY <1>1, <1>2, <1>3, <1>6, <1>8 DEF Aimed, NotListed
  <2>3. QED
    BY <2>1, <2>2
<1>13. Calm(n)' => Gentle(p, n)'
  <2>1. SUFFICES ASSUME Calm(n), run[p].cmd \in {"scan", "set"}, ~run[p].override
                 PROVE  Gentle(p, n)'
    BY <1>3, <1>6 DEF Gentle
  <2>2. /\ \A o \in Items(p) : /\ o.op \notin Moving \cup {"activate"}
                               /\ o.op = "row" => o.id # so[n]
        /\ \/ \A o \in Items(p) : o.op \notin Switching
           \/ \E o \in Items(p) : o.op \in Appends
           \/ \E k \in ActiveRows(n) : rows[k].id = so[n]
    BY <2>1, <1>2 DEF Gentle
  <2>3. ~(\A o \in Items(p) : o.op \notin Switching) /\ ~(\E o \in Items(p) : o.op \in Appends)
    BY <1>1, <1>4 DEF Switching, Appends, AtFirst
  <2>4. PICK k \in ActiveRows(n) : rows[k].id = so[n]
    BY <2>2, <2>3
  <2>5. h.id # so[n] /\ k \in RowsOf(n) /\ k \in DOMAIN rows /\ rows[k].active = 1
    BY <2>2, <1>1, <2>4 DEF ActiveRows, RowsOf
  <2>6. rows'[k].active = 1 /\ rows'[k].id = so'[n] /\ k \in RowsOf(n)'
    BY <2>4, <2>5, <1>3, <1>7, <1>8
  <2>7. k \in ActiveRows(n)'
    BY <2>6 DEF ActiveRows
  <2>8. QED
    BY <2>2, <2>6, <2>7, <1>1, <1>3, <1>6 DEF Gentle
<1>14. Quiet(n)' => Meant(p, n)' /\ Writes(p)' /\ Written(p)' /\ Installed(p, n)'
  <2>1. Quiet(n)' => Meant(p, n)'
    BY <1>1, <1>2, <1>3, <1>6 DEF Meant, Want
  <2>2. Quiet(n)' => Writes(p)'
    BY <1>1, <1>2, <1>3, <1>6, <1>8 DEF Writes
  <2>3. Written(p)'
    BY <1>4, <1>6 DEF Written, Appends, AtFirst
  <2>4. Quiet(n)' => Installed(p, n)'
    BY <1>1, <1>2, <1>3, <1>6 DEF Installed
  <2>5. QED
    BY <2>1, <2>2, <2>3, <2>4
<1>15. ASSUME Quiet(n)', NEW k \in RowsOf(n)' PROVE Done(n, k)' \/ WillDo(p, n, k)'
  <2>1. /\ k \in RowsOf(n) /\ k \in DOMAIN rows /\ Meant(p, n) /\ Unique(n)
        /\ Done(n, k) \/ WillDo(p, n, k)
    BY <1>15, <1>2, <1>3, <1>8 DEF RowsOf
  <2>2. CASE \E o \in Rest(p) : o.op = "activate"
    BY <2>2, <1>6 DEF WillDo
  <2>3. CASE ~(\E o \in Rest(p) : o.op = "activate") /\ rows[k].id = h.id
    <3>1. h.arg = Want(n, h.id)
      BY <2>1, <2>3, <1>1 DEF Meant
    <3>2. HasRow(h.id)
      BY <2>1, <2>3 DEF HasRow
    <3>3. FirstRow(h.id) \in RowsOf(n) /\ rows[FirstRow(h.id)].id = h.id
      BY <3>2, <1>1, <1>9, <2>1, <2>3, FirstRowFacts DEF Types, RowsOf
    <3>4. k = FirstRow(h.id)
      BY <2>1, <2>3, <3>3 DEF Unique
    <3>5. rows'[k].active = Want(n, h.id) /\ rows'[k].id = h.id
      BY <2>1, <2>3, <3>1, <3>4, <1>3, <1>7, <1>8 DEF Want
    <3>6. WillDo(p, n, k)'
      BY <3>1, <3>5, <1>3, <1>4, <1>6 DEF WillDo, Want
    <3>7. QED
      BY <3>6
  <2>4. CASE ~(\E o \in Rest(p) : o.op = "activate") /\ rows[k].id # h.id
    <3>1. rows'[k].active = rows[k].active /\ rows'[k].id = rows[k].id
      BY <2>1, <2>4, <1>7, <1>8
    <3>2. CASE Done(n, k)
      BY <3>1, <3>2, <1>3 DEF Done, Want
    <3>3. CASE WillDo(p, n, k)
      <4>1. HasRow(so[n])' <=> HasRow(so[n])
        BY <1>3, <1>8 DEF HasRow
      <4>2. WillDo(p, n, k)'
        BY <3>1, <3>3, <4>1, <2>4, <1>1, <1>3, <1>6 DEF WillDo, Want
      <4>3. QED
        BY <4>2
    <3>4. QED
      BY <2>1, <3>2, <3>3
  <2>5. QED
    BY <2>2, <2>3, <2>4
<1>16. QED
  BY <1>1, <1>3, <1>10, <1>11, <1>12, <1>13, <1>14, <1>15, StepInv DEF OwnOrdered, OwnOrderly

LEMMA PatchUtcStep ==
    ASSUME IInv, NEW p \in Proc, PatchUtc(p), NEW n, n = TheName(p)
    PROVE  IInv'
<1> DEFINE h == Head(run[p].todo)
           T == Tail(run[p].todo)
<1>0. At(p, "utc")
  BY DEF PatchUtc
<1>1. /\ Types /\ Busy(p) /\ n \in Name /\ h.op = "utc" /\ Follows(h, T)
      /\ Items(p) = {h} \cup Rest(p) /\ IsOp(h, n, Len(rows))
  BY <1>0, AtStep
<1>2. /\ Calm(n) => /\ Unique(n) /\ Aimed(p, n) /\ NotListed(p) /\ Covers(p, n)
                    /\ Gentle(p, n)
      /\ Quiet(n) => /\ Calm(n) /\ Meant(p, n) /\ Writes(p) /\ Written(p) /\ Installed(p, n)
                     /\ \A k \in RowsOf(n) : Done(n, k) \/ WillDo(p, n, k)
  BY <1>0, AtStep
<1>3. /\ UNCHANGED <<so, rec, fault, broken>> /\ h.id = TheId(p)
      /\ (Calm(n)' <=> Calm(n)) /\ (Quiet(n)' <=> Quiet(n))
  BY SameFault DEF PatchUtc, Listed, TheId
<1>5. NewRun(p, Rest(p))
  BY <1>1, Popped DEF PatchUtc, Types
<1>6. /\ Items(p)' = Rest(p)
      /\ Rest(p) # {} => run'[p].cmd = run[p].cmd /\ run'[p].override = run[p].override
  BY <1>5, RunItems
<1>7. SameRows /\ \A k \in DOMAIN rows : rows'[k].active = rows[k].active
  BY <1>1, PatchUtcRows
<1>8. /\ RowsOf(n)' = RowsOf(n) /\ DOMAIN rows' = DOMAIN rows
      /\ \A k \in DOMAIN rows : rows'[k].id = rows[k].id /\ rows'[k].name = rows[k].name
      /\ \A z : HasRow(z)' <=> HasRow(z)
  BY <1>7 DEF SameRows, RowsOf, HasRow
<1>9. \A k \in DOMAIN rows : rows[k].id \in Id /\ rows[k].name = NameOf[rows[k].id]
  BY <1>1, RowFacts DEF Types
<1>10. Types'
  <2>1. Runs' /\ Rows'
    BY <1>5, <1>7, RunsKept, RowsKept DEF SameRows
  <2>2. QED
    BY <1>1, <1>3, <2>1 DEF Types, Objects, Records, Faults
<1>11. Frame(p, n)
  <2>1. ASSUME NEW m \in Name, m # n
        PROVE  RowsOf(m)' = RowsOf(m) /\ \A k \in RowsOf(m) : rows'[k] = rows[k]
    <3>1. RowsOf(m)' = RowsOf(m)
      BY <1>8 DEF RowsOf
    <3>2. ASSUME NEW k \in RowsOf(m) PROVE rows'[k] = rows[k]
      <4>1. rows[k].id # h.id
        BY <2>1, <3>2, <1>1, <1>9 DEF IsOp, RowsOf
      <4>2. CASE ~HasRow(h.id)
        BY <4>2, <1>3 DEF PatchUtc
      <4>3. CASE HasRow(h.id)
        <5>1. FirstRow(h.id) \in DOMAIN rows /\ rows[FirstRow(h.id)].id = h.id
          BY <4>3, <1>1, FirstRowFacts DEF Types
        <5>2. rows' = [rows EXCEPT ![FirstRow(h.id)].utc = "override"]
          BY <4>3, <1>3 DEF PatchUtc
        <5>3. k # FirstRow(h.id) /\ k \in DOMAIN rows
          BY <4>1, <5>1, <3>2 DEF RowsOf
        <5>4. QED
          BY <5>2, <5>3
      <4>4. QED
        BY <4>2, <4>3
    <3>3. QED
      BY <3>1, <3>2
  <2>2. QED
    BY <2>1, <1>1, <1>3, <1>5 DEF Frame, NewRun, TheName
<1>12. Calm(n)' => Unique(n)' /\ Aimed(p, n)' /\ NotListed(p)' /\ Covers(p, n)'
  <2>1. Calm(n)' => Unique(n)' /\ Covers(p, n)'
    BY <1>1, <1>2, <1>3, <1>6, <1>8 DEF Unique, Covers, RowsOf
  <2>2. Calm(n)' => Aimed(p, n)' /\ NotListed(p)'
    BY <1>1, <1>2, <1>3, <1>6, <1>8 DEF Aimed, NotListed
  <2>3. QED
    BY <2>1, <2>2
<1>13. Calm(n)' => Gentle(p, n)'
  <2>1. ActiveRows(n)' = ActiveRows(n) /\ ActiveRows(n) \subseteq DOMAIN rows
    BY <1>7, <1>8 DEF ActiveRows, RowsOf
  <2>2. QED
    BY <2>1, <1>1, <1>2, <1>3, <1>6, <1>8 DEF Gentle, Switching, Appends, Moving
<1>14. Quiet(n)' => Meant(p, n)' /\ Writes(p)' /\ Written(p)' /\ Installed(p, n)'
  <2>1. Quiet(n)' => Meant(p, n)'
    BY <1>1, <1>2, <1>3, <1>6 DEF Meant, Want
  <2>2. Quiet(n)' => Writes(p)'
    BY <1>1, <1>2, <1>3, <1>6, <1>8 DEF Writes
  <2>3. Quiet(n)' => Written(p)'
    BY <1>1, <1>2, <1>3, <1>6 DEF Written, Writing
  <2>4. Quiet(n)' => Installed(p, n)'
    BY <1>1, <1>2, <1>3, <1>6 DEF Installed
  <2>5. QED
    BY <2>1, <2>2, <2>3, <2>4
<1>15. ASSUME Quiet(n)', NEW k \in RowsOf(n)' PROVE Done(n, k)' \/ WillDo(p, n, k)'
  <2>1. k \in RowsOf(n) /\ k \in DOMAIN rows /\ (Done(n, k) \/ WillDo(p, n, k))
    BY <1>15, <1>2, <1>3, <1>8 DEF RowsOf
  <2>2. rows'[k].active = rows[k].active /\ rows'[k].id = rows[k].id
    BY <2>1, <1>7, <1>8
  <2>3. CASE Done(n, k)
    BY <2>2, <2>3, <1>3 DEF Done, Want
  <2>4. CASE WillDo(p, n, k)
    <3>1. HasRow(so[n])' <=> HasRow(so[n])
      BY <1>3, <1>8 DEF HasRow
    <3>2. WillDo(p, n, k)'
      BY <2>2, <2>4, <3>1, <1>1, <1>3, <1>6 DEF WillDo, Want
    <3>3. QED
      BY <3>2
  <2>5. QED
    BY <2>1, <2>3, <2>4
<1>16. QED
  BY <1>1, <1>3, <1>10, <1>11, <1>12, <1>13, <1>14, <1>15, StepInv DEF OwnOrdered, OwnOrderly

(* One record changes. *)
Rewritten(x) ==
    /\ rec' = [i \in Id |-> rec'[i]] /\ IsRec(rec'[x]) /\ \A i \in Id \ {x} : rec'[i] = rec[i]

LEMMA RecordChanged ==
    ASSUME Types, NEW p \in Proc, Busy(p), NEW n, n = TheName(p), NEW I, NewRun(p, I),
           NEW x \in Id, NameOf[x] = n, Rewritten(x), UNCHANGED <<so, rows, fault, broken>>
    PROVE  Types' /\ Frame(p, n)
<1>1. \A i \in Id : IsRec(rec[i])
  BY DEF Types, Records
<1>2. Records'
  BY <1>1 DEF Records, Rewritten
<1>3. Runs' /\ Rows' /\ Objects' /\ Faults'
  BY RunsKept DEF Types, Rows, Objects, Faults
<1>4. \A i \in Id : NameOf[i] # n => rec'[i] = rec[i]
  BY DEF Rewritten
<1>5. Frame(p, n)
  BY <1>4, FrameIfRun
<1>6. QED
  BY <1>2, <1>3, <1>5 DEF Types

LEMMA PatchRecordStep ==
    ASSUME IInv, NEW p \in Proc, PatchRecord(p), NEW n, n = TheName(p)
    PROVE  IInv'
<1> DEFINE h == Head(run[p].todo)
           T == Tail(run[p].todo)
<1>0. At(p, "record")
  BY DEF PatchRecord
<1>1. /\ Types /\ Busy(p) /\ n \in Name /\ h.op = "record" /\ Follows(h, T)
      /\ Items(p) = {h} \cup Rest(p) /\ IsOp(h, n, Len(rows))
  BY <1>0, AtStep
<1>2. /\ Calm(n) => /\ Unique(n) /\ Aimed(p, n) /\ NotListed(p) /\ Covers(p, n)
                    /\ Gentle(p, n)
      /\ Quiet(n) => /\ Calm(n) /\ Meant(p, n) /\ Writes(p) /\ Written(p) /\ Installed(p, n)
                     /\ \A k \in RowsOf(n) : Done(n, k) \/ WillDo(p, n, k)
  BY <1>0, AtStep
<1>3. /\ UNCHANGED <<so, rows, fault, broken>> /\ h.id = TheId(p) /\ h.arg = Arg(p)
      /\ (Calm(n)' <=> Calm(n)) /\ (Quiet(n)' <=> Quiet(n))
      /\ RowsOf(n)' = RowsOf(n) /\ ActiveRows(n)' = ActiveRows(n)
  BY SameFault DEF PatchRecord, TheId, Arg, RowsOf, ActiveRows
<1>4. \A y \in Rest(p) : y.op \notin AtFirst /\ y.op # "append"
  BY <1>1 DEF Follows, Rest, Writing
<1>5. NewRun(p, Rest(p))
  BY <1>1, Popped DEF PatchRecord, Types
<1>6. /\ Items(p)' = Rest(p)
      /\ Rest(p) # {} => run'[p].cmd = run[p].cmd /\ run'[p].override = run[p].override
  BY <1>5, RunItems
<1>7. /\ Types' /\ Frame(p, n)
      /\ \A i \in Id : /\ rec'[i].whole = rec[i].whole
                       /\ i # h.id => rec'[i] = rec[i]
                       /\ i = h.id /\ rec[i].whole => rec'[i].active = h.arg
  <2>1. CASE h.id \in Id /\ rec[h.id].whole
    <3> DEFINE r == [rec[h.id] EXCEPT !.active = h.arg]
    <3>1. IsRec(rec[h.id]) /\ h.arg \in {0, 1} /\ NameOf[h.id] = n
      BY <2>1, <1>1 DEF Types, Records, IsOp
    <3>2. IsRec(r) /\ r.active = h.arg /\ r.whole = rec[h.id].whole
      BY <3>1 DEF IsRec
    <3>3. rec' = [rec EXCEPT ![h.id] = r]
      BY <2>1, <1>3 DEF PatchRecord
    <3>6. /\ Types /\ Busy(p) /\ h.id \in Id /\ UNCHANGED <<so, rows, fault, broken>>
      BY <2>1, <1>1, <1>3
    <3> HIDE DEF r, h
    <3>4. rec'[h.id] = r /\ Rewritten(h.id)
      BY <3>2, <3>3, <3>6 DEF Rewritten, Types, Records
    <3>7. Types' /\ Frame(p, n)
      BY <3>1, <3>4, <3>6, <1>5, RecordChanged
    <3>5. QED
      BY <3>2, <3>4, <3>7 DEF Rewritten
  <2>2. CASE ~(h.id \in Id /\ rec[h.id].whole)
    <3>1. rec' = rec
      BY <2>2, <1>3 DEF PatchRecord
    <3>2. Types' /\ Frame(p, n)
      BY <3>1, <1>1, <1>3, <1>5, RunOnly DEF Types, Faults
    <3>3. QED
      BY <2>2, <3>1, <3>2
  <2>3. QED
    BY <2>1, <2>2
<1>8. \A z : HasRow(z)' <=> HasRow(z)
  BY <1>3 DEF HasRow
<1>12. Calm(n)' => Unique(n)' /\ Aimed(p, n)' /\ NotListed(p)' /\ Covers(p, n)'
  <2>1. Calm(n)' => Unique(n)' /\ Covers(p, n)'
    BY <1>1, <1>2, <1>3, <1>6 DEF Unique, Covers
  <2>2. Calm(n)' => Aimed(p, n)' /\ NotListed(p)'
    BY <1>1, <1>2, <1>3, <1>6, <1>8 DEF Aimed, NotListed
  <2>3. QED
    BY <2>1, <2>2
<1>13. Calm(n)' => Gentle(p, n)'
  BY <1>1, <1>2, <1>3, <1>6 DEF Gentle, Switching, Appends, Moving
<1>14. Quiet(n)' => Meant(p, n)' /\ Writes(p)' /\ Written(p)' /\ Installed(p, n)'
  <2>1. Quiet(n)' => Meant(p, n)'
    BY <1>1, <1>2, <1>3, <1>6 DEF Meant, Want
  <2>2. Quiet(n)' => Writes(p)'
    BY <1>1, <1>2, <1>3, <1>6, <1>8 DEF Writes
  <2>3. Written(p)'
    BY <1>4, <1>6 DEF Written, Appends, AtFirst
  <2>4. Quiet(n)' => Installed(p, n)'
    BY <1>1, <1>2, <1>3, <1>6 DEF Installed
  <2>5. QED
    BY <2>1, <2>2, <2>3, <2>4
<1>15. ASSUME Quiet(n)', NEW k \in RowsOf(n)' PROVE Done(n, k)' \/ WillDo(p, n, k)'
  <2>1. /\ k \in RowsOf(n) /\ rows[k].id \in Id /\ Meant(p, n)
        /\ Done(n, k) \/ WillDo(p, n, k)
    BY <1>15, <1>1, <1>2, <1>3, RowFacts DEF RowsOf, Types
  <2>9. HasRow(so[n])' <=> HasRow(so[n])
    BY <1>3 DEF HasRow
  <2>2. CASE \E o \in Rest(p) : o.op = "activate"
    BY <2>2, <1>6 DEF WillDo
  <2>3. CASE ~(\E o \in Rest(p) : o.op = "activate") /\ rows[k].id = h.id
    <3>1. h.arg = Want(n, h.id)
      BY <2>1, <2>3, <1>1 DEF Meant
    <3>2. CASE rows[k].active = Want(n, h.id)
      <4>1. rec'[h.id].whole => rec'[h.id].active = Want(n, h.id)
        BY <3>1, <2>1, <2>3, <1>7
      <4>2. Done(n, k)'
        BY <3>2, <4>1, <2>3, <1>3 DEF Done, Want
      <4>3. QED
        BY <4>2
    <3>3. CASE rows[k].active # Want(n, h.id)
      <4>1. WillDo(p, n, k)
        BY <3>3, <2>1, <2>3 DEF Done
      <4>2. WillDo(p, n, k)'
        BY <3>3, <4>1, <2>3, <2>9, <1>1, <1>3, <1>6 DEF WillDo, Want
      <4>3. QED
        BY <4>2
    <3>4. QED
      BY <3>2, <3>3
  <2>4. CASE ~(\E o \in Rest(p) : o.op = "activate") /\ rows[k].id # h.id
    <3>1. rec'[rows[k].id] = rec[rows[k].id]
      BY <2>1, <2>4, <1>7
    <3>2. CASE Done(n, k)
      BY <3>1, <3>2, <1>3 DEF Done, Want
    <3>3. CASE WillDo(p, n, k)
      <4>2. WillDo(p, n, k)'
        BY <3>3, <2>4, <2>9, <1>1, <1>3, <1>6 DEF WillDo, Want
      <4>3. QED
        BY <4>2
    <3>4. QED
      BY <2>1, <3>2, <3>3
  <2>5. QED
    BY <2>2, <2>3, <2>4
<1>16. QED
  BY <1>1, <1>3, <1>7, <1>12, <1>13, <1>14, <1>15, StepInv DEF OwnOrdered, OwnOrderly

(* Nothing but what p has to do changes. *)
LEMMA Unmoved ==
    ASSUME NEW n, UNCHANGED <<so, rows, rec, fault, broken>>
    PROVE  /\ (Calm(n)' <=> Calm(n)) /\ (Quiet(n)' <=> Quiet(n)) /\ (Unique(n)' <=> Unique(n))
           /\ RowsOf(n)' = RowsOf(n) /\ ActiveRows(n)' = ActiveRows(n)
           /\ (HasRow(so[n])' <=> HasRow(so[n])) /\ (\A z : HasRow(z)' <=> HasRow(z))
           /\ (\A k : Done(n, k)' <=> Done(n, k))
<1>1. (Calm(n)' <=> Calm(n)) /\ (Quiet(n)' <=> Quiet(n))
  BY SameFault
<1>2. RowsOf(n)' = RowsOf(n) /\ ActiveRows(n)' = ActiveRows(n)
  BY DEF RowsOf, ActiveRows
<1>3. (HasRow(so[n])' <=> HasRow(so[n])) /\ (\A z : HasRow(z)' <=> HasRow(z))
  BY DEF HasRow
<1>4. Unique(n)' <=> Unique(n)
  BY <1>2 DEF Unique
<1>5. \A k : Done(n, k)' <=> Done(n, k)
  BY DEF Done, Want
<1>6. QED
  BY <1>1, <1>2, <1>3, <1>4, <1>5

LEMMA DeactivateStep ==
    ASSUME IInv, NEW p \in Proc, Deactivate(p), NEW n, n = TheName(p)
    PROVE  IInv'
<1> DEFINE h == Head(run[p].todo)
           T == Tail(run[p].todo)
<1>0. At(p, "deactivate")
  BY DEF Deactivate
<1>1. /\ Types /\ Busy(p) /\ n \in Name /\ h.op = "deactivate" /\ Follows(h, T)
      /\ Items(p) = {h} \cup Rest(p) /\ IsOp(h, n, Len(rows))
  BY <1>0, AtStep
<1>2. /\ Calm(n) => /\ Unique(n) /\ Aimed(p, n) /\ NotListed(p) /\ Covers(p, n)
                    /\ Gentle(p, n)
      /\ Quiet(n) => /\ Calm(n) /\ Meant(p, n) /\ Writes(p) /\ Written(p) /\ Installed(p, n)
                     /\ \A k \in RowsOf(n) : Done(n, k) \/ WillDo(p, n, k)
  BY <1>0, AtStep
<1>3. /\ UNCHANGED <<so, rows, rec, fault, broken>> /\ h.id = TheId(p) /\ h.arg = Arg(p)
  BY DEF Deactivate, Listed, TheId, Arg
<1>4. /\ (Calm(n)' <=> Calm(n)) /\ (Quiet(n)' <=> Quiet(n)) /\ (Unique(n)' <=> Unique(n))
      /\ RowsOf(n)' = RowsOf(n) /\ ActiveRows(n)' = ActiveRows(n)
      /\ (HasRow(so[n])' <=> HasRow(so[n])) /\ (\A z : HasRow(z)' <=> HasRow(z))
      /\ (\A k : Done(n, k)' <=> Done(n, k))
  BY <1>3, Unmoved
<1> DEFINE o1 == Op("off", h.id, [from |-> 1, to |-> Len(rows)])
<1>5. NewRun(p, {o1} \cup Rest(p))
  BY <1>1, <1>3, DeactivateRun DEF Types
<1>6. /\ Items(p)' = {o1} \cup Rest(p)
      /\ run'[p].cmd = run[p].cmd /\ run'[p].override = run[p].override
  BY <1>5, RunItems
<1>7. Types' /\ Frame(p, n)
  BY <1>1, <1>3, <1>5, RunOnly DEF Types, Faults
<1>8. o1.op = "off" /\ o1.id = h.id /\ o1.arg.from = 1 /\ o1.arg.to = Len(rows)
  BY DEF Op
<1>9. \A k \in RowsOf(n) : k \in Nat /\ 1 <= k /\ k <= Len(rows)
  BY <1>1, RowFacts DEF RowsOf, Types
<1> HIDE DEF o1
<1>10. Calm(n)' => Aimed(p, n)' /\ NotListed(p)'
  BY <1>1, <1>2, <1>3, <1>4, <1>6, <1>8 DEF Aimed, NotListed, OfInstalled, Appends
<1>11. Calm(n)' => Covers(p, n)'
  BY <1>1, <1>2, <1>4, <1>6, <1>8, <1>9 DEF Covers
<1>12. Calm(n)' => Gentle(p, n)'
  BY <1>1, <1>2, <1>3, <1>4, <1>6, <1>8 DEF Gentle, Switching, Appends, Moving
<1>13. Quiet(n)' => Meant(p, n)' /\ Writes(p)' /\ Written(p)' /\ Installed(p, n)'
  <2>1. Quiet(n)' => Meant(p, n)'
    BY <1>1, <1>2, <1>3, <1>4, <1>6, <1>8 DEF Meant, Want
  <2>2. Quiet(n)' => Writes(p)' /\ Written(p)'
    BY <1>1, <1>2, <1>3, <1>4, <1>6, <1>8 DEF Writes, Written, Writing, Appends
  <2>3. Quiet(n)' => Installed(p, n)'
    BY <1>1, <1>2, <1>3, <1>4, <1>6, <1>8 DEF Installed
  <2>4. QED
    BY <2>1, <2>2, <2>3
<1>14. ASSUME Quiet(n)', NEW k \in RowsOf(n)', WillDo(p, n, k) PROVE WillDo(p, n, k)'
  BY <1>1, <1>3, <1>4, <1>6, <1>8, <1>9, <1>14 DEF WillDo, Want
<1>15. QED
  BY <1>1, <1>2, <1>4, <1>7, <1>10, <1>11, <1>12, <1>13, <1>14, StepInv
     DEF OwnOrdered, OwnOrderly

LEMMA SwitchOffStep ==
    ASSUME IInv, NEW p \in Proc, SwitchOff(p), NEW n, n = TheName(p)
    PROVE  IInv'
<1> DEFINE h == Head(run[p].todo)
           T == Tail(run[p].todo)
<1>0. At(p, "off")
  BY DEF SwitchOff
<1>1. /\ Types /\ Busy(p) /\ n \in Name /\ h.op = "off" /\ Follows(h, T)
      /\ Items(p) = {h} \cup Rest(p) /\ IsOp(h, n, Len(rows))
  BY <1>0, AtStep
<1>2. /\ Calm(n) => /\ Unique(n) /\ Aimed(p, n) /\ NotListed(p) /\ Covers(p, n)
                    /\ Gentle(p, n)
      /\ Quiet(n) => /\ Calm(n) /\ Meant(p, n) /\ Writes(p) /\ Written(p) /\ Installed(p, n)
                     /\ \A k \in RowsOf(n) : Done(n, k) \/ WillDo(p, n, k)
  BY <1>0, AtStep
<1>3. /\ UNCHANGED <<so, rows, rec, fault, broken>> /\ h.id = TheId(p) /\ h.arg = Arg(p)
  BY DEF SwitchOff, Listed, TheId, Arg
<1>4. /\ (Calm(n)' <=> Calm(n)) /\ (Quiet(n)' <=> Quiet(n)) /\ (Unique(n)' <=> Unique(n))
      /\ RowsOf(n)' = RowsOf(n) /\ ActiveRows(n)' = ActiveRows(n)
      /\ (HasRow(so[n])' <=> HasRow(so[n])) /\ (\A z : HasRow(z)' <=> HasRow(z))
      /\ (\A k : Done(n, k)' <=> Done(n, k))
  BY <1>3, Unmoved
<1>5. /\ h.arg.from \in Nat /\ h.arg.to \in Nat
      /\ \A k \in RowsOf(n) : k \in Nat /\ k \in DOMAIN rows /\ rows[k].name = n
  BY <1>1, RowFacts DEF RowsOf, Types, IsOp
<1>6. \A y \in Rest(p) : y.op # "off"
  BY <1>1 DEF Follows, Rest
<1>7. ASSUME Calm(n), NEW k \in RowsOf(n), rows[k].id # so[n], h.arg.from <= k
      PROVE  k \in OtherRows(p)
  <2>1. h.id = so[n] /\ k <= h.arg.to
    BY <1>1, <1>2, <1>7 DEF Aimed, OfInstalled, Covers
  <2>2. QED
    BY <2>1, <1>3, <1>5, <1>7 DEF OtherRows
<1>8. CASE OtherRows(p) = {}
  <2>1. NewRun(p, Rest(p))
    BY <1>1, <1>8, SwitchOffRun DEF Types
  <2>2. /\ Items(p)' = Rest(p)
        /\ Rest(p) # {} => run'[p].cmd = run[p].cmd /\ run'[p].override = run[p].override
    BY <2>1, RunItems
  <2>3. Types' /\ Frame(p, n)
    BY <1>1, <1>3, <2>1, RunOnly DEF Types, Faults
  <2>4. Calm(n)' => Aimed(p, n)' /\ NotListed(p)' /\ Covers(p, n)'
    BY <1>1, <1>2, <1>3, <1>4, <2>2 DEF Aimed, NotListed, Covers
  <2>5. Calm(n)' => Gentle(p, n)'
    BY <1>1, <1>2, <1>3, <1>4, <2>2 DEF Gentle, Switching, Appends, Moving
  <2>6. Quiet(n)' => Meant(p, n)' /\ Writes(p)' /\ Written(p)' /\ Installed(p, n)'
    <3>1. Quiet(n)' => Meant(p, n)'
      BY <1>1, <1>2, <1>3, <1>4, <2>2 DEF Meant, Want
    <3>2. Quiet(n)' => Writes(p)' /\ Written(p)'
      BY <1>1, <1>2, <1>3, <1>4, <2>2 DEF Writes, Written, Writing, Appends
    <3>3. Quiet(n)' => Installed(p, n)'
      BY <1>1, <1>2, <1>3, <1>4, <2>2 DEF Installed
    <3>4. QED
      BY <3>1, <3>2, <3>3
  <2>7. ASSUME Quiet(n)', NEW k \in RowsOf(n)', WillDo(p, n, k) PROVE WillDo(p, n, k)'
    <3>1. ~(rows[k].id # so[n] /\ h.arg.from <= k)
      BY <1>2, <1>4, <1>7, <1>8, <2>7
    <3>2. QED
      BY <3>1, <1>1, <1>3, <1>4, <2>2, <2>7 DEF WillDo, Want
  <2>8. QED
    BY <1>1, <1>2, <1>4, <2>3, <2>4, <2>5, <2>6, <2>7, StepInv DEF OwnOrdered, OwnOrderly
<1>9. CASE OtherRows(p) # {}
  <2> DEFINE m == Min(OtherRows(p))
             x == rows[m].id
             o1 == Op("row", x, 0)
             o2 == Op("record", x, 0)
             o3 == Op("off", h.id, [from |-> m + 1, to |-> h.arg.to])
             F == {o1, o2, o3}
  <2>1. /\ m \in OtherRows(p) /\ (\A k \in OtherRows(p) : m <= k)
        /\ OtherRows(p) \subseteq DOMAIN rows /\ NewRun(p, F \cup Rest(p))
    BY <1>1, <1>3, <1>9, SwitchOffRun DEF Types
  <2>2. /\ Items(p)' = F \cup Rest(p)
        /\ run'[p].cmd = run[p].cmd /\ run'[p].override = run[p].override
    BY <2>1, RunItems
  <2>3. Types' /\ Frame(p, n)
    BY <1>1, <1>3, <2>1, RunOnly DEF Types, Faults
  <2>4. x # h.id /\ m \in Nat
    BY <2>1, <1>1, <1>3, RowFacts DEF OtherRows, Types
  <2>5. /\ o1.op = "row" /\ o1.id = x /\ o1.arg = 0
        /\ o2.op = "record" /\ o2.id = x /\ o2.arg = 0
        /\ o3.op = "off" /\ o3.id = h.id /\ o3.arg.from = m + 1 /\ o3.arg.to = h.arg.to
    BY DEF Op
  <2>6. Calm(n) => x # so[n] /\ h.id = so[n]
    BY <1>1, <1>2, <2>4 DEF Aimed, OfInstalled
  <2> HIDE DEF m, x, o1, o2, o3
  <2>7. Calm(n)' => Aimed(p, n)' /\ NotListed(p)' /\ Covers(p, n)'
    BY <1>1, <1>2, <1>3, <1>4, <2>2, <2>5, <2>6 DEF Aimed, NotListed, Covers, OfInstalled, Appends
  <2>8. Calm(n)' => Gentle(p, n)'
    BY <1>1, <1>2, <1>3, <1>4, <2>2, <2>5, <2>6 DEF Gentle, Switching, Appends, Moving
  <2>9. Quiet(n)' => Meant(p, n)' /\ Writes(p)' /\ Written(p)' /\ Installed(p, n)'
    <3>1. Quiet(n)' => Meant(p, n)'
      BY <1>1, <1>2, <1>3, <1>4, <2>2, <2>5, <2>6 DEF Meant, Want
    <3>2. Quiet(n)' => Writes(p)' /\ Written(p)'
      BY <1>1, <1>2, <1>3, <1>4, <2>2, <2>5 DEF Writes, Written, Writing, Appends
    <3>3. Quiet(n)' => Installed(p, n)'
      BY <1>1, <1>2, <1>3, <1>4, <2>2, <2>5 DEF Installed
    <3>4. QED
      BY <3>1, <3>2, <3>3
  <2>10. ASSUME Quiet(n)', NEW k \in RowsOf(n)', WillDo(p, n, k) PROVE WillDo(p, n, k)'
    <3>1. CASE rows[k].id # so[n] /\ h.arg.from <= k
      <4>1. k \in OtherRows(p) /\ m <= k /\ k \in Nat
        BY <3>1, <1>2, <1>4, <1>5, <1>7, <2>1, <2>10
      <4>2. CASE k = m
        <5>1. rows[k].id = x /\ Want(n, x) = 0
          BY <4>2, <3>1 DEF x, Want
        <5>2. QED
          BY <5>1, <3>1, <1>3, <2>2, <2>5 DEF WillDo, Want
      <4>3. CASE k # m
        <5>1. m + 1 <= k
          BY <4>1, <4>3, <2>4
        <5>2. QED
          BY <5>1, <3>1, <1>3, <2>2, <2>5 DEF WillDo, Want
      <4>4. QED
        BY <4>2, <4>3
    <3>2. CASE ~(rows[k].id # so[n] /\ h.arg.from <= k)
      BY <3>2, <1>1, <1>3, <1>4, <2>2, <2>10 DEF WillDo, Want
    <3>3. QED
      BY <3>1, <3>2
  <2>11. QED
    BY <1>1, <1>2, <1>4, <2>3, <2>7, <2>8, <2>9, <2>10, StepInv DEF OwnOrdered, OwnOrderly
<1>10. QED
  BY <1>8, <1>9

(* The index and the objects stay as they are. *)
LEMMA SameIndex ==
    ASSUME NEW n, UNCHANGED <<so, rows, fault, broken>>
    PROVE  /\ (Calm(n)' <=> Calm(n)) /\ (Quiet(n)' <=> Quiet(n)) /\ (Unique(n)' <=> Unique(n))
           /\ RowsOf(n)' = RowsOf(n) /\ ActiveRows(n)' = ActiveRows(n)
           /\ (HasRow(so[n])' <=> HasRow(so[n])) /\ (\A z : HasRow(z)' <=> HasRow(z))
<1>1. (Calm(n)' <=> Calm(n)) /\ (Quiet(n)' <=> Quiet(n))
  BY SameFault
<1>2. RowsOf(n)' = RowsOf(n) /\ ActiveRows(n)' = ActiveRows(n)
  BY DEF RowsOf, ActiveRows
<1>3. (HasRow(so[n])' <=> HasRow(so[n])) /\ (\A z : HasRow(z)' <=> HasRow(z))
  BY DEF HasRow
<1>4. Unique(n)' <=> Unique(n)
  BY <1>2 DEF Unique
<1>5. QED
  BY <1>1, <1>2, <1>3, <1>4

LEMMA WriteOpenStep ==
    ASSUME IInv, NEW p \in Proc, WriteOpen(p), NEW n, n = TheName(p)
    PROVE  IInv'
<1> DEFINE h == Head(run[p].todo)
           T == Tail(run[p].todo)
<1>0. At(p, "write_open")
  BY DEF WriteOpen
<1>1. /\ Types /\ Busy(p) /\ n \in Name /\ h.op = "write_open" /\ Follows(h, T)
      /\ Items(p) = {h} \cup Rest(p) /\ IsOp(h, n, Len(rows))
  BY <1>0, AtStep
<1>2. /\ Calm(n) => /\ Unique(n) /\ Aimed(p, n) /\ NotListed(p) /\ Covers(p, n)
                    /\ Gentle(p, n)
      /\ Quiet(n) => /\ Calm(n) /\ Meant(p, n) /\ Writes(p) /\ Written(p) /\ Installed(p, n)
                     /\ \A k \in RowsOf(n) : Done(n, k) \/ WillDo(p, n, k)
  BY <1>0, AtStep
<1>3. /\ UNCHANGED <<so, rows, fault, broken>> /\ h.id = TheId(p) /\ h.arg = Arg(p)
  BY DEF WriteOpen, TheId, Arg
<1>4. /\ (Calm(n)' <=> Calm(n)) /\ (Quiet(n)' <=> Quiet(n)) /\ (Unique(n)' <=> Unique(n))
      /\ RowsOf(n)' = RowsOf(n) /\ ActiveRows(n)' = ActiveRows(n)
      /\ (HasRow(so[n])' <=> HasRow(so[n])) /\ (\A z : HasRow(z)' <=> HasRow(z))
  BY <1>3, SameIndex
<1>5. /\ h.id \in Id /\ NameOf[h.id] = n /\ IsRec(h.arg)
  BY <1>1 DEF IsOp, OfObject
<1>6. \A k \in RowsOf(n) : rows[k].id \in Id
  BY <1>1, RowFacts DEF RowsOf, Types
<1> DEFINE o1 == Op("write", h.id, h.arg)
<1>7. NewRun(p, {o1} \cup Rest(p))
  BY <1>1, <1>3, WriteOpenRun DEF Types
<1>8. /\ Items(p)' = {o1} \cup Rest(p)
      /\ run'[p].cmd = run[p].cmd /\ run'[p].override = run[p].override
  BY <1>7, RunItems
<1>9. o1.op = "write" /\ o1.id = h.id /\ o1.arg = h.arg
  BY DEF Op
<1> HIDE DEF o1
<1>10. /\ Types' /\ Frame(p, n) /\ rec'[h.id].whole = FALSE
       /\ rec'[h.id].active = rec[h.id].active /\ \A i \in Id \ {h.id} : rec'[i] = rec[i]
  <2> DEFINE r == [rec[h.id] EXCEPT !.live = TRUE, !.whole = FALSE]
  <2>1. IsRec(rec[h.id]) /\ rec = [i \in Id |-> rec[i]]
    BY <1>1, <1>5 DEF Types, Records
  <2>2. IsRec(r) /\ r.whole = FALSE /\ r.active = rec[h.id].active
    BY <2>1 DEF IsRec
  <2>3. rec' = [rec EXCEPT ![h.id].live = TRUE, ![h.id].whole = FALSE]
    BY <1>3 DEF WriteOpen
  <2>6. rec'[h.id] = r /\ rec' = [i \in Id |-> rec'[i]] /\ \A i \in Id \ {h.id} : rec'[i] = rec[i]
    BY <2>1, <2>3, <1>5
  <2>4. rec'[h.id] = r /\ Rewritten(h.id)
    BY <2>2, <2>6 DEF Rewritten
  <2>5. Types' /\ Frame(p, n)
    BY <2>4, <1>1, <1>3, <1>5, <1>7, RecordChanged
  <2>7. QED
    BY <2>2, <2>5, <2>6
<1>11. Calm(n)' => Aimed(p, n)' /\ NotListed(p)' /\ Covers(p, n)'
  BY <1>1, <1>2, <1>3, <1>4, <1>8, <1>9 DEF Aimed, NotListed, Covers, OfInstalled, Appends
<1>12. Calm(n)' => Gentle(p, n)'
  BY <1>1, <1>2, <1>3, <1>4, <1>8, <1>9 DEF Gentle, Switching, Appends, Moving
<1>13. Quiet(n)' => Meant(p, n)' /\ Writes(p)' /\ Written(p)' /\ Installed(p, n)'
  <2>1. Quiet(n)' => Meant(p, n)'
    BY <1>1, <1>2, <1>3, <1>4, <1>8, <1>9 DEF Meant, Want
  <2>2. Quiet(n)' => Writes(p)' /\ Written(p)'
    BY <1>1, <1>2, <1>3, <1>4, <1>8, <1>9 DEF Writes, Written, Writing, Appends
  <2>3. Quiet(n)' => Installed(p, n)'
    BY <1>1, <1>2, <1>3, <1>4, <1>8, <1>9 DEF Installed
  <2>4. QED
    BY <2>1, <2>2, <2>3
<1>14. ASSUME Quiet(n)', NEW k \in RowsOf(n)' PROVE Done(n, k)' \/ WillDo(p, n, k)'
  <2>1. k \in RowsOf(n) /\ rows[k].id \in Id /\ (Done(n, k) \/ WillDo(p, n, k))
    BY <1>2, <1>4, <1>6, <1>14
  <2>2. CASE Done(n, k)
    BY <2>1, <2>2, <1>3, <1>10 DEF Done, Want
  <2>3. CASE WillDo(p, n, k)
    <3>1. WillDo(p, n, k)'
      BY <2>3, <1>1, <1>3, <1>4, <1>8, <1>9 DEF WillDo, Want
    <3>2. QED
      BY <3>1
  <2>4. QED
    BY <2>1, <2>2, <2>3
<1>15. QED
  BY <1>1, <1>2, <1>4, <1>10, <1>11, <1>12, <1>13, <1>14, StepInv DEF OwnOrdered, OwnOrderly

LEMMA WriteStep ==
    ASSUME IInv, NEW p \in Proc, Write(p), NEW n, n = TheName(p)
    PROVE  IInv'
<1> DEFINE h == Head(run[p].todo)
           T == Tail(run[p].todo)
<1>0. At(p, "write")
  BY DEF Write
<1>1. /\ Types /\ Busy(p) /\ n \in Name /\ h.op = "write" /\ Follows(h, T)
      /\ Items(p) = {h} \cup Rest(p) /\ IsOp(h, n, Len(rows))
  BY <1>0, AtStep
<1>2. /\ Calm(n) => /\ Unique(n) /\ Aimed(p, n) /\ NotListed(p) /\ Covers(p, n)
                    /\ Gentle(p, n)
      /\ Quiet(n) => /\ Calm(n) /\ Meant(p, n) /\ Writes(p) /\ Written(p) /\ Installed(p, n)
                     /\ \A k \in RowsOf(n) : Done(n, k) \/ WillDo(p, n, k)
  BY <1>0, AtStep
<1>3. /\ UNCHANGED <<so, rows, fault, broken>> /\ h.id = TheId(p) /\ h.arg = Arg(p)
  BY DEF Write, TheId, Arg
<1>4. /\ (Calm(n)' <=> Calm(n)) /\ (Quiet(n)' <=> Quiet(n)) /\ (Unique(n)' <=> Unique(n))
      /\ RowsOf(n)' = RowsOf(n) /\ ActiveRows(n)' = ActiveRows(n)
      /\ (HasRow(so[n])' <=> HasRow(so[n])) /\ (\A z : HasRow(z)' <=> HasRow(z))
  BY <1>3, SameIndex
<1>5. /\ h.id \in Id /\ NameOf[h.id] = n /\ IsRec(h.arg)
  BY <1>1 DEF IsOp, OfObject
<1>6. \A k \in RowsOf(n) : rows[k].id \in Id
  BY <1>1, RowFacts DEF RowsOf, Types
<1>7. NewRun(p, Rest(p))
  BY <1>1, Popped DEF Write, Types
<1>8. /\ Items(p)' = Rest(p)
      /\ Rest(p) # {} => run'[p].cmd = run[p].cmd /\ run'[p].override = run[p].override
  BY <1>7, RunItems
<1>9. \A y \in Rest(p) : y.op \notin Writing /\ y.op # "append_end"
  BY <1>1 DEF Follows, Rest, AtFirst, Writing
<1>10. /\ Types' /\ Frame(p, n) /\ rec'[h.id] = h.arg
       /\ \A i \in Id \ {h.id} : rec'[i] = rec[i]
  <2>1. rec = [i \in Id |-> rec[i]]
    BY <1>1 DEF Types, Records
  <2>2. rec' = [rec EXCEPT ![h.id] = h.arg]
    BY <1>3 DEF Write
  <2>3. /\ rec'[h.id] = h.arg /\ rec' = [i \in Id |-> rec'[i]]
        /\ \A i \in Id \ {h.id} : rec'[i] = rec[i]
    BY <2>1, <2>2, <1>5
  <2>4. Rewritten(h.id)
    BY <2>3, <1>5 DEF Rewritten
  <2>5. Types' /\ Frame(p, n)
    BY <2>4, <1>1, <1>3, <1>5, <1>7, RecordChanged
  <2>6. QED
    BY <2>3, <2>5
<1>11. Calm(n)' => Aimed(p, n)' /\ NotListed(p)' /\ Covers(p, n)'
  BY <1>1, <1>2, <1>3, <1>4, <1>8 DEF Aimed, NotListed, Covers
<1>12. Calm(n)' => Gentle(p, n)'
  BY <1>1, <1>2, <1>3, <1>4, <1>8 DEF Gentle, Switching, Appends, Moving
<1>13. Quiet(n)' => Meant(p, n)' /\ Writes(p)' /\ Written(p)' /\ Installed(p, n)'
  <2>1. Quiet(n)' => Meant(p, n)'
    BY <1>1, <1>2, <1>3, <1>4, <1>8 DEF Meant, Want
  <2>2. Writes(p)'
    BY <1>8, <1>9 DEF Writes
  <2>3. ASSUME Quiet(n), NEW o \in Rest(p), o.op \in Appends PROVE rec'[o.id].active = 1
    <3>1. o.id = so[n] /\ h.id = so[n]
      BY <2>3, <1>1, <1>2 DEF Aimed, OfInstalled, Appends
    <3>2. h.arg.active = 1
      BY <2>3, <1>1, <1>2 DEF Writes, Writing
    <3>3. QED
      BY <3>1, <3>2, <1>10
  <2>4. Quiet(n)' => Written(p)'
    BY <2>3, <1>4, <1>8 DEF Written
  <2>5. Quiet(n)' => Installed(p, n)'
    BY <1>1, <1>2, <1>3, <1>4, <1>8 DEF Installed
  <2>6. QED
    BY <2>1, <2>2, <2>4, <2>5
<1>14. ASSUME Quiet(n)', NEW k \in RowsOf(n)' PROVE Done(n, k)' \/ WillDo(p, n, k)'
  <2>1. k \in RowsOf(n) /\ rows[k].id \in Id /\ (Done(n, k) \/ WillDo(p, n, k))
    BY <1>2, <1>4, <1>6, <1>14
  <2>2. CASE Done(n, k)
    <3>1. CASE rows[k].id # h.id
      BY <3>1, <2>1, <2>2, <1>3, <1>10 DEF Done, Want
    <3>2. CASE rows[k].id = h.id
      <4>1. h.id = so[n]
        BY <1>1, <1>2, <1>4, <1>14 DEF Aimed, OfInstalled
      <4>2. HasRow(h.id)
        BY <3>2, <2>1 DEF HasRow, RowsOf
      <4>3. h.arg.active = 1
        BY <4>2, <1>1, <1>2, <1>4, <1>14 DEF Writes, Writing
      <4>4. Done(n, k)'
        BY <3>2, <4>1, <4>3, <2>2, <1>3, <1>10 DEF Done, Want
      <4>5. QED
        BY <4>4
    <3>3. QED
      BY <3>1, <3>2
  <2>3. CASE WillDo(p, n, k)
    <3>1. WillDo(p, n, k)'
      BY <2>3, <1>1, <1>3, <1>4, <1>8 DEF WillDo, Want
    <3>2. QED
      BY <3>1
  <2>4. QED
    BY <2>1, <2>2, <2>3
<1>15. QED
  BY <1>1, <1>2, <1>4, <1>10, <1>11, <1>12, <1>13, <1>14, StepInv DEF OwnOrdered, OwnOrderly

LEMMA AppendBeginStep ==
    ASSUME IInv, NEW p \in Proc, AppendBegin(p), NEW n, n = TheName(p)
    PROVE  IInv'
<1> DEFINE h == Head(run[p].todo)
           T == Tail(run[p].todo)
<1>0. At(p, "append")
  BY DEF AppendBegin
<1>1. /\ Types /\ Busy(p) /\ n \in Name /\ h.op = "append" /\ Follows(h, T)
      /\ Items(p) = {h} \cup Rest(p) /\ IsOp(h, n, Len(rows))
  BY <1>0, AtStep
<1>2. /\ Calm(n) => /\ Unique(n) /\ Aimed(p, n) /\ NotListed(p) /\ Covers(p, n)
                    /\ Gentle(p, n)
      /\ Quiet(n) => /\ Calm(n) /\ Meant(p, n) /\ Writes(p) /\ Written(p) /\ Installed(p, n)
                     /\ \A k \in RowsOf(n) : Done(n, k) \/ WillDo(p, n, k)
  BY <1>0, AtStep
<1>3. /\ UNCHANGED <<so, rows, rec, fault, broken>> /\ h.id = TheId(p) /\ h.arg = Arg(p)
  BY DEF AppendBegin, Listed, TheId, Arg
<1>4. /\ (Calm(n)' <=> Calm(n)) /\ (Quiet(n)' <=> Quiet(n)) /\ (Unique(n)' <=> Unique(n))
      /\ RowsOf(n)' = RowsOf(n) /\ ActiveRows(n)' = ActiveRows(n)
      /\ (HasRow(so[n])' <=> HasRow(so[n])) /\ (\A z : HasRow(z)' <=> HasRow(z))
      /\ (\A k : Done(n, k)' <=> Done(n, k))
  BY <1>3, Unmoved
<1> DEFINE o1 == Op("append_end", h.id, 0)
<1>5. NewRun(p, {o1} \cup Rest(p))
  BY <1>1, <1>3, AppendBeginRun DEF Types
<1>6. /\ Items(p)' = {o1} \cup Rest(p)
      /\ run'[p].cmd = run[p].cmd /\ run'[p].override = run[p].override
  BY <1>5, RunItems
<1>7. Types' /\ Frame(p, n)
  BY <1>1, <1>3, <1>5, RunOnly DEF Types, Faults
<1>8. o1.op = "append_end" /\ o1.id = h.id
  BY DEF Op
<1>9. \A y \in Rest(p) : y.op \notin Writing /\ y.op \notin Appends
  BY <1>1 DEF Follows, Rest, AtFirst, Writing, Appends
<1> HIDE DEF o1
<1>10. Calm(n)' => Aimed(p, n)' /\ NotListed(p)' /\ Covers(p, n)'
  BY <1>1, <1>2, <1>3, <1>4, <1>6, <1>8 DEF Aimed, NotListed, Covers, OfInstalled, Appends
<1>11. Calm(n)' => Gentle(p, n)'
  BY <1>1, <1>2, <1>3, <1>4, <1>6, <1>8 DEF Gentle, Switching, Appends, Moving
<1>12. Quiet(n)' => Meant(p, n)' /\ Writes(p)' /\ Written(p)' /\ Installed(p, n)'
  <2>1. Quiet(n)' => Meant(p, n)'
    BY <1>1, <1>2, <1>3, <1>4, <1>6, <1>8 DEF Meant, Want
  <2>2. Writes(p)'
    BY <1>6, <1>8, <1>9 DEF Writes, Writing
  <2>3. Quiet(n) => rec[h.id].active = 1
    BY <1>1, <1>2, <1>9 DEF Written, Writing, Appends
  <2>4. Quiet(n)' => Written(p)'
    BY <2>3, <1>3, <1>4, <1>6, <1>8, <1>9 DEF Written
  <2>5. Quiet(n)' => Installed(p, n)'
    BY <1>1, <1>2, <1>3, <1>4, <1>6, <1>8 DEF Installed
  <2>6. QED
    BY <2>1, <2>2, <2>4, <2>5
<1>13. ASSUME Quiet(n)', NEW k \in RowsOf(n)', WillDo(p, n, k) PROVE WillDo(p, n, k)'
  BY <1>1, <1>3, <1>4, <1>6, <1>8, <1>13 DEF WillDo, Want
<1>14. QED
  BY <1>1, <1>2, <1>4, <1>7, <1>10, <1>11, <1>12, <1>13, StepInv DEF OwnOrdered, OwnOrderly

LEMMA RunLonger ==
    ASSUME NEW r, NEW len \in Nat, NEW more \in Nat, len <= more, IsRun(r, len)
    PROVE  IsRun(r, more)
<1>1. ASSUME NEW o, IsOp(o, r.name, len) PROVE IsOp(o, r.name, more)
  <2>1. [from : Nat \ {0}, to : 0..len] \subseteq [from : Nat \ {0}, to : 0..more]
    OBVIOUS
  <2>2. o.op = "off" => o.arg \in [from : Nat \ {0}, to : 0..more]
    BY <1>1, <2>1 DEF IsOp
  <2>3. QED
    BY <1>1, <2>2 DEF IsOp
<1>2. QED
  BY <1>1 DEF IsRun

LEMMA RowAppended ==
    ASSUME Rows, NEW r, IsRow(r), rows' = Append(rows, r)
    PROVE  /\ Rows' /\ Len(rows') = Len(rows) + 1 /\ Len(rows) \in Nat
           /\ DOMAIN rows' = DOMAIN rows \cup {Len(rows) + 1} /\ Len(rows) + 1 \notin DOMAIN rows
           /\ \A k \in DOMAIN rows : rows'[k] = rows[k]
           /\ rows'[Len(rows) + 1] = r
<1>1. Len(rows) \in Nat /\ DOMAIN rows = 1..Len(rows) /\ \A k \in DOMAIN rows : IsRow(rows[k])
  BY RowFacts
<1>2. rows \in Seq(Range(rows) \cup {r})
  BY DEF Rows, IsSeq
<1>3. /\ rows' \in Seq(Range(rows) \cup {r}) /\ Len(rows') = Len(rows) + 1
      /\ \A k \in 1..Len(rows) : rows'[k] = rows[k]
      /\ rows'[Len(rows) + 1] = r
  BY <1>1, <1>2
<1>4. IsSeq(rows')
  BY <1>3, SeqOver
<1>5. DOMAIN rows' = 1..Len(rows) + 1
  BY <1>3, <1>4, SeqFacts
<1>6. DOMAIN rows' = DOMAIN rows \cup {Len(rows) + 1} /\ Len(rows) + 1 \notin DOMAIN rows
  BY <1>1, <1>5
<1>7. \A k \in DOMAIN rows' : IsRow(rows'[k])
  BY <1>1, <1>3, <1>6
<1>8. QED
  BY <1>1, <1>3, <1>4, <1>6, <1>7 DEF Rows

LEMMA AppendEndStep ==
    ASSUME IInv, NEW p \in Proc, AppendEnd(p), NEW n, n = TheName(p)
    PROVE  IInv'
<1> DEFINE h == Head(run[p].todo)
           T == Tail(run[p].todo)
<1>0. At(p, "append_end")
  BY DEF AppendEnd
<1>1. /\ Types /\ Busy(p) /\ n \in Name /\ h.op = "append_end" /\ Follows(h, T)
      /\ Items(p) = {h} \cup Rest(p) /\ IsOp(h, n, Len(rows))
  BY <1>0, AtStep
<1>2. /\ Calm(n) => /\ Unique(n) /\ Aimed(p, n) /\ NotListed(p) /\ Covers(p, n)
                    /\ Gentle(p, n)
      /\ Quiet(n) => /\ Calm(n) /\ Meant(p, n) /\ Writes(p) /\ Written(p) /\ Installed(p, n)
                     /\ \A k \in RowsOf(n) : Done(n, k) \/ WillDo(p, n, k)
  BY <1>0, AtStep
<1>3. /\ UNCHANGED <<so, rec, fault, broken>> /\ h.id = TheId(p)
      /\ (Calm(n)' <=> Calm(n)) /\ (Quiet(n)' <=> Quiet(n))
  BY SameFault DEF AppendEnd, TheId
<1>4. /\ h.id \in Id /\ NameOf[h.id] = n
      /\ \A y \in Rest(p) : /\ y.op \notin Writing /\ y.op \notin Appends /\ y.op # "off"
                            /\ y.op \notin {"resolve", "set"}
  BY <1>1 DEF IsOp, OfObject, Follows, Rest, AtFirst, Writing, Appends, Early, Moving
<1>5. Calm(n) => h.id = so[n] /\ ~HasRow(h.id)
  BY <1>1, <1>2 DEF Aimed, NotListed, OfInstalled, Appends
<1>6. NewRun(p, Rest(p))
  BY <1>1, Popped DEF AppendEnd, Types
<1>7. /\ Items(p)' = Rest(p)
      /\ Rest(p) # {} => run'[p].cmd = run[p].cmd /\ run'[p].override = run[p].override
  BY <1>6, RunItems
<1> DEFINE r == [id |-> h.id, name |-> n, active |-> 1, utc |-> "new"]
           l == Len(rows) + 1
<1>8. IsRow(r) /\ r.id = h.id /\ r.name = n /\ r.active = 1
  BY <1>4 DEF IsRow
<1>9. rows' = Append(rows, r)
  BY <1>3 DEF AppendEnd
<1> HIDE DEF r
<1>10. /\ Rows' /\ Len(rows') = Len(rows) + 1 /\ Len(rows) \in Nat
       /\ DOMAIN rows' = DOMAIN rows \cup {l} /\ l \notin DOMAIN rows
       /\ \A k \in DOMAIN rows : rows'[k] = rows[k]
       /\ rows'[l] = r
  BY <1>1, <1>8, <1>9, RowAppended DEF Types
<1>11. Types'
  <2>1. Len(rows) <= Len(rows) + 1 /\ Len(rows) + 1 \in Nat
    BY <1>10
  <2>2. \A q \in Proc : IsRun(run'[q], Len(rows) + 1)
    BY <2>1, <1>6, <1>10, RunLonger DEF NewRun
  <2>3. Runs'
    BY <2>2, <1>6, <1>10 DEF Runs, NewRun
  <2>4. QED
    BY <2>3, <1>1, <1>3, <1>10 DEF Types, Objects, Records, Faults
<1> HIDE DEF l
<1>12. Frame(p, n)
  <2>1. \A m \in Name \ {n} : /\ RowsOf(m)' = RowsOf(m)
                              /\ \A k \in RowsOf(m) : rows'[k] = rows[k]
    BY <1>8, <1>10 DEF RowsOf
  <2>2. QED
    BY <2>1, <1>1, <1>3, <1>6 DEF Frame, NewRun, TheName
<1>13. RowsOf(n)' = RowsOf(n) \cup {l} /\ RowsOf(n) \subseteq DOMAIN rows /\ l \notin RowsOf(n)
  BY <1>8, <1>10 DEF RowsOf
<1>14. Calm(n)' => Unique(n)'
  <2>1. Calm(n) => \A k \in RowsOf(n) : rows[k].id # h.id
    BY <1>5, <1>13 DEF HasRow
  <2>2. QED
    BY <2>1, <1>2, <1>3, <1>8, <1>10, <1>13 DEF Unique
<1>15. Calm(n)' => Aimed(p, n)' /\ NotListed(p)' /\ Covers(p, n)'
  BY <1>1, <1>2, <1>3, <1>4, <1>7 DEF Aimed, NotListed, Covers
<1>16. Calm(n)' => Gentle(p, n)'
  <2>1. l \in ActiveRows(n)' /\ (Calm(n) => rows'[l].id = so'[n])
    BY <1>3, <1>5, <1>8, <1>10, <1>13 DEF ActiveRows
  <2>2. QED
    BY <2>1, <1>1, <1>2, <1>3, <1>7 DEF Gentle
<1>17. Quiet(n)' => Meant(p, n)' /\ Writes(p)' /\ Written(p)' /\ Installed(p, n)'
  <2>1. Quiet(n)' => Meant(p, n)'
    BY <1>1, <1>2, <1>3, <1>7 DEF Meant, Want
  <2>2. Writes(p)' /\ Written(p)'
    BY <1>4, <1>7 DEF Writes, Written
  <2>3. Quiet(n)' => Installed(p, n)'
    BY <1>1, <1>2, <1>3, <1>7 DEF Installed
  <2>4. QED
    BY <2>1, <2>2, <2>3
<1>18. ASSUME Quiet(n)', NEW k \in RowsOf(n)' PROVE Done(n, k)' \/ WillDo(p, n, k)'
  <2>1. Quiet(n) /\ h.id = so[n] /\ ~HasRow(h.id)
    BY <1>2, <1>3, <1>5, <1>18
  <2>2. CASE k = l
    <3>1. rec[h.id].active = 1
      BY <2>1, <1>1, <1>2, <1>4 DEF Written, Appends, Writing
    <3>2. Done(n, k)'
      BY <2>1, <2>2, <3>1, <1>3, <1>8, <1>10 DEF Done, Want
    <3>3. QED
      BY <3>2
  <2>3. CASE k \in RowsOf(n)
    <3>1. rows'[k] = rows[k] /\ (Done(n, k) \/ WillDo(p, n, k))
      BY <2>1, <2>3, <1>2, <1>10, <1>13
    <3>2. CASE Done(n, k)
      BY <3>1, <3>2, <1>3 DEF Done, Want
    <3>3. CASE WillDo(p, n, k)
      <4>1. ~(\E o \in Items(p) : o.op \in {"resolve", "set"})
        BY <1>1, <1>4
      <4>2. WillDo(p, n, k)'
        BY <3>1, <3>3, <4>1, <1>1, <1>3, <1>7 DEF WillDo, Want
      <4>3. QED
        BY <4>2
    <3>4. QED
      BY <3>1, <3>2, <3>3
  <2>4. QED
    BY <2>2, <2>3, <1>13, <1>18
<1>19. QED
  BY <1>1, <1>3, <1>11, <1>12, <1>14, <1>15, <1>16, <1>17, <1>18, StepInv
     DEF OwnOrdered, OwnOrderly

LEMMA ResolveStep ==
    ASSUME IInv, NEW p \in Proc, Resolve(p), NEW n, n = TheName(p)
    PROVE  IInv'
<1> DEFINE h == Head(run[p].todo)
           T == Tail(run[p].todo)
<1>0. At(p, "resolve")
  BY DEF Resolve
<1>1. /\ Types /\ Busy(p) /\ n \in Name /\ h.op = "resolve" /\ Follows(h, T)
      /\ Items(p) = {h} \cup Rest(p) /\ IsOp(h, n, Len(rows))
  BY <1>0, AtStep
<1>2. /\ Calm(n) => /\ Unique(n) /\ Aimed(p, n) /\ NotListed(p) /\ Covers(p, n)
                    /\ Gentle(p, n)
      /\ Quiet(n) => /\ Calm(n) /\ Meant(p, n) /\ Writes(p) /\ Written(p) /\ Installed(p, n)
                     /\ \A k \in RowsOf(n) : Done(n, k) \/ WillDo(p, n, k)
  BY <1>0, AtStep
<1>3. /\ UNCHANGED <<so, rows, rec, fault, broken>> /\ h.id = TheId(p) /\ h.arg = Arg(p)
  BY DEF Resolve, Listed, TheId, Arg
<1>4. /\ (Calm(n)' <=> Calm(n)) /\ (Quiet(n)' <=> Quiet(n)) /\ (Unique(n)' <=> Unique(n))
      /\ RowsOf(n)' = RowsOf(n) /\ ActiveRows(n)' = ActiveRows(n)
      /\ (HasRow(so[n])' <=> HasRow(so[n])) /\ (\A z : HasRow(z)' <=> HasRow(z))
      /\ (\A k : Done(n, k)' <=> Done(n, k))
  BY <1>3, Unmoved
<1>5. /\ h.id \in Id /\ (Calm(n) => h.id = so[n]) /\ h.id # NoSo
      /\ \A y \in Rest(p) : /\ y.op \notin Writing /\ y.op \notin Appends
                            /\ y.op \notin Moving
  BY <1>1, <1>2, KernelAssumption
     DEF IsOp, OfObject, Aimed, OfInstalled, Follows, Rest, AtFirst, Writing, Appends, Early, Moving
<1> DEFINE x == h.id
           N == {Op("write_open", x, FreshRecord), Op("append", x, 0), Op("deactivate", x, 0)}
           V == {Op("write_open", x, FreshRecord), Op("deactivate", x, 0), Op("row", x, 1),
                 Op("record", x, 1), Op("utc", x, 0)}
           F == IF ~HasRow(x) THEN N ELSE IF run[p].override THEN V ELSE {}
<1>6. NewRun(p, F \cup Rest(p))
  <2>1. CASE ~HasRow(x)
    <3>1. NewRun(p, N \cup Rest(p))
      BY <2>1, <1>0, <1>1, <1>3, RegisterRun DEF Resolve, Types
    <3>2. QED
      BY <2>1, <3>1
  <2>2. CASE HasRow(x) /\ run[p].override
    <3>1. NewRun(p, V \cup Rest(p))
      BY <2>2, <1>0, <1>1, <1>3, ReregisterRun DEF Resolve, Types
    <3>2. QED
      BY <2>2, <3>1
  <2>3. CASE HasRow(x) /\ ~run[p].override
    <3>1. NewRun(p, Rest(p))
      BY <2>3, <1>1, <1>3, Popped DEF Resolve, Types
    <3>2. F \cup Rest(p) = Rest(p)
      BY <2>3
    <3>3. QED
      BY <3>1, <3>2
  <2>4. QED
    BY <2>1, <2>2, <2>3
<1>7. /\ \A o \in F : /\ o.op \in {"write_open", "append", "deactivate", "row", "record", "utc"}
                      /\ o.id = x
                      /\ o.op = "write_open" => o.arg.active = 1
                      /\ o.op = "append" => ~HasRow(x)
                      /\ o.op \in {"row", "record"} => o.arg = 1 /\ run[p].override
      /\ ~HasRow(x) => /\ \E o \in F : o.op = "append"
                       /\ \E o \in F : o.op = "deactivate"
                       /\ \E o \in F : o.op = "write_open"
      /\ HasRow(x) /\ run[p].override => /\ \E o \in F : o.op = "deactivate"
                                         /\ \E o \in F : o.op = "row" /\ o.id = x /\ o.arg = 1
      /\ HasRow(x) /\ ~run[p].override => F = {}
  <2>1. /\ \A o \in N : /\ o.op \in {"write_open", "append", "deactivate"} /\ o.id = x
                        /\ o.op = "write_open" => o.arg.active = 1
        /\ \E o \in N : o.op = "append"
        /\ \E o \in N : o.op = "deactivate"
        /\ \E o \in N : o.op = "write_open"
    BY FreshIsRec DEF Op
  <2>2. /\ \A o \in V : /\ o.op \in {"write_open", "deactivate", "row", "record", "utc"}
                        /\ o.id = x /\ (o.op = "write_open" => o.arg.active = 1)
                        /\ o.op \in {"row", "record"} => o.arg = 1
        /\ \E o \in V : o.op = "deactivate"
        /\ \E o \in V : o.op = "row" /\ o.id = x /\ o.arg = 1
    BY FreshIsRec DEF Op
  <2> HIDE DEF N, V
  <2>3. CASE ~HasRow(x)
    <3>1. F = N
      BY <2>3
    <3> HIDE DEF F
    <3>2. QED
      BY <2>1, <2>3, <3>1
  <2>4. CASE HasRow(x) /\ run[p].override
    <3>1. F = V
      BY <2>4
    <3> HIDE DEF F
    <3>2. QED
      BY <2>2, <2>4, <3>1
  <2>5. CASE HasRow(x) /\ ~run[p].override
    BY <2>5
  <2>6. QED
    BY <2>3, <2>4, <2>5
<1> HIDE DEF F, N, V
<1>8. /\ Items(p)' = F \cup Rest(p)
      /\ F \cup Rest(p) # {} => run'[p].cmd = run[p].cmd /\ run'[p].override = run[p].override
  BY <1>6, RunItems
<1>9. Types' /\ Frame(p, n)
  BY <1>1, <1>3, <1>6, RunOnly DEF Types, Faults
<1>10. Calm(n)' => Aimed(p, n)' /\ NotListed(p)' /\ Covers(p, n)'
  <2>1. Calm(n)' => Aimed(p, n)'
    BY <1>1, <1>2, <1>3, <1>4, <1>5, <1>7, <1>8 DEF Aimed
  <2>2. NotListed(p)'
    BY <1>3, <1>4, <1>5, <1>7, <1>8 DEF NotListed, Appends
  <2>3. Calm(n)' => Covers(p, n)'
    BY <1>1, <1>2, <1>3, <1>4, <1>7, <1>8 DEF Covers
  <2>4. QED
    BY <2>1, <2>2, <2>3
<1>11. Calm(n)' => Gentle(p, n)'
  <2>1. SUFFICES ASSUME Calm(n), F \cup Rest(p) # {}, run[p].cmd \in {"scan", "set"}, ~run[p].override
                 PROVE  Gentle(p, n)'
    BY <1>4, <1>8 DEF Gentle
  <2>2. /\ \A o \in Rest(p) : /\ o.op \notin Moving \cup {"activate"}
                              /\ o.op = "row" => o.id # so[n]
        /\ \/ \A o \in Rest(p) : o.op \notin Switching
           \/ \E k \in ActiveRows(n) : rows[k].id = so[n]
    BY <2>1, <1>1, <1>2, <1>5 DEF Gentle, Appends
  <2>3. \A o \in F : o.op \notin Moving \cup {"activate"} /\ o.op # "row"
    BY <2>1, <1>7 DEF Moving
  <2>4. F = {} \/ \E o \in F : o.op \in Appends
    BY <2>1, <1>7 DEF Appends
  <2>5. QED
    BY <2>2, <2>3, <2>4, <1>3, <1>4, <1>8 DEF Gentle
<1>12. Quiet(n)' => Meant(p, n)' /\ Writes(p)' /\ Written(p)' /\ Installed(p, n)'
  <2>1. Quiet(n)' => Meant(p, n)'
    BY <1>1, <1>2, <1>3, <1>4, <1>5, <1>7, <1>8 DEF Meant, Want
  <2>2. Writes(p)'
    BY <1>5, <1>7, <1>8 DEF Writes, Writing
  <2>3. Written(p)'
    BY <1>5, <1>7, <1>8 DEF Written, Writing, Appends
  <2>4. Quiet(n)' => Installed(p, n)'
    BY <1>2, <1>3, <1>4, <1>5 DEF Installed
  <2>5. QED
    BY <2>1, <2>2, <2>3, <2>4
<1>13. ASSUME Quiet(n)', NEW k \in RowsOf(n)' PROVE Done(n, k)' \/ WillDo(p, n, k)'
  <2>1. /\ Quiet(n) /\ h.id = so[n] /\ k \in RowsOf(n)
        /\ (Done(n, k) \/ WillDo(p, n, k))
    BY <1>2, <1>4, <1>5, <1>13
  <2>2. CASE ~HasRow(x)
    <3>1. rows[k].id # so[n]
      BY <2>1, <2>2 DEF HasRow, RowsOf
    <3>2. WillDo(p, n, k)'
      BY <2>2, <3>1, <1>3, <1>7, <1>8 DEF WillDo
    <3>3. QED
      BY <3>2
  <2>3. CASE HasRow(x) /\ run[p].override
    <3>1. WillDo(p, n, k)'
      BY <2>1, <2>3, <1>3, <1>7, <1>8 DEF WillDo, Want
    <3>2. QED
      BY <3>1
  <2>4. CASE HasRow(x) /\ ~run[p].override
    <3>1. CASE Done(n, k)
      BY <3>1, <1>4
    <3>2. CASE WillDo(p, n, k)
      <4>1. WillDo(p, n, k)'
        BY <2>1, <2>4, <3>2, <1>1, <1>3, <1>4, <1>8 DEF WillDo, Want
      <4>2. QED
        BY <4>1
    <3>3. QED
      BY <2>1, <3>1, <3>2
  <2>5. QED
    BY <2>2, <2>3, <2>4
<1>14. QED
  BY <1>1, <1>2, <1>4, <1>9, <1>10, <1>11, <1>12, <1>13, StepInv DEF OwnOrdered, OwnOrderly

(* Operations of a scan or of kernel set that switch, move and write nothing. *)
Plain == {"resolve", "set", "set_keys", "set_key"}

LEMMA PlainItems ==
    ASSUME NEW p, NEW n,
           \A o \in Items(p)' : o.op \in Plain /\ (o.op # "set" => o.id = so'[n])
    PROVE  OwnOrdered(p, n)' /\ OwnOrderly(p, n)'
<1>1. Aimed(p, n)' /\ NotListed(p)' /\ Covers(p, n)'
  BY DEF Aimed, NotListed, Covers, Plain, OfInstalled, Appends
<1>2. Gentle(p, n)'
  BY DEF Gentle, Plain, Switching, Moving
<1>3. Meant(p, n)' /\ Writes(p)' /\ Written(p)' /\ Installed(p, n)'
  BY DEF Meant, Writes, Written, Installed, Plain, Writing, Appends
<1>4. QED
  BY <1>1, <1>2, <1>3 DEF OwnOrdered, OwnOrderly

LEMMA SetBeginStep ==
    ASSUME IInv, NEW p \in Proc, SetBegin(p), NEW n, n = TheName(p)
    PROVE  IInv'
<1> DEFINE h == Head(run[p].todo)
           T == Tail(run[p].todo)
<1>0. At(p, "set")
  BY DEF SetBegin
<1>1. /\ Types /\ Busy(p) /\ n \in Name /\ h.op = "set" /\ Follows(h, T)
      /\ Items(p) = {h} \cup Rest(p) /\ IsOp(h, n, Len(rows))
  BY <1>0, AtStep
<1>2. /\ Calm(n) => /\ Unique(n) /\ Aimed(p, n) /\ NotListed(p) /\ Covers(p, n)
                    /\ Gentle(p, n)
      /\ Quiet(n) => /\ Calm(n) /\ Meant(p, n) /\ Writes(p) /\ Written(p) /\ Installed(p, n)
                     /\ \A k \in RowsOf(n) : Done(n, k) \/ WillDo(p, n, k)
  BY <1>0, AtStep
<1>3. /\ UNCHANGED <<so, rows, rec, broken>> /\ Rest(p) = {} /\ Runs /\ Objects
      /\ IF so[n] \in Id
           THEN NewRun(p, {Op("resolve", so[n], 0), Op("set_keys", so[n], ListOk /\ HasRow(so[n]))})
           ELSE NewRun(p, {})
  BY <1>1, SetBeginRun DEF SetBegin, Types
<1> DEFINE I == IF so[n] \in Id
                  THEN {Op("resolve", so[n], 0), Op("set_keys", so[n], ListOk /\ HasRow(so[n]))}
                  ELSE {}
<1>4. NewRun(p, I)
  BY <1>3
<1>5. /\ \A o \in I : o.op \in {"resolve", "set_keys"} /\ o.id = so[n]
      /\ so[n] \in Id => \E o \in I : o.op = "resolve"
  <2> DEFINE o1 == Op("resolve", so[n], 0)
             o2 == Op("set_keys", so[n], ListOk /\ HasRow(so[n]))
  <2>1. o1.op = "resolve" /\ o1.id = so[n] /\ o2.op = "set_keys" /\ o2.id = so[n]
    BY DEF Op
  <2>2. I = IF so[n] \in Id THEN {o1, o2} ELSE {}
    OBVIOUS
  <2> HIDE DEF o1, o2, I
  <2>3. QED
    BY <2>1, <2>2
<1> HIDE DEF I
<1>6. CASE ListLost(p)
  BY <1>1, <1>3, <1>4, <1>6, LostStep
<1>7. CASE fault' = fault
  <2>1. UNCHANGED <<so, rows, rec, fault, broken>>
    BY <1>3, <1>7
  <2>2. /\ (Calm(n)' <=> Calm(n)) /\ (Quiet(n)' <=> Quiet(n)) /\ (Unique(n)' <=> Unique(n))
        /\ RowsOf(n)' = RowsOf(n) /\ (\A z : HasRow(z)' <=> HasRow(z))
        /\ (\A k : Done(n, k)' <=> Done(n, k))
    BY <2>1, Unmoved
  <2>3. Types' /\ Frame(p, n)
    BY <1>1, <1>4, <2>1, RunOnly DEF Types, Faults
  <2>4. /\ Items(p)' = I
        /\ I # {} => run'[p].cmd = run[p].cmd /\ run'[p].override = run[p].override
    BY <1>4, RunItems
  <2>5. OwnOrdered(p, n)' /\ OwnOrderly(p, n)'
    BY <1>5, <2>1, <2>4, PlainItems DEF Plain
  <2>6. ASSUME NEW k, WillDo(p, n, k) PROVE WillDo(p, n, k)'
    <3>1. so[n] \in Id /\ (run[p].override \/ ~HasRow(so[n]))
      BY <2>6, <1>1, <1>3 DEF WillDo
    <3>2. (\E o \in Items(p)' : o.op = "resolve") /\ run'[p].override = run[p].override
      BY <3>1, <1>5, <2>4
    <3>3. so'[n] \in Id /\ (run'[p].override \/ ~HasRow(so[n])')
      BY <3>1, <3>2, <2>1 DEF HasRow
    <3>4. QED
      BY <3>2, <3>3 DEF WillDo
  <2>7. QED
    BY <1>1, <1>2, <2>2, <2>3, <2>5, <2>6, StepInv
<1>8. QED
  BY <1>6, <1>7 DEF SetBegin

LEMMA SetKeysStep ==
    ASSUME IInv, NEW p \in Proc, SetKeys(p), NEW n, n = TheName(p)
    PROVE  IInv'
<1> DEFINE h == Head(run[p].todo)
           T == Tail(run[p].todo)
<1>0. At(p, "set_keys")
  BY DEF SetKeys
<1>1. /\ Types /\ Busy(p) /\ n \in Name /\ h.op = "set_keys" /\ Follows(h, T)
      /\ Items(p) = {h} \cup Rest(p) /\ IsOp(h, n, Len(rows))
  BY <1>0, AtStep
<1>2. /\ Calm(n) => /\ Unique(n) /\ Aimed(p, n) /\ NotListed(p) /\ Covers(p, n)
                    /\ Gentle(p, n)
      /\ Quiet(n) => /\ Calm(n) /\ Meant(p, n) /\ Writes(p) /\ Written(p) /\ Installed(p, n)
                     /\ \A k \in RowsOf(n) : Done(n, k) \/ WillDo(p, n, k)
  BY <1>0, AtStep
<1>3. /\ UNCHANGED <<so, rows, rec, fault, broken>> /\ h.id = TheId(p) /\ h.arg = Arg(p)
  BY DEF SetKeys, Listed, TheId, Arg
<1>4. /\ (Calm(n)' <=> Calm(n)) /\ (Quiet(n)' <=> Quiet(n)) /\ (Unique(n)' <=> Unique(n))
      /\ RowsOf(n)' = RowsOf(n) /\ ActiveRows(n)' = ActiveRows(n)
      /\ (HasRow(so[n])' <=> HasRow(so[n])) /\ (\A z : HasRow(z)' <=> HasRow(z))
      /\ (\A k : Done(n, k)' <=> Done(n, k))
  BY <1>3, Unmoved
<1> DEFINE K == {Op("set_key", h.id, k) : k \in DOMAIN Pairs}
<1>5. Rest(p) = {} /\ (NewRun(p, {}) \/ NewRun(p, K))
  BY <1>1, <1>3, SetKeysRun DEF Types
<1>6. \A o \in K : o.op = "set_key" /\ o.id = h.id
  BY DEF Op
<1> HIDE DEF K
<1>7. /\ Types' /\ Frame(p, n)
      /\ \A o \in Items(p)' : o.op = "set_key" /\ o.id = h.id
  <2>1. ASSUME NEW I \in {{}, K}, NewRun(p, I)
        PROVE  /\ Types' /\ Frame(p, n)
               /\ \A o \in Items(p)' : o.op = "set_key" /\ o.id = h.id
    BY <1>1, <1>3, <1>6, <2>1, RunOnly, RunItems DEF Types, Faults
  <2>2. QED
    BY <1>5, <2>1
<1>8. Calm(n)' => OwnOrdered(p, n)' /\ OwnOrderly(p, n)'
  <2>1. SUFFICES ASSUME Calm(n) PROVE OwnOrdered(p, n)' /\ OwnOrderly(p, n)'
    BY <1>4
  <2>2. h.id = so[n]
    BY <2>1, <1>1, <1>2 DEF Aimed, OfInstalled
  <2>3. QED
    BY <2>2, <1>3, <1>7, PlainItems DEF Plain
<1>9. \A k : ~WillDo(p, n, k)
  BY <1>1, <1>5 DEF WillDo
<1>10. Quiet(n)' => Calm(n)'
  BY <1>2, <1>4
<1>11. QED
  BY <1>1, <1>2, <1>4, <1>7, <1>8, <1>9, <1>10, StepInv


LEMMA SetKeyStep ==
    ASSUME IInv, NEW p \in Proc, SetKey(p), NEW n, n = TheName(p)
    PROVE  IInv'
<1> DEFINE h == Head(run[p].todo)
           T == Tail(run[p].todo)
<1>0. At(p, "set_key")
  BY DEF SetKey
<1>1. /\ Types /\ Busy(p) /\ n \in Name /\ h.op = "set_key" /\ Follows(h, T)
      /\ Items(p) = {h} \cup Rest(p) /\ IsOp(h, n, Len(rows))
  BY <1>0, AtStep
<1>2. /\ Calm(n) => /\ Unique(n) /\ Aimed(p, n) /\ NotListed(p) /\ Covers(p, n)
                    /\ Gentle(p, n)
      /\ Quiet(n) => /\ Calm(n) /\ Meant(p, n) /\ Writes(p) /\ Written(p) /\ Installed(p, n)
                     /\ \A k \in RowsOf(n) : Done(n, k) \/ WillDo(p, n, k)
  BY <1>0, AtStep
<1>3. /\ UNCHANGED <<so, rows, rec, fault, broken>> /\ h.id = TheId(p) /\ h.arg = Arg(p)
  BY DEF SetKey, Listed, TheId, Arg
<1>4. /\ (Calm(n)' <=> Calm(n)) /\ (Quiet(n)' <=> Quiet(n)) /\ (Unique(n)' <=> Unique(n))
      /\ RowsOf(n)' = RowsOf(n) /\ ActiveRows(n)' = ActiveRows(n)
      /\ (HasRow(so[n])' <=> HasRow(so[n])) /\ (\A z : HasRow(z)' <=> HasRow(z))
      /\ (\A k : Done(n, k)' <=> Done(n, k))
  BY <1>3, Unmoved
<1>5. /\ h.id \in Id /\ (Calm(n) => h.id = so[n]) /\ \A y \in Rest(p) : y.op = "set_key"
      /\ Records /\ Runs
  BY <1>1, <1>2 DEF IsOp, OfObject, Aimed, OfInstalled, Follows, Rest, Types
<1>6. \A k : ~WillDo(p, n, k)
  BY <1>1, <1>5 DEF WillDo
<1>7. CASE ~rec[h.id].whole
  <2>1. NewRun(p, {})
    BY <1>3, <1>5, <1>7, SetKeyRun
  <2>2. Types' /\ Frame(p, n) /\ Items(p)' = {}
    BY <1>1, <1>3, <2>1, RunOnly, RunItems DEF Types, Faults
  <2>3. OwnOrdered(p, n)' /\ OwnOrderly(p, n)'
    BY <2>2, PlainItems
  <2>4. QED
    BY <1>1, <1>2, <1>4, <1>6, <2>2, <2>3, StepInv
<1>8. CASE rec[h.id].whole
  <2>1. PICK r : /\ IsRec(r) /\ r.active = rec[h.id].active
                 /\ NewRun(p, {Op("write_open", h.id, r)} \cup Rest(p))
    BY <1>3, <1>5, <1>8, SetKeyRun
  <2> DEFINE o1 == Op("write_open", h.id, r)
  <2>2. o1.op = "write_open" /\ o1.id = h.id /\ o1.arg = r
    BY DEF Op
  <2>3. Types' /\ Frame(p, n) /\ Items(p)' = {o1} \cup Rest(p)
    BY <1>1, <1>3, <2>1, RunOnly, RunItems DEF Types, Faults
  <2> HIDE DEF o1
  <2>4. Calm(n)' => Aimed(p, n)' /\ NotListed(p)' /\ Covers(p, n)' /\ Gentle(p, n)'
    <3>1. Calm(n)' => Aimed(p, n)'
      BY <1>1, <1>2, <1>3, <1>4, <1>5, <2>2, <2>3 DEF Aimed
    <3>2. NotListed(p)' /\ Covers(p, n)'
      BY <1>5, <2>2, <2>3 DEF NotListed, Covers, Appends
    <3>3. Gentle(p, n)'
      BY <1>5, <2>2, <2>3 DEF Gentle, Switching, Moving
    <3>4. QED
      BY <3>1, <3>2, <3>3
  <2>5. Meant(p, n)' /\ Written(p)' /\ Installed(p, n)'
    BY <1>5, <2>2, <2>3 DEF Meant, Written, Installed, Appends
  <2>6. Quiet(n)' => Writes(p)'
    <3>1. SUFFICES ASSUME Quiet(n), HasRow(h.id) PROVE r.active = 1
      BY <1>4, <1>5, <2>2, <2>3 DEF Writes, Writing, Appends
    <3>2. PICK k \in RowsOf(NameOf[h.id]) : rows[k].id = h.id
      BY <3>1, <1>1, <1>5, RowOfName DEF Types
    <3>3. Done(n, k) /\ h.id = so[n]
      BY <3>1, <3>2, <1>1, <1>2, <1>5, <1>6 DEF IsOp
    <3>4. QED
      BY <3>2, <3>3, <1>8, <2>1 DEF Done, Want
  <2>7. QED
    BY <1>1, <1>2, <1>4, <1>6, <2>3, <2>4, <2>5, <2>6, StepInv DEF OwnOrdered, OwnOrderly
<1>9. QED
  BY <1>7, <1>8

(* The steps of a command *)
LEMMA StepStep ==
    ASSUME IInv, NEW p \in Proc, Step(p)
    PROVE  IInv'
<1>1. CASE Backup(p)
  BY <1>1, BackupStep
<1>2. CASE CopyOpen(p) \/ Copy(p)
  BY <1>2, CopyOpenStep
<1>3. CASE Activate(p)
  BY <1>3, ActivateStep
<1>4. CASE PatchRow(p)
  BY <1>4, PatchRowStep
<1>5. CASE PatchUtc(p)
  BY <1>5, PatchUtcStep
<1>6. CASE PatchListFail(p)
  BY <1>6, PatchListFailStep
<1>7. CASE PatchRecord(p)
  BY <1>7, PatchRecordStep
<1>8. CASE Deactivate(p)
  BY <1>8, DeactivateStep
<1>9. CASE SwitchOff(p)
  BY <1>9, SwitchOffStep
<1>10. CASE WriteOpen(p)
  BY <1>10, WriteOpenStep
<1>11. CASE Write(p)
  BY <1>11, WriteStep
<1>12. CASE AppendBegin(p)
  BY <1>12, AppendBeginStep
<1>13. CASE AppendRefuse(p)
  BY <1>13, AppendRefuseStep
<1>14. CASE AppendEnd(p)
  BY <1>14, AppendEndStep
<1>15. CASE Resolve(p)
  BY <1>15, ResolveStep
<1>16. CASE ResolveBlind(p)
  BY <1>16, ResolveBlindStep
<1>17. CASE SetBegin(p)
  BY <1>17, SetBeginStep
<1>18. CASE SetKeys(p)
  BY <1>18, SetKeysStep
<1>19. CASE SetKey(p)
  BY <1>19, SetKeyStep
<1>20. QED
  BY <1>1, <1>2, <1>3, <1>4, <1>5, <1>6, <1>7, <1>8, <1>9, <1>10, <1>11, <1>12, <1>13,
     <1>14, <1>15, <1>16, <1>17, <1>18, <1>19 DEF Step


(* The start of a command: what p is to do, todo, is to put right what has *)
(* been disturbed if the command repairs.                                  *)
LEMMA StartStep ==
    ASSUME IInv, NEW p \in Proc, NEW cmd, NEW n \in Name, NEW override \in BOOLEAN,
           NEW todo, Start(p, cmd, n, override, todo), IsSeq(todo), todo # <<>>, Shape(todo),
           \A o \in Range(todo) : /\ IsOp(o, n, Len(rows))
                                  /\ o.op \in Plain \cup Moving \cup {"activate"}
                                  /\ o.op \in OfInstalled => o.id = so[n],
           cmd \in {"scan", "set"} => \A o \in Range(todo) : o.op \in Plain,
           (\E o \in Range(todo) : o.op = "activate") => \E o \in Range(todo) : o.op = "copy_open",
           Repairs(cmd, n, override) =>
             \/ \E o \in Range(todo) : o.op = "activate"
             \/ /\ so[n] \in Id /\ (override \/ ~HasRow(so[n]))
                /\ \E o \in Range(todo) : o.op \in {"resolve", "set"}
    PROVE  IInv'
<1> DEFINE over == \E q \in Others(p) : TheName(q) = n
<1>1. /\ Types /\ ~Busy(p) /\ UNCHANGED <<so, rows, rec, broken>>
      /\ fault = [m \in Name |-> fault[m]] /\ Ordered(n) /\ Orderly(n)
  BY DEF IInv, Types, Faults, Start
<1>2. /\ Types' /\ \A q \in Proc \ {p} : run'[q] = run[q]
      /\ run'[p].cmd = cmd /\ run'[p].name = n /\ run'[p].override = override
      /\ run'[p].todo = todo
  BY <1>1, StartRun
<1>3. /\ fault'[n] = IF over THEN "overlap"
                     ELSE IF fault[n] # "overlap" /\ Repairs(cmd, n, override) THEN "none"
                     ELSE fault[n]
      /\ \A m \in Name \ {n} : fault'[m] = fault[m]
  BY <1>1 DEF Start
<1> HIDE DEF over
<1>4. Frame(p, n)
  <2>1. \A m \in Name \ {n} : RowsOf(m)' = RowsOf(m) /\ \A k \in RowsOf(m) : rows'[k] = rows[k]
    BY <1>1 DEF RowsOf
  <2>2. run[p].todo = <<>>
    BY <1>1 DEF Busy
  <2>3. QED
    BY <1>1, <1>2, <1>3, <2>1, <2>2 DEF Frame
<1>5. Calm(n)' => Calm(n) /\ ~over
  BY <1>1, <1>3 DEF Calm
<1>6. Quiet(n)' => Calm(n)' /\ (Repairs(cmd, n, override) \/ Quiet(n))
  BY <1>1, <1>3 DEF Quiet, Calm
<1>7. ~over => \A q \in Proc : ~Owns(q, n)
  BY <1>1 DEF over, Others, Owns
<1>8. ~over => \A q \in Proc : Owns(q, n)' => q = p
  BY <1>2, <1>7 DEF Owns, Busy, TheName
<1>9. /\ Owns(p, n)' /\ Items(p)' = Range(todo)
  BY <1>2 DEF Owns, Busy, TheName, Items
<1>10. /\ RowsOf(n)' = RowsOf(n) /\ (\A z : HasRow(z)' <=> HasRow(z))
       /\ (Unique(n)' <=> Unique(n)) /\ (\A k : Done(n, k)' <=> Done(n, k))
  BY <1>1 DEF RowsOf, HasRow, Unique, Done, Want
<1>11. OwnOrdered(p, n)'
  <2>1. Aimed(p, n)'
    BY <1>1, <1>9 DEF Aimed
  <2>2. NotListed(p)' /\ Covers(p, n)'
    BY <1>9 DEF NotListed, Covers, Plain, Moving, Appends
  <2>3. Gentle(p, n)'
    BY <1>2, <1>9 DEF Gentle, Plain, Switching, Moving
  <2>4. QED
    BY <2>1, <2>2, <2>3 DEF OwnOrdered
<1>12. OwnOrderly(p, n)'
  <2>1. Meant(p, n)' /\ Writes(p)' /\ Written(p)'
    BY <1>9 DEF Meant, Writes, Written, Plain, Moving, Writing, Appends
  <2>2. Installed(p, n)'
    BY <1>9 DEF Installed
  <2>3. QED
    BY <2>1, <2>2 DEF OwnOrderly
<1>13. Ordered(n)'
  BY <1>1, <1>5, <1>8, <1>10, <1>11 DEF Ordered, Single, OwnOrdered
<1>14. ASSUME Quiet(n)', NEW k \in RowsOf(n)' PROVE Right(n, k)'
  <2>1. CASE Quiet(n)
    <3>1. Done(n, k)
      BY <1>1, <1>5, <1>6, <1>7, <1>10, <1>14, <2>1 DEF Orderly, Right
    <3>2. QED
      BY <3>1, <1>10 DEF Right
  <2>2. CASE Repairs(cmd, n, override)
    <3>1. CASE \E o \in Range(todo) : o.op = "activate"
      BY <3>1, <1>9 DEF Right, WillDo
    <3>2. CASE /\ so[n] \in Id /\ (override \/ ~HasRow(so[n]))
               /\ \E o \in Range(todo) : o.op \in {"resolve", "set"}
      <4>1. so'[n] \in Id /\ (run'[p].override \/ ~HasRow(so[n])')
        BY <3>2, <1>1, <1>2 DEF HasRow
      <4>2. WillDo(p, n, k)'
        BY <3>2, <4>1, <1>9 DEF WillDo
      <4>3. QED
        BY <4>2, <1>9 DEF Right
    <3>3. QED
      BY <2>2, <3>1, <3>2
  <2>3. QED
    BY <1>6, <1>14, <2>1, <2>2
<1>15. Orderly(n)'
  BY <1>5, <1>6, <1>8, <1>12, <1>14 DEF Orderly, OwnOrderly
<1>16. ASSUME NEW m \in Name, m # n PROVE Ordered(m)' /\ Orderly(m)'
  BY <1>1, <1>2, <1>4, <1>16, OtherNames DEF IInv
<1>17. QED
  BY <1>2, <1>13, <1>15, <1>16 DEF IInv

LEMMA ScanStep ==
    ASSUME IInv, NEW p \in Proc, NEW n \in Name, NEW override \in BOOLEAN,
           Scan(p, n, override)
    PROVE  IInv'
<1> DEFINE o1 == Op("resolve", so[n], 0)
           f == <<o1>>
<1>1. /\ so[n] \in Id /\ Start(p, "scan", n, override, f) /\ NameOf[so[n]] = n
  BY DEF Scan, IInv, Types, Objects
<1>2. o1 = [op |-> "resolve", id |-> so[n], arg |-> 0]
  BY DEF Op
<1> HIDE DEF o1
<1>3. IsSeq(f) /\ Shape(f) /\ Range(f) = {o1} /\ f # <<>>
  BY <1>2, ShapeOne, EmptyTuple
<1> HIDE DEF f
<1>4. IsOp(o1, n, Len(rows)) /\ o1.op \in Plain
  BY <1>1, <1>2 DEF IsOp, OfObject, Plain
<1>5. Repairs("scan", n, override) => override \/ ~HasRow(so[n])
  BY DEF Repairs
<1>6. QED
  BY <1>1, <1>2, <1>3, <1>4, <1>5, StartStep

LEMMA KernelSetStep ==
    ASSUME IInv, NEW p \in Proc, NEW n \in Name, NEW override \in BOOLEAN,
           KernelSet(p, n, override)
    PROVE  IInv'
<1> DEFINE o1 == Op("set", so[n], 0)
           f == <<o1>>
<1>1. Start(p, "set", n, override, f) /\ (so[n] \in Id => NameOf[so[n]] = n)
  BY DEF KernelSet, IInv, Types, Objects
<1>2. o1 = [op |-> "set", id |-> so[n], arg |-> 0]
  BY DEF Op
<1> HIDE DEF o1
<1>3. IsSeq(f) /\ Shape(f) /\ Range(f) = {o1} /\ f # <<>>
  BY <1>2, ShapeOne, EmptyTuple
<1> HIDE DEF f
<1>4. IsOp(o1, n, Len(rows)) /\ o1.op \in Plain
  BY <1>1, <1>2 DEF IsOp, OfObject, Plain
<1>5. Repairs("set", n, override) => so[n] \in Id /\ (override \/ ~HasRow(so[n]))
  BY DEF Repairs
<1>6. QED
  BY <1>1, <1>2, <1>3, <1>4, <1>5, StartStep

LEMMA BackupInactiveStep ==
    ASSUME IInv, NEW p \in Proc, NEW n \in Name, BackupInactive(p, n),
           NEW override \in BOOLEAN, override = FALSE
    PROVE  IInv'
<1> DEFINE o1 == Op("backup", so[n], 0)
           f == <<o1>>
<1>1. Start(p, "backup", n, override, f) /\ (so[n] \in Id => NameOf[so[n]] = n)
  BY DEF BackupInactive, IInv, Types, Objects
<1>2. o1 = [op |-> "backup", id |-> so[n], arg |-> 0]
  BY DEF Op
<1> HIDE DEF o1
<1>3. IsSeq(f) /\ Shape(f) /\ Range(f) = {o1} /\ f # <<>>
  BY <1>2, ShapeOne, EmptyTuple
<1> HIDE DEF f
<1>4. IsOp(o1, n, Len(rows)) /\ o1.op \in Moving /\ o1.op \notin OfInstalled
      /\ o1.op # "activate"
  BY <1>1, <1>2 DEF IsOp, OfObject, Moving, OfInstalled
<1>5. ~Repairs("backup", n, override)
  BY DEF Repairs
<1>6. QED
  BY <1>1, <1>2, <1>3, <1>4, <1>5, StartStep

LEMMA BuildStep ==
    ASSUME IInv, NEW p \in Proc, NEW i \in Id, NEW override \in BOOLEAN,
           Build(p, i, override), NEW n, n = NameOf[i]
    PROVE  IInv'
<1> DEFINE o1 == Op("backup", i, 0)
           o2 == Op("copy_open", i, 0)
           o3 == Op("activate", i, 0)
           o4 == Op("set", i, 0)
           f == <<o1, o2, o3, o4>>
<1>1. Start(p, "build", n, override, f) /\ n \in Name
  BY KernelAssumption DEF Build
<1>2. /\ o1 = [op |-> "backup", id |-> i, arg |-> 0]
      /\ o2 = [op |-> "copy_open", id |-> i, arg |-> 0]
      /\ o3 = [op |-> "activate", id |-> i, arg |-> 0]
      /\ o4 = [op |-> "set", id |-> i, arg |-> 0]
  BY DEF Op
<1>3. IsSeq(f) /\ Shape(f) /\ Range(f) = {o1, o2, o3, o4}
  BY ShapeBuild
<1> HIDE DEF o1, o2, o3, o4, f
<1>4. f # <<>>
  BY <1>3, EmptyTuple
<1>5. \A o \in Range(f) : /\ IsOp(o, n, Len(rows)) /\ o.op \notin OfInstalled
                          /\ o.op \in Plain \cup Moving \cup {"activate"}
  BY <1>2, <1>3 DEF IsOp, OfObject, OfInstalled, Plain, Moving
<1>6. /\ \E o \in Range(f) : o.op = "activate"
      /\ \E o \in Range(f) : o.op = "copy_open"
  BY <1>2, <1>3
<1>7. QED
  BY <1>1, <1>3, <1>4, <1>5, <1>6, StartStep

(* An object put in place by hand. *)
LEMMA InstallStep ==
    ASSUME IInv, NEW i \in Id, Install(i), NEW n, n = NameOf[i]
    PROVE  IInv'
<1>1. /\ Types /\ n \in Name /\ Ordered(n) /\ so = [m \in Name |-> so[m]]
      /\ fault = [m \in Name |-> fault[m]] /\ NoProc \notin Proc
  BY KernelAssumption DEF IInv, Types, Objects, Faults
<1>2. /\ so' = [so EXCEPT ![n] = i] /\ Disturb(n, "replaced")
      /\ UNCHANGED <<rows, rec, broken, run>> /\ \A q \in Proc : ~Owns(q, n)
  BY DEF Install, Owns
<1>3. /\ so'[n] = i /\ \A m \in Name \ {n} : so'[m] = so[m] /\ fault'[m] = fault[m]
      /\ so' = [m \in Name |-> so'[m]] /\ fault' = [m \in Name |-> fault'[m]]
      /\ fault'[n] = IF fault[n] = "overlap" THEN "overlap" ELSE "replaced"
  BY <1>1, <1>2 DEF Disturb
<1>4. Types'
  <2>1. Objects'
    BY <1>1, <1>3 DEF Types, Objects
  <2>2. Rows' /\ Records' /\ Runs' /\ Faults'
    BY <1>1, <1>2, <1>3 DEF Types, Rows, Records, Runs, Faults
  <2>3. QED
    BY <2>1, <2>2 DEF Types
<1>5. Frame(NoProc, n)
  <2>1. \A m \in Name \ {n} : RowsOf(m)' = RowsOf(m) /\ \A k \in RowsOf(m) : rows'[k] = rows[k]
    BY <1>2 DEF RowsOf
  <2>2. QED
    BY <1>1, <1>2, <1>3, <2>1 DEF Frame
<1>6. ASSUME NEW m \in Name, m # n PROVE Ordered(m)' /\ Orderly(m)'
  BY <1>1, <1>4, <1>5, <1>6, OtherNames DEF IInv
<1>7. /\ ~Quiet(n)' /\ (Calm(n)' => Calm(n))
  BY <1>2, <1>3 DEF Quiet, Calm
<1>8. \A q \in Proc : ~Owns(q, n)'
  BY <1>2 DEF Owns, Busy, TheName
<1>9. Unique(n)' <=> Unique(n)
  BY <1>2 DEF Unique, RowsOf
<1>10. Ordered(n)' /\ Orderly(n)'
  BY <1>1, <1>7, <1>8, <1>9 DEF Ordered, Orderly, Single
<1>11. QED
  BY <1>4, <1>6, <1>10 DEF IInv


-----------------------------------------------------------------------------
(* The theorems *)

LEMMA InitInv == ASSUME Init PROVE IInv
<1>1. /\ so = [m \in Name |-> so[m]] /\ \A m \in Name : NameOf[so[m]] = m
      /\ rows = <<>> /\ rec = [i \in Id |-> NoRecord] /\ broken = FALSE
      /\ run = [p \in Proc |-> Idle] /\ fault = [m \in Name |-> "none"]
  BY DEF Init
<1>2. Objects /\ Faults
  BY <1>1 DEF Objects, Faults
<1>3. Rows /\ DOMAIN rows = {}
  BY <1>1, EmptyTuple DEF Rows
<1>4. Records
  BY <1>1 DEF Records, IsRec, NoRecord
<1>5. Runs /\ \A p \in Proc : run[p].todo = <<>>
  BY <1>1, IdleRun DEF Runs
<1>6. /\ \A p \in Proc, m \in Name : ~Owns(p, m)
      /\ \A m \in Name : RowsOf(m) = {}
  BY <1>3, <1>5 DEF Owns, Busy, RowsOf
<1>7. \A m \in Name : Ordered(m) /\ Orderly(m)
  BY <1>6 DEF Ordered, Orderly, Single, Unique
<1>8. QED
  BY <1>2, <1>3, <1>4, <1>5, <1>7 DEF IInv, Types

LEMMA Stutter == ASSUME IInv, UNCHANGED vars PROVE IInv'
<1>1. UNCHANGED <<so, rows, rec, run, fault, broken>>
  BY DEF vars
<1>2. Types'
  BY <1>1 DEF IInv, Types, Objects, Rows, Records, Runs, Faults
<1>3. ASSUME NEW n \in Name PROVE Ordered(n)' /\ Orderly(n)'
  <2>1. Ordered(n) /\ Orderly(n)
    BY DEF IInv
  <2>2. Ordered(n)'
    BY <1>1, <2>1 DEF Ordered, Calm, Single, Unique, Owns, Busy, TheName, Aimed, NotListed,
                      Covers, Gentle, Items, RowsOf, ActiveRows, HasRow
  <2>3. Orderly(n)'
    BY <1>1, <2>1 DEF Orderly, Quiet, Right, Done, WillDo, Want, Owns, Busy, TheName, Meant,
                      Writes, Written, Installed, Items, RowsOf, HasRow
  <2>4. QED
    BY <2>2, <2>3
<1>4. QED
  BY <1>2, <1>3 DEF IInv

(* The inductive invariant.  What a command has still to do has the order  *)
(* the code gives it (Types); while the commands on a name do not overlap  *)
(* it works on the installed object, on rows that are listed once, and a   *)
(* scan switches off others only behind a row of the new kernel (Ordered); *)
(* while nothing fails either, every row and its record carry the flag of  *)
(* what is installed or some operation that is still to do gives it to     *)
(* them (Orderly).                                                         *)
THEOREM Invariance == Spec => []IInv
<1>1. Init => IInv
  BY InitInv
<1>2. ASSUME IInv, [Next]_vars PROVE IInv'
  <2>1. CASE UNCHANGED vars
    BY <1>2, <2>1, Stutter
  <2>2. ASSUME NEW i \in Id, Install(i) PROVE IInv'
    BY <1>2, <2>2, InstallStep
  <2>3. ASSUME NEW p \in Proc, NEW n \in Name, NEW override \in BOOLEAN, Scan(p, n, override)
        PROVE  IInv'
    BY <1>2, <2>3, ScanStep
  <2>4. ASSUME NEW p \in Proc, NEW i \in Id, NEW override \in BOOLEAN, Build(p, i, override)
        PROVE  IInv'
    BY <1>2, <2>4, BuildStep
  <2>5. ASSUME NEW p \in Proc, NEW n \in Name, BackupInactive(p, n) PROVE IInv'
    <3>1. FALSE \in BOOLEAN
      OBVIOUS
    <3>2. QED
      BY <1>2, <2>5, <3>1, BackupInactiveStep
  <2>6. ASSUME NEW p \in Proc, NEW n \in Name, NEW override \in BOOLEAN, KernelSet(p, n, override)
        PROVE  IInv'
    BY <1>2, <2>6, KernelSetStep
  <2>7. ASSUME NEW p \in Proc, Step(p) PROVE IInv'
    BY <1>2, <2>7, StepStep
  <2>8. ASSUME NEW p \in Proc, BackupFail(p) \/ CopyFail(p) \/ WriteFail(p) \/ Crash(p)
        PROVE  IInv'
    BY <1>2, <2>8, BackupFailStep, CopyFailStep, WriteFailStep, CrashStep
  <2>9. QED
    BY <1>2, <2>1, <2>2, <2>3, <2>4, <2>5, <2>6, <2>7, <2>8 DEF Next
<1>3. QED
  BY <1>1, <1>2, PTL DEF Spec

LEMMA SettledRows ==
    ASSUME IInv, NEW n \in Name, Settled(n)
    PROVE  Unique(n) /\ \A k \in RowsOf(n) : Done(n, k)
<1>1. Quiet(n) /\ Calm(n) /\ \A p \in Proc : ~Owns(p, n)
  BY DEF Settled, Quiet, Calm, Owns
<1>2. Ordered(n) /\ Orderly(n)
  BY DEF IInv
<1>3. QED
  BY <1>1, <1>2 DEF Ordered, Orderly, Right

(* Whatever builds, backups, scans and kernel sets came before, and as     *)
(* soon as one that repairs has followed a failed command or an object put *)
(* in place by hand: once no command on the name is under way the row of   *)
(* the installed kernel is the one active row of the name, kernel get      *)
(* (_sf_pick_latest_entry) shows it, and the flag that is patched into row *)
(* and record one after the other is the same in both.                     *)
THEOREM ActiveIsInstalled == Spec => []InstalledIsActive
<1>1. ASSUME IInv, NEW n \in Name, Settled(n)
      PROVE  /\ \A k \in ActiveRows(n) : rows[k].id = so[n]
             /\ HasRow(so[n]) => /\ ActiveRows(n) = {FirstRow(so[n])}
                                 /\ KernelGet(n) = FirstRow(so[n])
             /\ \A k \in RowsOf(n) :
                  rec[rows[k].id].whole => rec[rows[k].id].active = rows[k].active
  <2>1. Unique(n) /\ \A k \in RowsOf(n) : Done(n, k)
    BY <1>1, SettledRows
  <2>2. \A k \in ActiveRows(n) : k \in RowsOf(n) /\ rows[k].id = so[n]
    BY <2>1 DEF ActiveRows, Done, Want
  <2>3. ASSUME HasRow(so[n])
        PROVE  ActiveRows(n) = {FirstRow(so[n])} /\ KernelGet(n) = FirstRow(so[n])
    <3> DEFINE j == FirstRow(so[n])
    <3>1. Rows /\ Objects
      BY <1>1 DEF IInv, Types
    <3>2. j \in DOMAIN rows /\ rows[j].id = so[n]
      BY <2>3, <3>1, FirstRowFacts
    <3> HIDE DEF j
    <3>3. j \in Nat /\ so[n] \in Id /\ rows[j].name = NameOf[so[n]]
      BY <3>1, <3>2, RowFacts
    <3>4. j \in RowsOf(n)
      BY <3>1, <3>2, <3>3 DEF RowsOf, Objects
    <3>5. j \in ActiveRows(n)
      BY <2>1, <3>2, <3>4 DEF ActiveRows, Done, Want
    <3>6. ActiveRows(n) = {j}
      BY <2>1, <2>2, <3>2, <3>4, <3>5 DEF Unique
    <3>7. KernelGet(n) = Max({j})
      BY <3>6 DEF KernelGet
    <3>8. QED
      BY <3>3, <3>6, <3>7, MaxOfOne DEF j
  <2>4. \A k \in RowsOf(n) : rec[rows[k].id].whole => rec[rows[k].id].active = rows[k].active
    BY <2>1 DEF Done
  <2>5. QED
    BY <2>2, <2>3, <2>4
<1>2. IInv => InstalledIsActive
  BY <1>1 DEF InstalledIsActive
<1>3. QED
  BY <1>2, Invariance, PTL

(* Only three operations change the rows. *)
LEMMA RowSteps ==
    ASSUME [Next]_vars
    PROVE  rows' = rows \/ \E p \in Proc : PatchRow(p) \/ PatchUtc(p) \/ AppendEnd(p)
<1>1. CASE UNCHANGED vars
  BY <1>1 DEF vars
<1>2. ASSUME NEW i \in Id, Install(i) PROVE rows' = rows
  BY <1>2 DEF Install
<1>3. ASSUME NEW p \in Proc, NEW n, NEW override, Scan(p, n, override) \/ KernelSet(p, n, override)
      PROVE  rows' = rows
  BY <1>3 DEF Scan, KernelSet, Start
<1>4. ASSUME NEW p \in Proc, NEW i, NEW override, Build(p, i, override) PROVE rows' = rows
  BY <1>4 DEF Build, Start
<1>5. ASSUME NEW p \in Proc, NEW n, BackupInactive(p, n) PROVE rows' = rows
  BY <1>5 DEF BackupInactive, Start
<1>6. ASSUME NEW p \in Proc, BackupFail(p) \/ CopyFail(p) \/ WriteFail(p) \/ Crash(p)
      PROVE  rows' = rows
  BY <1>6 DEF BackupFail, CopyFail, WriteFail, Crash
<1>7. ASSUME NEW p \in Proc, Step(p)
      PROVE  rows' = rows \/ PatchRow(p) \/ PatchUtc(p) \/ AppendEnd(p)
  <2>1. CASE Backup(p) \/ CopyOpen(p) \/ Copy(p) \/ Activate(p)
    BY <2>1 DEF Backup, CopyOpen, Copy, Activate
  <2>2. CASE PatchListFail(p) \/ PatchRecord(p) \/ Deactivate(p) \/ SwitchOff(p)
    BY <2>2 DEF PatchListFail, PatchRecord, Deactivate, SwitchOff
  <2>3. CASE WriteOpen(p) \/ Write(p) \/ AppendBegin(p) \/ AppendRefuse(p)
    BY <2>3 DEF WriteOpen, Write, AppendBegin, AppendRefuse
  <2>4. CASE Resolve(p) \/ ResolveBlind(p) \/ SetBegin(p) \/ SetKeys(p) \/ SetKey(p)
    BY <2>4 DEF Resolve, ResolveBlind, SetBegin, SetKeys, SetKey
  <2>5. QED
    BY <1>7, <2>1, <2>2, <2>3, <2>4 DEF Step
<1>8. QED
  BY <1>1, <1>2, <1>3, <1>4, <1>5, <1>6, <1>7 DEF Next

(* tpb_raf_entry_patch_kernel_active in a scan or kernel set without       *)
(* override: it meets a row other than that of the installed kernel, which *)
(* is active by then.                                                      *)
LEMMA PatchKeepsActive ==
    ASSUME IInv, NEW p \in Proc, PatchRow(p), NEW n \in Name, ActiveRows(n) # {},
           fault[n] # "overlap",
           Owns(p, n) => run[p].cmd \in {"scan", "set"} /\ ~run[p].override
    PROVE  ActiveRows(n)' # {}
<1> DEFINE h == Head(run[p].todo)
<1>1. /\ Types /\ Busy(p) /\ h.op = "row" /\ Follows(h, Tail(run[p].todo))
      /\ Items(p) = {h} \cup Rest(p) /\ IsOp(h, TheName(p), Len(rows)) /\ h.id = TheId(p)
  BY AtStep DEF PatchRow, TheId
<1>2. /\ SameRows
      /\ \A k \in DOMAIN rows : rows[k].id # h.id => rows'[k].active = rows[k].active
  BY <1>1, PatchRowRows
<1>3. \A k \in ActiveRows(n) : rows[k].id # h.id => k \in ActiveRows(n)'
  BY <1>2 DEF SameRows, ActiveRows, RowsOf
<1>4. CASE TheName(p) # n
  <2>1. \A k \in ActiveRows(n) : rows[k].id \in Id /\ NameOf[rows[k].id] = n
    BY <1>1, RowFacts DEF ActiveRows, RowsOf, Types
  <2>2. \A k \in ActiveRows(n) : rows[k].id # h.id
    BY <1>1, <1>4, <2>1 DEF IsOp
  <2>3. QED
    BY <1>3, <2>2
<1>5. CASE TheName(p) = n
  <2>1. Owns(p, n) /\ Calm(n) /\ Ordered(n)
    BY <1>1, <1>5 DEF Owns, Calm, PatchRow, Listed, ListOk, IInv
  <2>2. Gentle(p, n) /\ run[p].cmd \in {"scan", "set"} /\ ~run[p].override
    BY <2>1 DEF Ordered
  <2>3. h.id # so[n]
    BY <1>1, <2>2 DEF Gentle
  <2>4. \A o \in Items(p) : o.op \notin Appends
    BY <1>1 DEF Follows, Rest, AtFirst, Appends, Writing
  <2>5. PICK k \in ActiveRows(n) : rows[k].id = so[n]
    BY <1>1, <2>2, <2>4 DEF Gentle, Switching
  <2>6. QED
    BY <1>3, <2>3, <2>5
<1>6. QED
  BY <1>4, <1>5

(* While only scans and kernel set, without override, are at work on a     *)
(* name, none of their steps, failures or kills leaves it without an       *)
(* active kernel: tpb_raf_kernel_deactivate_same_name comes behind the     *)
(* append of the new kernel's row.                                         *)
THEOREM ScansKeepActive == Spec => KeepsActive
<1> DEFINE Keeps == \A n \in Name :
                      /\ ActiveRows(n) # {} /\ fault[n] # "overlap"
                      /\ \A p \in Proc : Busy(p) /\ TheName(p) = n =>
                             run[p].cmd \in {"scan", "set"} /\ ~run[p].override
                      => ActiveRows(n)' # {}
<1>1. ASSUME IInv, [Next]_vars PROVE Keeps
  <2> SUFFICES ASSUME NEW n \in Name, ActiveRows(n) # {}, fault[n] # "overlap",
                      \A p \in Proc : Busy(p) /\ TheName(p) = n =>
                          run[p].cmd \in {"scan", "set"} /\ ~run[p].override
               PROVE  ActiveRows(n)' # {}
    OBVIOUS
  <2>1. Types /\ Rows
    BY <1>1 DEF IInv, Types
  <2>2. CASE rows' = rows
    BY <2>2 DEF ActiveRows, RowsOf
  <2>3. ASSUME NEW p \in Proc, PatchRow(p) PROVE ActiveRows(n)' # {}
    BY <1>1, <2>3, PatchKeepsActive DEF Owns
  <2>4. ASSUME NEW p \in Proc, PatchUtc(p) PROVE ActiveRows(n)' # {}
    <3>1. SameRows /\ \A k \in DOMAIN rows : rows'[k].active = rows[k].active
      BY <2>1, <2>4, PatchUtcRows
    <3>2. QED
      BY <3>1 DEF SameRows, ActiveRows, RowsOf
  <2>5. ASSUME NEW p \in Proc, AppendEnd(p) PROVE ActiveRows(n)' # {}
    <3> DEFINE r == [id |-> TheId(p), name |-> TheName(p), active |-> 1, utc |-> "new"]
    <3>1. /\ rows' = Append(rows, r) /\ TheId(p) \in Id /\ NameOf[TheId(p)] = TheName(p)
      BY <1>1, <2>5, AtStep DEF AppendEnd, TheId, IsOp, OfObject
    <3>2. IsRow(r)
      BY <3>1 DEF IsRow
    <3> HIDE DEF r
    <3>3. DOMAIN rows \subseteq DOMAIN rows' /\ \A k \in DOMAIN rows : rows'[k] = rows[k]
      BY <2>1, <3>1, <3>2, RowAppended
    <3>4. QED
      BY <3>3 DEF ActiveRows, RowsOf
  <2>6. QED
    BY <1>1, <2>2, <2>3, <2>4, <2>5, RowSteps
<1>2. QED
  BY <1>1, Invariance, PTL DEF Spec, KeepsActive
=============================================================================
