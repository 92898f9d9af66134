-------------------------- MODULE RunCommandProofs --------------------------
(***************************************************************************)
(* Proofs about tpbcli run, for any kernels, command lines, dimensions and *)
(* wrappers: what follows a --kernel never reaches back over it, and the   *)
(* wrappers of a segment reach the handles that the code gives them to.    *)
(* The expansions are folds; FoldOp names the step of each, so that one    *)
(* induction (IterateExists) shows that all of them are defined.           *)
(***************************************************************************)
EXTENDS RunCommand, WellFoundedInduction, SequenceTheorems, TLAPS

-----------------------------------------------------------------------------
(* Naturals and lists.                                                      *)

(* A set of naturals that is not empty has a least member. *)
LEMMA LeastOf ==
  ASSUME NEW T, T \subseteq Nat, T # {}
  PROVE  \E x \in T : \A y \in T : x <= y
<1>1. \E x \in T : \A y \in T : ~(<<y, x>> \in OpToRel(<, Nat))
  BY NatLessThanWellFounded, WFMin
<1>2. \E x \in T : \A y \in T : ~(y < x)
  BY <1>1 DEF OpToRel
<1> QED
  BY <1>2

(* Induction up to n, over the set of the numbers it holds for. *)
LEMMA UpTo ==
  ASSUME NEW n \in Nat, NEW T, 0 \in T, \A k \in 1..n : k - 1 \in T => k \in T
  PROVE  n \in T
<1> DEFINE Bad == {k \in 0..n : k \notin T}
<1>1. ASSUME Bad # {} PROVE FALSE
  <2>0. Bad \subseteq Nat
    OBVIOUS
  <2>1. PICK k \in Bad : \A j \in Bad : k <= j
    BY <1>1, <2>0, LeastOf
  <2>2. k \in 1..n /\ k - 1 \in 0..n /\ ~(k <= k - 1)
    BY <2>1
  <2>3. k - 1 \in T
    BY <2>1, <2>2
  <2> QED
    BY <2>1, <2>2, <2>3
<1> QED
  BY <1>1

IsList(q) == \E S : q \in Seq(S)

LEMMA ListFacts ==
  ASSUME NEW q, IsList(q)
  PROVE  Len(q) \in Nat /\ DOMAIN q = 1..Len(q) /\ (q = <<>> <=> Len(q) = 0)
  BY DEF IsList

LEMMA ListAppend ==
  ASSUME NEW q, IsList(q), NEW y
  PROVE  LET r == Append(q, y)
         IN  /\ IsList(r) /\ Len(r) = Len(q) + 1 /\ DOMAIN r = 1..(Len(q) + 1)
             /\ r[Len(q) + 1] = y /\ r # <<>>
             /\ \A i \in 1..Len(q) : r[i] = q[i]
<1>1. PICK S : q \in Seq(S)
  BY DEF IsList
<1>2. q \in Seq(S \cup {y})
  BY <1>1
<1>3. Append(q, y) \in Seq(S \cup {y})
  BY <1>2
<1> QED
  BY <1>2, <1>3 DEF IsList

LEMMA ListExcept ==
  ASSUME NEW q, IsList(q), NEW i, NEW y
  PROVE  LET r == [q EXCEPT ![i] = y]
         IN  /\ IsList(r) /\ Len(r) = Len(q) /\ DOMAIN r = DOMAIN q
             /\ \A j \in DOMAIN q : r[j] = IF j = i THEN y ELSE q[j]
<1> DEFINE r == [q EXCEPT ![i] = y]
<1>1. PICK S : q \in Seq(S)
  BY DEF IsList
<1>2. q \in [1..Len(q) -> S \cup {y}] /\ Len(q) \in Nat
  BY <1>1
<1>3. r \in [1..Len(q) -> S \cup {y}]
  BY <1>2
<1>4. r \in Seq(S \cup {y}) /\ Len(r) = Len(q)
  BY <1>2, <1>3
<1> QED
  BY <1>2, <1>4 DEF IsList

-----------------------------------------------------------------------------
(* The driver.                                                              *)

DrvFields == {"hdl", "cur", "live", "junk", "bad", "err"}
HdlFields == {"kernel", "args", "envs", "wraps"}

(* The current handle is the last one. *)
DrvOK(d) ==
  /\ DOMAIN d = DrvFields /\ IsList(d.hdl) /\ d.cur = Len(d.hdl)
  /\ \A i \in DOMAIN d.hdl : DOMAIN d.hdl[i] = HdlFields

(* e differs from d at most in the last handle, whose wrappers it keeps. *)
Touched(d, e) ==
  /\ DrvOK(e) /\ Len(e.hdl) = Len(d.hdl)
  /\ \A i \in 1..Len(d.hdl) : /\ e.hdl[i].wraps = d.hdl[i].wraps
                              /\ i # Len(d.hdl) => e.hdl[i] = d.hdl[i]

(* e has the handles of d up to number c, but for what number c is set to, *)
(* and behind them others, which have the wrappers of number c.            *)
Grown(d, c, e) ==
  /\ DrvOK(e) /\ c <= Len(e.hdl)
  /\ \A i \in 1..(c - 1) : e.hdl[i] = d.hdl[i]
  /\ \A i \in c..Len(e.hdl) : e.hdl[i].wraps = d.hdl[c].wraps

(* A driver whose last handle is replaced. *)
LEMMA LastReplaced ==
  ASSUME NEW d, DrvOK(d), NEW h, DOMAIN h = HdlFields, NEW e, DOMAIN e = DrvFields,
         e.cur = d.cur, e.hdl = [d.hdl EXCEPT ![d.cur] = h]
  PROVE  /\ DrvOK(e) /\ Len(e.hdl) = Len(d.hdl)
         /\ \A i \in 1..Len(d.hdl) : e.hdl[i] = IF i = Len(d.hdl) THEN h ELSE d.hdl[i]
<1>1. Len(d.hdl) \in Nat /\ DOMAIN d.hdl = 1..Len(d.hdl) /\ d.cur = Len(d.hdl)
  BY ListFacts DEF DrvOK
<1> DEFINE r == [d.hdl EXCEPT ![d.cur] = h]
<1>2. /\ IsList(r) /\ Len(r) = Len(d.hdl) /\ DOMAIN r = DOMAIN d.hdl
      /\ \A j \in DOMAIN d.hdl : r[j] = IF j = d.cur THEN h ELSE d.hdl[j]
  <2>1. IsList(d.hdl)
    BY DEF DrvOK
  <2> QED
    BY <2>1, ListExcept
<1> HIDE DEF r
<1>3. e.hdl = r
  BY DEF r
<1> QED
  BY <1>1, <1>2, <1>3 DEF DrvOK

LEMMA KargTouches ==
  ASSUME NEW d, DrvOK(d), NEW p, NEW v
  PROVE  Touched(d, SetHdlKarg(d, p, v))
<1> DEFINE e == SetHdlKarg(d, p, v)
<1> SUFFICES Touched(d, e)
  OBVIOUS
<1>0. Len(d.hdl) \in Nat /\ DOMAIN d.hdl = 1..Len(d.hdl) /\ d.cur = Len(d.hdl)
  BY ListFacts DEF DrvOK
<1>1. CASE e = [d EXCEPT !.err = TRUE]
  BY <1>1, <1>0 DEF Touched, DrvOK, DrvFields
<1>2. ASSUME d.cur # 0,
             NEW err, NEW bad, NEW x,
             e = [d EXCEPT !.err = err, !.bad = bad, !.hdl[d.cur].args[p] = x]
      PROVE  Touched(d, e)
  <2> DEFINE h == [d.hdl[d.cur] EXCEPT !.args[p] = x]
  <2>1. DOMAIN h = HdlFields /\ h.wraps = d.hdl[d.cur].wraps
    BY <1>0, <1>2 DEF DrvOK, HdlFields
  <2>2. /\ DOMAIN e = DrvFields /\ e.cur = d.cur /\ e.hdl = [d.hdl EXCEPT ![d.cur] = h]
    BY <1>2 DEF DrvOK, DrvFields
  <2> HIDE DEF h, e
  <2>3. /\ DrvOK(e) /\ Len(e.hdl) = Len(d.hdl)
        /\ \A i \in 1..Len(d.hdl) : e.hdl[i] = IF i = Len(d.hdl) THEN h ELSE d.hdl[i]
    BY <2>1, <2>2, LastReplaced
  <2> QED
    BY <1>0, <2>1, <2>3 DEF Touched
<1>3. \/ e = [d EXCEPT !.err = TRUE]
      \/ d.cur # 0 /\ \E err, bad, x :
           e = [d EXCEPT !.err = err, !.bad = bad, !.hdl[d.cur].args[p] = x]
  BY DEF SetHdlKarg
<1> HIDE DEF e
<1>4. CASE e # [d EXCEPT !.err = TRUE]
  <2>1. d.cur # 0
    BY <1>3, <1>4
  <2>2. PICK err, bad, x : e = [d EXCEPT !.err = err, !.bad = bad, !.hdl[d.cur].args[p] = x]
    BY <1>3, <1>4
  <2> QED
    BY <2>1, <2>2, <1>2
<1> QED
  BY <1>1, <1>4

LEMMA EnvTouches ==
  ASSUME NEW d, DrvOK(d), NEW x, NEW v
  PROVE  Touched(d, SetHdlEnv(d, x, v))
<1> DEFINE e == SetHdlEnv(d, x, v)
<1>0. Len(d.hdl) \in Nat /\ DOMAIN d.hdl = 1..Len(d.hdl) /\ d.cur = Len(d.hdl)
  BY ListFacts DEF DrvOK
<1>1. CASE d.cur = 0
  <2>1. e = [d EXCEPT !.err = TRUE]
    BY <1>1 DEF SetHdlEnv
  <2> QED
    BY <2>1, <1>0 DEF Touched, DrvOK, DrvFields
<1>2. CASE d.cur # 0
  <2> DEFINE o == d.hdl[d.cur].envs
             w == [y \in DOMAIN o \cup {x} |-> IF y = x THEN v ELSE o[y]]
             h == [d.hdl[d.cur] EXCEPT !.envs = w]
  <2>1. e = [d EXCEPT !.err = FALSE, !.hdl[d.cur].envs = w]
    BY <1>2 DEF SetHdlEnv
  <2> HIDE DEF w
  <2>2. DOMAIN h = HdlFields /\ h.wraps = d.hdl[d.cur].wraps
    BY <1>0, <1>2 DEF DrvOK, HdlFields
  <2>3. /\ DOMAIN e = DrvFields /\ e.cur = d.cur /\ e.hdl = [d.hdl EXCEPT ![d.cur] = h]
    BY <2>1 DEF DrvOK, DrvFields
  <2> HIDE DEF h, e
  <2>4. /\ DrvOK(e) /\ Len(e.hdl) = Len(d.hdl)
        /\ \A i \in 1..Len(d.hdl) : e.hdl[i] = IF i = Len(d.hdl) THEN h ELSE d.hdl[i]
    BY <2>2, <2>3, LastReplaced
  <2>5. Touched(d, e)
    BY <1>0, <2>2, <2>4 DEF Touched
  <2> QED
    BY <2>5 DEF e
<1> QED
  BY <1>1, <1>2

(* A new handle, or none. *)
LEMMA AddFacts ==
  ASSUME NEW d, DrvOK(d), NEW k
  PROVE  LET e == AddHandle(d, k)
         IN  /\ DrvOK(e)
             /\ Len(e.hdl) \in Len(d.hdl)..(Len(d.hdl) + 1)
             /\ k \in KernelAll => Len(e.hdl) = Len(d.hdl) + 1 /\ e.err = FALSE
             /\ \A i \in 1..Len(d.hdl) : e.hdl[i] = d.hdl[i]
<1> DEFINE e == AddHandle(d, k)
<1>0. Len(d.hdl) \in Nat /\ DOMAIN d.hdl = 1..Len(d.hdl) /\ d.cur = Len(d.hdl)
  BY ListFacts DEF DrvOK
<1>1. CASE k \in KernelAll
  <2>1. e = [d EXCEPT !.hdl = Append(@, NewHandle(k)), !.cur = Len(d.hdl) + 1, !.err = FALSE]
    BY <1>1 DEF AddHandle
  <2>2. /\ DOMAIN e = DrvFields /\ e.hdl = Append(d.hdl, NewHandle(k))
        /\ e.cur = Len(d.hdl) + 1 /\ e.err = FALSE
    BY <2>1 DEF DrvOK, DrvFields
  <2>3. /\ IsList(e.hdl) /\ Len(e.hdl) = Len(d.hdl) + 1 /\ DOMAIN e.hdl = 1..(Len(d.hdl) + 1)
        /\ e.hdl[Len(d.hdl) + 1] = NewHandle(k)
        /\ \A i \in 1..Len(d.hdl) : e.hdl[i] = d.hdl[i]
    BY <2>2, ListAppend DEF DrvOK
  <2>4. DOMAIN NewHandle(k) = HdlFields
    BY DEF NewHandle, HdlFields
  <2>5. \A i \in DOMAIN e.hdl : DOMAIN e.hdl[i] = HdlFields
    BY <1>0, <2>3, <2>4 DEF DrvOK
  <2> QED
    BY <1>1, <2>2, <2>3, <2>5 DEF DrvOK
<1>2. CASE k \notin KernelAll
  <2>1. e = [d EXCEPT !.err = TRUE]
    BY <1>2 DEF AddHandle
  <2>2. /\ DOMAIN e = DrvFields /\ e.hdl = d.hdl /\ e.cur = d.cur /\ e.err = TRUE
    BY <2>1 DEF DrvOK, DrvFields
  <2>3. DrvOK(e)
    BY <2>2 DEF DrvOK
  <2> HIDE DEF e
  <2>4. /\ DrvOK(e)
        /\ Len(e.hdl) \in Len(d.hdl)..(Len(d.hdl) + 1)
        /\ \A i \in 1..Len(d.hdl) : e.hdl[i] = d.hdl[i]
    BY <1>0, <1>2, <2>2, <2>3
  <2> QED
    BY <1>2, <2>4 DEF e
<1> QED
  BY <1>1, <1>2

(* A copy of a handle takes over its wrappers. *)
LEMMA CopyFacts ==
  ASSUME NEW d, DrvOK(d), NEW src, Len(d.hdl) # 0
  PROVE  LET e == CopyHdlFrom(d, src)
             n == Len(d.hdl)
         IN  /\ DrvOK(e) /\ Len(e.hdl) = n /\ e.hdl[n].wraps = d.hdl[src].wraps
             /\ \A i \in 1..n : i # n => e.hdl[i] = d.hdl[i]
<1> DEFINE e == CopyHdlFrom(d, src)
           s == d.hdl[src]
           c == d.hdl[d.cur]
           a == [p \in DOMAIN c.args |-> IF p \in DOMAIN s.args THEN s.args[p] ELSE c.args[p]]
           v == IF DOMAIN s.envs # {} THEN s.envs ELSE c.envs
           h == [c EXCEPT !.args = a, !.envs = v, !.wraps = s.wraps]
<1>0. Len(d.hdl) \in Nat /\ DOMAIN d.hdl = 1..Len(d.hdl) /\ d.cur = Len(d.hdl)
  BY ListFacts DEF DrvOK
<1>1. e = [d EXCEPT !.err = FALSE, !.hdl[d.cur] = h]
  BY DEF CopyHdlFrom
<1> HIDE DEF a, v
<1>2. DOMAIN h = HdlFields /\ h.wraps = s.wraps
  BY <1>0 DEF DrvOK, HdlFields
<1>3. /\ DOMAIN e = DrvFields /\ e.cur = d.cur /\ e.hdl = [d.hdl EXCEPT ![d.cur] = h]
  BY <1>1 DEF DrvOK, DrvFields
<1> HIDE DEF h, e
<1>4. /\ DrvOK(e) /\ Len(e.hdl) = Len(d.hdl)
      /\ \A i \in 1..Len(d.hdl) : e.hdl[i] = IF i = Len(d.hdl) THEN h ELSE d.hdl[i]
  BY <1>2, <1>3, LastReplaced
<1>5. Len(d.hdl) \in 1..Len(d.hdl)
  BY <1>0
<1> QED
  BY <1>2, <1>4, <1>5 DEF e

(* A step of an expansion: the last handle is set, or a copy is added. *)
LEMMA TouchGrows ==
  ASSUME NEW d, NEW c \in Nat \ {0}, NEW acc, Grown(d, c, acc), NEW e, Touched(acc, e)
  PROVE  Grown(d, c, e)
<1>1. Len(acc.hdl) \in Nat
  BY ListFacts DEF Grown, DrvOK
<1> QED
  BY <1>1 DEF Grown, Touched

LEMMA CopyGrows ==
  ASSUME NEW d, NEW c \in Nat \ {0}, NEW acc, Grown(d, c, acc), NEW k
  PROVE  Grown(d, c, CopyHdlFrom(AddHandle(acc, k), c))
<1> DEFINE b == AddHandle(acc, k)
           e == CopyHdlFrom(b, c)
           m == Len(acc.hdl)
           n == Len(b.hdl)
<1>1. DrvOK(acc) /\ m \in Nat /\ c <= m
  BY ListFacts DEF Grown, DrvOK
<1>2. /\ DrvOK(b) /\ n \in m..(m + 1)
      /\ \A i \in 1..m : b.hdl[i] = acc.hdl[i]
  BY <1>1, AddFacts
<1> HIDE DEF b
<1>3. n \in Nat /\ (n = m \/ n = m + 1)
  BY <1>1, <1>2
<1>4. /\ DrvOK(e) /\ Len(e.hdl) = n /\ e.hdl[n].wraps = b.hdl[c].wraps
      /\ \A i \in 1..n : i # n => e.hdl[i] = b.hdl[i]
  BY <1>1, <1>2, <1>3, CopyFacts
<1> HIDE DEF e, m, n
<1>5. b.hdl[c] = acc.hdl[c] /\ acc.hdl[c].wraps = d.hdl[c].wraps
  BY <1>1, <1>2 DEF Grown, m
<1>6. ASSUME NEW i \in c..n PROVE e.hdl[i].wraps = d.hdl[c].wraps
  <2>1. CASE i = n
    BY <2>1, <1>4, <1>5
  <2>2. CASE i # n
    <3>1. i \in 1..n /\ i \in 1..m /\ i \in c..m
      BY <2>2, <1>3, <1>1
    <3> QED
      BY <2>2, <3>1, <1>2, <1>4 DEF Grown, m
  <2> QED
    BY <2>1, <2>2
<1>7. ASSUME NEW i \in 1..(c - 1) PROVE e.hdl[i] = d.hdl[i]
  <2>1. i \in 1..n /\ i \in 1..m /\ i # n
    BY <1>1, <1>3
  <2> QED
    BY <2>1, <1>2, <1>4 DEF Grown
<1>8. Grown(d, c, e)
  BY <1>1, <1>3, <1>4, <1>6, <1>7 DEF Grown
<1> QED
  BY <1>8 DEF e, b

-----------------------------------------------------------------------------
(* The folds of the expansion.                                              *)

(* The value that combination c gives dimension j. *)
CombinationValue(ds, c, j) ==
  LET n == Len(ds)
      vals == [i \in 1..n |-> GenerateValues(ds[i][2])]
      rem[i \in 1..n] == IF i = n THEN c ELSE rem[i + 1] \div Len(vals[i + 1])
  IN vals[j][(rem[j] % Len(vals[j])) + 1]

(* The step of each fold. *)
FoldOp(job, acc, x) ==
  CASE job[1] = "args" ->
         IF acc.err THEN acc
         ELSE IF x = 1 THEN SetHdlKarg(acc, job[2], job[3][1])
         ELSE SetHdlKarg(CopyHdlFrom(AddHandle(acc, job[4]), job[5]), job[2], job[3][x])
    [] job[1] = "envs" ->
         IF acc.err THEN acc
         ELSE IF x = 1 THEN SetHdlEnv(acc, job[2], job[3][1])
         ELSE SetHdlEnv(CopyHdlFrom(AddHandle(acc, job[4]), job[5]), job[2], job[3][x])
    [] job[1] = "combination" -> SetHdlKarg(acc, job[2][x][1], CombinationValue(job[2], job[3], x))
    [] job[1] = "product" ->
         IF x = 0 THEN Combination(job[2], 0, acc)
         ELSE Combination(job[2], x, CopyHdlFrom(AddHandle(acc, job[3]), job[4]))
    [] job[1] = "size" -> acc * Len(GenerateValues(x[2]))

(* g is the fold of q, from base, on the sets of places up to n. *)
Iterate(job, base, q, n, g) ==
  g = [s \in SUBSET (1..n) |->
         IF s = {} THEN base ELSE FoldOp(job, g[s \ {Max(s)}], q[Max(s)])]

LEMMA IterateStep ==
  ASSUME NEW job, NEW base, NEW q, NEW n \in Nat, NEW g, Iterate(job, base, q, n, g)
  PROVE  \E h : Iterate(job, base, q, n + 1, h)
<1> DEFINE C(acc, m) == FoldOp(job, acc, q[m])
           h == [s \in SUBSET (1..(n + 1)) |->
                   IF n + 1 \in s THEN C(g[s \ {n + 1}], n + 1) ELSE g[s]]
<1> HIDE DEF C
<1>0. \A s \in SUBSET (1..n) : g[s] = IF s = {} THEN base ELSE C(g[s \ {Max(s)}], Max(s))
  BY DEF Iterate, C
<1>1. ASSUME NEW s \in SUBSET (1..(n + 1))
      PROVE  h[s] = IF s = {} THEN base ELSE C(h[s \ {Max(s)}], Max(s))
  <2>1. CASE n + 1 \in s
    <3>1. Max(s) = n + 1
      <4>1. \A y \in s : n + 1 >= y
        OBVIOUS
      <4>2. \A x \in s : (\A y \in s : x >= y) => x = n + 1
        BY <4>1, <2>1
      <4> QED
        BY <4>1, <4>2, <2>1 DEF Max
    <3>2. s \ {n + 1} \in SUBSET (1..n) /\ s \ {n + 1} \in SUBSET (1..(n + 1))
      OBVIOUS
    <3>3. h[s \ {n + 1}] = g[s \ {n + 1}]
      BY <3>2
    <3> QED
      BY <2>1, <3>1, <3>3
  <2>2. CASE n + 1 \notin s
    <3>1. s \in SUBSET (1..n) /\ h[s] = g[s]
      BY <2>2
    <3>2. s \ {Max(s)} \in SUBSET (1..(n + 1)) /\ n + 1 \notin s \ {Max(s)}
      BY <2>2
    <3>3. h[s \ {Max(s)}] = g[s \ {Max(s)}]
      BY <3>2
    <3> QED
      BY <3>1, <3>3, <1>0
  <2> QED
    BY <2>1, <2>2
<1>2. h = [s \in SUBSET (1..(n + 1)) |->
             IF s = {} THEN base ELSE C(h[s \ {Max(s)}], Max(s))]
  BY <1>1
<1>3. Iterate(job, base, q, n + 1, h)
  BY <1>2 DEF Iterate, C
<1> QED
  BY <1>3

LEMMA IterateExists ==
  ASSUME NEW job, NEW base, NEW q, NEW n \in Nat
  PROVE  \E g : Iterate(job, base, q, n, g)
<1> DEFINE T == {k \in Nat : \E g : Iterate(job, base, q, k, g)}
<1>1. 0 \in T
  <2> DEFINE g == [s \in SUBSET (1..0) |-> base]
  <2>1. \A s \in SUBSET (1..0) : s = {}
    OBVIOUS
  <2>2. Iterate(job, base, q, 0, g)
    BY <2>1 DEF Iterate
  <2> QED
    BY <2>2
<1>2. ASSUME NEW k \in 1..n, k - 1 \in T PROVE k \in T
  <2>1. PICK g : Iterate(job, base, q, k - 1, g)
    BY <1>2
  <2>2. k - 1 \in Nat /\ (k - 1) + 1 = k
    OBVIOUS
  <2>3. \E h : Iterate(job, base, q, (k - 1) + 1, h)
    BY <2>1, <2>2, IterateStep
  <2> QED
    BY <2>2, <2>3
<1> HIDE DEF T
<1>3. n \in T
  BY <1>1, <1>2, UpTo
<1> QED
  BY <1>3 DEF T

(* f[i] is what the fold has after i members of q. *)
Runs(job, base, q, n, f) ==
  /\ f[0] = base
  /\ \A i \in 1..n : f[i] = FoldOp(job, f[i - 1], q[i])

LEMMA IterateRuns ==
  ASSUME NEW job, NEW base, NEW q, NEW n \in Nat, NEW g, Iterate(job, base, q, n, g)
  PROVE  \E f : Runs(job, base, q, n, f) /\ f[n] = g[1..n]
<1> DEFINE f == [i \in 0..n |-> g[1..i]]
<1>1. f[0] = base
  <2>1. 1..0 = {} /\ {} \in SUBSET (1..n) /\ 0 \in 0..n
    OBVIOUS
  <2>2. g[{}] = base
    BY <2>1 DEF Iterate
  <2> QED
    BY <2>1, <2>2
<1>2. ASSUME NEW i \in 1..n PROVE f[i] = FoldOp(job, f[i - 1], q[i])
  <2>1. i \in 0..n /\ i - 1 \in 0..n /\ 1..i \in SUBSET (1..n)
    OBVIOUS
  <2>2. 1..i # {} /\ (1..i) \ {i} = 1..(i - 1) /\ i \in 1..i
    OBVIOUS
  <2>3. Max(1..i) = i
    <3>1. \A y \in 1..i : i >= y
      OBVIOUS
    <3>2. \A x \in 1..i : (\A y \in 1..i : x >= y) => x = i
      BY <2>2, <3>1
    <3> QED
      BY <2>2, <3>1, <3>2 DEF Max
  <2>4. g[1..i] = FoldOp(job, g[1..(i - 1)], q[i])
    BY <2>1, <2>2, <2>3 DEF Iterate
  <2> QED
    BY <2>1, <2>4
<1>3. f[n] = g[1..n]
  OBVIOUS
<1> HIDE DEF f
<1> QED
  BY <1>1, <1>2, <1>3 DEF Runs

(* What each fold runs through. *)
LEMMA ArgsRun ==
  ASSUME NEW d, NEW k, NEW dim, IsList(GenerateValues(dim[2]))
  PROVE  \E f : Runs(<<"args", dim[1], GenerateValues(dim[2]), k, d.cur>>, [d EXCEPT !.err = FALSE], [i \in 1..Len(GenerateValues(dim[2])) |-> i], Len(GenerateValues(dim[2])), f) /\ f[Len(GenerateValues(dim[2]))] = ExpandDim(d, k, dim)
<1> DEFINE job == <<"args", dim[1], GenerateValues(dim[2]), k, d.cur>>
           base == [d EXCEPT !.err = FALSE]
           q == [i \in 1..Len(GenerateValues(dim[2])) |-> i]
           n == Len(GenerateValues(dim[2]))
           Op(acc, i) == 
             IF acc.err THEN acc
             ELSE IF i = 1 THEN SetHdlKarg(acc, dim[1], GenerateValues(dim[2])[1])
             ELSE SetHdlKarg(CopyHdlFrom(AddHandle(acc, k), d.cur), dim[1],
                             GenerateValues(dim[2])[i])
           iter == CHOOSE g : g = [s \in SUBSET (DOMAIN q) |->
                     IF s = {} THEN base ELSE Op(g[s \ {Max(s)}], q[Max(s)])]
<1>1. ExpandDim(d, k, dim) = iter[DOMAIN q]
  BY DEF ExpandDim, Expand, FoldLeft, MapThenFoldSet
<1>2. n \in Nat /\ DOMAIN q = 1..n
  BY ListFacts
<1>3. \A acc, x : FoldOp(job, acc, x) = Op(acc, x)
  BY DEF FoldOp
<1> HIDE DEF job, base, q, n, Op
<1>4. \A g : [s \in SUBSET (DOMAIN q) |->
                 IF s = {} THEN base ELSE Op(g[s \ {Max(s)}], q[Max(s)])]
             = [s \in SUBSET (1..n) |->
                 IF s = {} THEN base ELSE FoldOp(job, g[s \ {Max(s)}], q[Max(s)])]
  BY <1>2, <1>3
<1>5. PICK g : Iterate(job, base, q, n, g)
  BY <1>2, IterateExists
<1>6. \E h : h = [s \in SUBSET (DOMAIN q) |->
                    IF s = {} THEN base ELSE Op(h[s \ {Max(s)}], q[Max(s)])]
  <2>1. g = [s \in SUBSET (1..n) |->
               IF s = {} THEN base ELSE FoldOp(job, g[s \ {Max(s)}], q[Max(s)])]
    BY <1>5 DEF Iterate
  <2>2. g = [s \in SUBSET (DOMAIN q) |->
               IF s = {} THEN base ELSE Op(g[s \ {Max(s)}], q[Max(s)])]
    BY <2>1, <1>4
  <2> QED
    BY <2>2
<1>7. iter = [s \in SUBSET (DOMAIN q) |->
                IF s = {} THEN base ELSE Op(iter[s \ {Max(s)}], q[Max(s)])]
  BY <1>6
<1> HIDE DEF iter
<1>8. Iterate(job, base, q, n, iter)
  BY <1>4, <1>7 DEF Iterate
<1>9. \E f : Runs(job, base, q, n, f) /\ f[n] = iter[1..n]
  BY <1>2, <1>8, IterateRuns
<1> QED
  BY <1>1, <1>2, <1>9 DEF job, base, q, n

LEMMA EnvsRun ==
  ASSUME NEW d, NEW k, NEW dim, IsList(GenerateValues(dim[2]))
  PROVE  \E f : Runs(<<"envs", dim[1], GenerateValues(dim[2]), k, d.cur>>, [d EXCEPT !.err = FALSE], [i \in 1..Len(GenerateValues(dim[2])) |-> i], Len(GenerateValues(dim[2])), f) /\ f[Len(GenerateValues(dim[2]))] = ExpandEnvDim(d, k, dim)
<1> DEFINE job == <<"envs", dim[1], GenerateValues(dim[2]), k, d.cur>>
           base == [d EXCEPT !.err = FALSE]
           q == [i \in 1..Len(GenerateValues(dim[2])) |-> i]
           n == Len(GenerateValues(dim[2]))
           Op(acc, i) == 
             IF acc.err THEN acc
             ELSE IF i = 1 THEN SetHdlEnv(acc, dim[1], GenerateValues(dim[2])[1])
             ELSE SetHdlEnv(CopyHdlFrom(AddHandle(acc, k), d.cur), dim[1],
                            GenerateValues(dim[2])[i])
           iter == CHOOSE g : g = [s \in SUBSET (DOMAIN q) |->
                     IF s = {} THEN base ELSE Op(g[s \ {Max(s)}], q[Max(s)])]
<1>1. ExpandEnvDim(d, k, dim) = iter[DOMAIN q]
  BY DEF ExpandEnvDim, Expand, FoldLeft, MapThenFoldSet
<1>2. n \in Nat /\ DOMAIN q = 1..n
  BY ListFacts
<1>3. \A acc, x : FoldOp(job, acc, x) = Op(acc, x)
  BY DEF FoldOp
<1> HIDE DEF job, base, q, n, Op
<1>4. \A g : [s \in SUBSET (DOMAIN q) |->
                 IF s = {} THEN base ELSE Op(g[s \ {Max(s)}], q[Max(s)])]
             = [s \in SUBSET (1..n) |->
                 IF s = {} THEN base ELSE FoldOp(job, g[s \ {Max(s)}], q[Max(s)])]
  BY <1>2, <1>3
<1>5. PICK g : Iterate(job, base, q, n, g)
  BY <1>2, IterateExists
<1>6. \E h : h = [s \in SUBSET (DOMAIN q) |->
                    IF s = {} THEN base ELSE Op(h[s \ {Max(s)}], q[Max(s)])]
  <2>1. g = [s \in SUBSET (1..n) |->
               IF s = {} THEN base ELSE FoldOp(job, g[s \ {Max(s)}], q[Max(s)])]
    BY <1>5 DEF Iterate
  <2>2. g = [s \in SUBSET (DOMAIN q) |->
               IF s = {} THEN base ELSE Op(g[s \ {Max(s)}], q[Max(s)])]
    BY <2>1, <1>4
  <2> QED
    BY <2>2
<1>7. iter = [s \in SUBSET (DOMAIN q) |->
                IF s = {} THEN base ELSE Op(iter[s \ {Max(s)}], q[Max(s)])]
  BY <1>6
<1> HIDE DEF iter
<1>8. Iterate(job, base, q, n, iter)
  BY <1>4, <1>7 DEF Iterate
<1>9. \E f : Runs(job, base, q, n, f) /\ f[n] = iter[1..n]
  BY <1>2, <1>8, IterateRuns
<1> QED
  BY <1>1, <1>2, <1>9 DEF job, base, q, n

LEMMA CombinationRuns ==
  ASSUME NEW ds, IsList(ds), NEW c, NEW d
  PROVE  \E f : Runs(<<"combination", ds, c>>, d, [j \in 1..Len(ds) |-> Len(ds) + 1 - j], Len(ds), f) /\ f[Len(ds)] = Combination(ds, c, d)
<1> DEFINE job == <<"combination", ds, c>>
           base == d
           q == [j \in 1..Len(ds) |-> Len(ds) + 1 - j]
           n == Len(ds)
           Op(acc, j) == SetHdlKarg(acc, ds[j][1], CombinationValue(ds, c, j))
           iter == CHOOSE g : g = [s \in SUBSET (DOMAIN q) |->
                     IF s = {} THEN base ELSE Op(g[s \ {Max(s)}], q[Max(s)])]
<1>1. Combination(ds, c, d) = iter[DOMAIN q]
  BY DEF Combination, CombinationValue, FoldLeft, MapThenFoldSet
<1>2. n \in Nat /\ DOMAIN q = 1..n
  BY ListFacts
<1>3. \A acc, x : FoldOp(job, acc, x) = Op(acc, x)
  BY DEF FoldOp
<1> HIDE DEF job, base, q, n, Op
<1>4. \A g : [s \in SUBSET (DOMAIN q) |->
                 IF s = {} THEN base ELSE Op(g[s \ {Max(s)}], q[Max(s)])]
             = [s \in SUBSET (1..n) |->
                 IF s = {} THEN base ELSE FoldOp(job, g[s \ {Max(s)}], q[Max(s)])]
  BY <1>2, <1>3
<1>5. PICK g : Iterate(job, base, q, n, g)
  BY <1>2, IterateExists
<1>6. \E h : h = [s \in SUBSET (DOMAIN q) |->
                    IF s = {} THEN base ELSE Op(h[s \ {Max(s)}], q[Max(s)])]
  <2>1. g = [s \in SUBSET (1..n) |->
               IF s = {} THEN base ELSE FoldOp(job, g[s \ {Max(s)}], q[Max(s)])]
    BY <1>5 DEF Iterate
  <2>2. g = [s \in SUBSET (DOMAIN q) |->
               IF s = {} THEN base ELSE Op(g[s \ {Max(s)}], q[Max(s)])]
    BY <2>1, <1>4
  <2> QED
    BY <2>2
<1>7. iter = [s \in SUBSET (DOMAIN q) |->
                IF s = {} THEN base ELSE Op(iter[s \ {Max(s)}], q[Max(s)])]
  BY <1>6
<1> HIDE DEF iter
<1>8. Iterate(job, base, q, n, iter)
  BY <1>4, <1>7 DEF Iterate
<1>9. \E f : Runs(job, base, q, n, f) /\ f[n] = iter[1..n]
  BY <1>2, <1>8, IterateRuns
<1> QED
  BY <1>1, <1>2, <1>9 DEF job, base, q, n

(* The number of combinations. *)
Total(ds) == FoldLeft(LAMBDA t, dim : t * Len(GenerateValues(dim[2])), 1, ds)

LEMMA SizeRuns ==
  ASSUME NEW ds, IsList(ds)
  PROVE  \E f : Runs(<<"size">>, 1, ds, Len(ds), f) /\ f[Len(ds)] = Total(ds)
<1> DEFINE job == <<"size">>
           base == 1
           q == ds
           n == Len(ds)
           Op(acc, dim) == acc * Len(GenerateValues(dim[2]))
           iter == CHOOSE g : g = [s \in SUBSET (DOMAIN q) |->
                     IF s = {} THEN base ELSE Op(g[s \ {Max(s)}], q[Max(s)])]
<1>1. Total(ds) = iter[DOMAIN q]
  BY DEF Total, FoldLeft, MapThenFoldSet
<1>2. n \in Nat /\ DOMAIN q = 1..n
  BY ListFacts
<1>3. \A acc, x : FoldOp(job, acc, x) = Op(acc, x)
  BY DEF FoldOp
<1> HIDE DEF job, base, q, n, Op
<1>4. \A g : [s \in SUBSET (DOMAIN q) |->
                 IF s = {} THEN base ELSE Op(g[s \ {Max(s)}], q[Max(s)])]
             = [s \in SUBSET (1..n) |->
                 IF s = {} THEN base ELSE FoldOp(job, g[s \ {Max(s)}], q[Max(s)])]
  BY <1>2, <1>3
<1>5. PICK g : Iterate(job, base, q, n, g)
  BY <1>2, IterateExists
<1>6. \E h : h = [s \in SUBSET (DOMAIN q) |->
                    IF s = {} THEN base ELSE Op(h[s \ {Max(s)}], q[Max(s)])]
  <2>1. g = [s \in SUBSET (1..n) |->
               IF s = {} THEN base ELSE FoldOp(job, g[s \ {Max(s)}], q[Max(s)])]
    BY <1>5 DEF Iterate
  <2>2. g = [s \in SUBSET (DOMAIN q) |->
               IF s = {} THEN base ELSE Op(g[s \ {Max(s)}], q[Max(s)])]
    BY <2>1, <1>4
  <2> QED
    BY <2>2
<1>7. iter = [s \in SUBSET (DOMAIN q) |->
                IF s = {} THEN base ELSE Op(iter[s \ {Max(s)}], q[Max(s)])]
  BY <1>6
<1> HIDE DEF iter
<1>8. Iterate(job, base, q, n, iter)
  BY <1>4, <1>7 DEF Iterate
<1>9. \E f : Runs(job, base, q, n, f) /\ f[n] = iter[1..n]
  BY <1>2, <1>8, IterateRuns
<1> QED
  BY <1>1, <1>2, <1>9 DEF job, base, q, n

LEMMA ProductRuns ==
  ASSUME NEW d, NEW k, NEW ds, Total(ds) \in Nat
  PROVE  \E f : Runs(<<"product", ds, k, d.cur>>, d, [c \in 1..Total(ds) |-> c - 1], Total(ds), f) /\ f[Total(ds)] = ExpandCartesian(d, k, ds)
<1> DEFINE job == <<"product", ds, k, d.cur>>
           base == d
           q == [c \in 1..Total(ds) |-> c - 1]
           n == Total(ds)
           Op(acc, c) == 
             IF c = 0 THEN Combination(ds, 0, acc)
             ELSE Combination(ds, c, CopyHdlFrom(AddHandle(acc, k), d.cur))
           iter == CHOOSE g : g = [s \in SUBSET (DOMAIN q) |->
                     IF s = {} THEN base ELSE Op(g[s \ {Max(s)}], q[Max(s)])]
<1>1. ExpandCartesian(d, k, ds) = iter[DOMAIN q]
  BY DEF ExpandCartesian, Total, FoldLeft, MapThenFoldSet
<1>2. n \in Nat /\ DOMAIN q = 1..n
  OBVIOUS
<1>3. \A acc, x : FoldOp(job, acc, x) = Op(acc, x)
  BY DEF FoldOp
<1> HIDE DEF job, base, q, n, Op
<1>4. \A g : [s \in SUBSET (DOMAIN q) |->
                 IF s = {} THEN base ELSE Op(g[s \ {Max(s)}], q[Max(s)])]
             = [s \in SUBSET (1..n) |->
                 IF s = {} THEN base ELSE FoldOp(job, g[s \ {Max(s)}], q[Max(s)])]
  BY <1>2, <1>3
<1>5. PICK g : Iterate(job, base, q, n, g)
  BY <1>2, IterateExists
<1>6. \E h : h = [s \in SUBSET (DOMAIN q) |->
                    IF s = {} THEN base ELSE Op(h[s \ {Max(s)}], q[Max(s)])]
  <2>1. g = [s \in SUBSET (1..n) |->
               IF s = {} THEN base ELSE FoldOp(job, g[s \ {Max(s)}], q[Max(s)])]
    BY <1>5 DEF Iterate
  <2>2. g = [s \in SUBSET (DOMAIN q) |->
               IF s = {} THEN base ELSE Op(g[s \ {Max(s)}], q[Max(s)])]
    BY <2>1, <1>4
  <2> QED
    BY <2>2
<1>7. iter = [s \in SUBSET (DOMAIN q) |->
                IF s = {} THEN base ELSE Op(iter[s \ {Max(s)}], q[Max(s)])]
  BY <1>6
<1> HIDE DEF iter
<1>8. Iterate(job, base, q, n, iter)
  BY <1>4, <1>7 DEF Iterate
<1>9. \E f : Runs(job, base, q, n, f) /\ f[n] = iter[1..n]
  BY <1>2, <1>8, IterateRuns
<1> QED
  BY <1>1, <1>2, <1>9 DEF job, base, q, n

-----------------------------------------------------------------------------
(* The expansion.                                                           *)

DimOK(dim) == dim \in Sweeps \cup EnvSweeps /\ ParseDim(dim[2])

(* The values of a dimension form a list: a recurrence has a first place at *)
(* which it leaves its range or reaches its limit.                          *)
LEMMA ValuesFormList ==
  ASSUME NEW dim, DimOK(dim)
  PROVE  IsList(GenerateValues(dim[2]))
<1> DEFINE cfg == dim[2]
<1>1. CASE cfg.type = "list"
  <2>1. GenerateValues(cfg) = cfg.vals /\ cfg.vals \in Seq(Int)
    BY <1>1, RunAssumption DEF GenerateValues, DimOK
  <2> QED
    BY <2>1 DEF IsList
<1>2. CASE cfg.type # "list"
  <2> DEFINE cap == IF cfg.nlim > 0 THEN cfg.nlim ELSE MaxValues
             v == CHOOSE v : v = [n \in 1..cap |-> IF n = 1 THEN cfg.st ELSE Next1(cfg, v[n - 1])]
             in(n) == cfg.min <= v[n] /\ v[n] <= cfg.max
             len == CHOOSE n \in 0..cap : /\ \A i \in 1..n : in(i)
                                          /\ n < cap => ~in(n + 1)
  <2>1. GenerateValues(cfg) = [i \in 1..len |-> v[i]]
    BY <1>2 DEF GenerateValues
  <2>2. cap \in Nat
    BY <1>2, RunAssumption DEF DimOK, ParseDim
  <2> HIDE DEF cap, v, in
  <2>3. \E n \in 0..cap : (\A i \in 1..n : in(i)) /\ (n < cap => ~in(n + 1))
    <3> DEFINE ends == {n \in 0..cap : n = cap \/ ~in(n + 1)}
    <3>1. ends \subseteq Nat /\ cap \in ends
      BY <2>2
    <3>2. PICK n \in ends : \A m \in ends : n <= m
      BY <3>1, LeastOf
    <3>3. ASSUME NEW i \in 1..n PROVE in(i)
      <4>1. i - 1 \in 0..cap /\ ~(n <= i - 1) /\ (i - 1) + 1 = i
        BY <2>2, <3>2
      <4> QED
        BY <4>1, <3>2
    <3> QED
      BY <2>2, <3>2, <3>3
  <2>4. len \in 0..cap
    BY <2>3
  <2> HIDE DEF len
  <2>5. [i \in 1..len |-> v[i]] \in Seq({v[i] : i \in 1..len})
    BY <2>2, <2>4
  <2> QED
    BY <2>1, <2>5 DEF IsList
<1> QED
  BY <1>1, <1>2

LEMMA TotalIsNat ==
  ASSUME NEW ds, IsList(ds), \A i \in DOMAIN ds : DimOK(ds[i])
  PROVE  Total(ds) \in Nat
<1>1. Len(ds) \in Nat /\ DOMAIN ds = 1..Len(ds)
  BY ListFacts
<1>2. PICK f : Runs(<<"size">>, 1, ds, Len(ds), f) /\ f[Len(ds)] = Total(ds)
  BY SizeRuns
<1> DEFINE T == {i \in 0..Len(ds) : f[i] \in Nat}
<1>3. 0 \in T
  BY <1>1, <1>2 DEF Runs
<1>4. ASSUME NEW i \in 1..Len(ds), i - 1 \in T PROVE i \in T
  <2>1. f[i] = f[i - 1] * Len(GenerateValues(ds[i][2]))
    BY <1>2 DEF Runs, FoldOp
  <2>2. DimOK(ds[i])
    BY <1>1
  <2>3. IsList(GenerateValues(ds[i][2]))
    BY <2>2, ValuesFormList
  <2>4. Len(GenerateValues(ds[i][2])) \in Nat /\ f[i - 1] \in Nat
    BY <1>4, <2>3, ListFacts
  <2>5. \A a, b \in Nat : a * b \in Nat
    OBVIOUS
  <2> QED
    BY <1>1, <2>1, <2>4, <2>5
<1> HIDE DEF T
<1>5. Len(ds) \in T
  BY <1>1, <1>3, <1>4, UpTo
<1> QED
  BY <1>2, <1>5 DEF T

(* One dimension: the current handle and its copies. *)
LEMMA ExpandDimGrows ==
  ASSUME NEW d, DrvOK(d), d.hdl # <<>>, NEW k, NEW dim, DimOK(dim)
  PROVE  Grown(d, Len(d.hdl), ExpandDim(d, k, dim))
<1> DEFINE c == Len(d.hdl)
           vals == GenerateValues(dim[2])
           n == Len(vals)
           q == [i \in 1..n |-> i]
           job == <<"args", dim[1], vals, k, d.cur>>
<1>1. c \in Nat \ {0} /\ d.cur = c
  BY ListFacts DEF DrvOK
<1>2. IsList(vals) /\ n \in Nat
  BY ValuesFormList, ListFacts
<1>3. PICK f : Runs(job, [d EXCEPT !.err = FALSE], q, n, f) /\ f[n] = ExpandDim(d, k, dim)
  BY <1>2, ArgsRun
<1> DEFINE T == {i \in 0..n : Grown(d, c, f[i])}
<1>4. 0 \in T
  <2>1. f[0] = [d EXCEPT !.err = FALSE]
    BY <1>3 DEF Runs
  <2>2. Grown(d, c, f[0])
    BY <1>1, <2>1 DEF Grown, DrvOK, DrvFields
  <2> QED
    BY <1>2, <2>2
<1>5. ASSUME NEW i \in 1..n, i - 1 \in T PROVE i \in T
  <2> DEFINE a == f[i - 1]
             b == CopyHdlFrom(AddHandle(a, k), c)
  <2>1. \/ f[i] = a
        \/ f[i] = SetHdlKarg(a, dim[1], vals[1])
        \/ f[i] = SetHdlKarg(b, dim[1], vals[i])
    BY <1>1, <1>3 DEF Runs, FoldOp
  <2>2. Grown(d, c, a) /\ Grown(d, c, b)
    BY <1>1, <1>5, CopyGrows
  <2> HIDE DEF a, b, c
  <2>3. Touched(a, SetHdlKarg(a, dim[1], vals[1])) /\ Touched(b, SetHdlKarg(b, dim[1], vals[i]))
    BY <2>2, KargTouches DEF Grown
  <2>4. Grown(d, c, f[i])
    BY <1>1, <2>1, <2>2, <2>3, TouchGrows
  <2> QED
    BY <1>2, <2>4
<1> HIDE DEF T
<1>6. n \in T
  BY <1>2, <1>4, <1>5, UpTo
<1> QED
  BY <1>3, <1>6 DEF T

LEMMA ExpandEnvDimGrows ==
  ASSUME NEW d, DrvOK(d), d.hdl # <<>>, NEW k, NEW dim, DimOK(dim)
  PROVE  Grown(d, Len(d.hdl), ExpandEnvDim(d, k, dim))
<1> DEFINE c == Len(d.hdl)
           vals == GenerateValues(dim[2])
           n == Len(vals)
           q == [i \in 1..n |-> i]
           job == <<"envs", dim[1], vals, k, d.cur>>
<1>1. c \in Nat \ {0} /\ d.cur = c
  BY ListFacts DEF DrvOK
<1>2. IsList(vals) /\ n \in Nat
  BY ValuesFormList, ListFacts
<1>3. PICK f : Runs(job, [d EXCEPT !.err = FALSE], q, n, f) /\ f[n] = ExpandEnvDim(d, k, dim)
  BY <1>2, EnvsRun
<1> DEFINE T == {i \in 0..n : Grown(d, c, f[i])}
<1>4. 0 \in T
  <2>1. f[0] = [d EXCEPT !.err = FALSE]
    BY <1>3 DEF Runs
  <2>2. Grown(d, c, f[0])
    BY <1>1, <2>1 DEF Grown, DrvOK, DrvFields
  <2> QED
    BY <1>2, <2>2
<1>5. ASSUME NEW i \in 1..n, i - 1 \in T PROVE i \in T
  <2> DEFINE a == f[i - 1]
             b == CopyHdlFrom(AddHandle(a, k), c)
  <2>1. \/ f[i] = a
        \/ f[i] = SetHdlEnv(a, dim[1], vals[1])
        \/ f[i] = SetHdlEnv(b, dim[1], vals[i])
    BY <1>1, <1>3 DEF Runs, FoldOp
  <2>2. Grown(d, c, a) /\ Grown(d, c, b)
    BY <1>1, <1>5, CopyGrows
  <2> HIDE DEF a, b, c
  <2>3. Touched(a, SetHdlEnv(a, dim[1], vals[1])) /\ Touched(b, SetHdlEnv(b, dim[1], vals[i]))
    BY <2>2, EnvTouches DEF Grown
  <2>4. Grown(d, c, f[i])
    BY <1>1, <2>1, <2>2, <2>3, TouchGrows
  <2> QED
    BY <1>2, <2>4
<1> HIDE DEF T
<1>6. n \in T
  BY <1>2, <1>4, <1>5, UpTo
<1> QED
  BY <1>3, <1>6 DEF T

(* A combination sets values of the last handle only. *)
LEMMA CombinationGrows ==
  ASSUME NEW d, NEW c \in Nat \ {0}, NEW acc, Grown(d, c, acc), NEW ds, IsList(ds), NEW x
  PROVE  Grown(d, c, Combination(ds, x, acc))
<1> DEFINE n == Len(ds)
           q == [j \in 1..n |-> n + 1 - j]
           job == <<"combination", ds, x>>
<1>1. n \in Nat
  BY ListFacts
<1>2. PICK f : Runs(job, acc, q, n, f) /\ f[n] = Combination(ds, x, acc)
  BY CombinationRuns
<1> DEFINE T == {i \in 0..n : Grown(d, c, f[i])}
<1>3. 0 \in T
  BY <1>1, <1>2 DEF Runs
<1>4. ASSUME NEW i \in 1..n, i - 1 \in T PROVE i \in T
  <2> DEFINE a == f[i - 1]
             j == q[i]
  <2>1. f[i] = SetHdlKarg(a, ds[j][1], CombinationValue(ds, x, j))
    BY <1>2 DEF Runs, FoldOp
  <2>2. Grown(d, c, a)
    BY <1>4
  <2> HIDE DEF a, j
  <2>3. Touched(a, f[i])
    BY <2>1, <2>2, KargTouches DEF Grown
  <2>4. Grown(d, c, f[i])
    BY <2>2, <2>3, TouchGrows
  <2> QED
    BY <1>1, <2>4
<1> HIDE DEF T
<1>5. n \in T
  BY <1>1, <1>3, <1>4, UpTo
<1> QED
  BY <1>2, <1>5 DEF T

(* Several dimensions: the current handle and a copy for each further *)
(* combination.                                                        *)
LEMMA CartesianGrows ==
  ASSUME NEW d, DrvOK(d), d.hdl # <<>>, NEW k, NEW ds, IsList(ds),
         \A i \in DOMAIN ds : DimOK(ds[i])
  PROVE  Grown(d, Len(d.hdl), ExpandCartesian(d, k, ds))
<1> DEFINE c == Len(d.hdl)
           n == Total(ds)
           q == [i \in 1..n |-> i - 1]
           job == <<"product", ds, k, d.cur>>
<1>1. c \in Nat \ {0} /\ d.cur = c
  BY ListFacts DEF DrvOK
<1>2. n \in Nat
  BY TotalIsNat
<1>3. PICK f : Runs(job, d, q, n, f) /\ f[n] = ExpandCartesian(d, k, ds)
  BY <1>2, ProductRuns
<1> DEFINE T == {i \in 0..n : Grown(d, c, f[i])}
<1>4. 0 \in T
  <2>1. f[0] = d
    BY <1>3 DEF Runs
  <2>2. Grown(d, c, f[0])
    BY <1>1, <2>1 DEF Grown
  <2> QED
    BY <1>2, <2>2
<1>5. ASSUME NEW i \in 1..n, i - 1 \in T PROVE i \in T
  <2> DEFINE a == f[i - 1]
             b == CopyHdlFrom(AddHandle(a, k), c)
             x == q[i]
  <2>1. f[i] = Combination(ds, 0, a) \/ f[i] = Combination(ds, x, b)
    BY <1>1, <1>3 DEF Runs, FoldOp
  <2>2. Grown(d, c, a) /\ Grown(d, c, b)
    BY <1>1, <1>5, CopyGrows
  <2> HIDE DEF a, b, c, x
  <2>3. Grown(d, c, f[i])
    BY <1>1, <2>1, <2>2, CombinationGrows
  <2> QED
    BY <1>2, <2>3
<1> HIDE DEF T
<1>6. n \in T
  BY <1>2, <1>4, <1>5, UpTo
<1> QED
  BY <1>3, <1>6 DEF T

LEMMA FlushGrows ==
  ASSUME NEW d, DrvOK(d), d.hdl # <<>>, NEW ds, IsList(ds), \A i \in DOMAIN ds : DimOK(ds[i])
  PROVE  Grown(d, Len(d.hdl), FlushPendingDims(d, ds))
<1> DEFINE k == d.hdl[d.cur].kernel
<1>1. Len(d.hdl) \in Nat \ {0} /\ Len(ds) \in Nat /\ DOMAIN ds = 1..Len(ds)
  BY ListFacts DEF DrvOK
<1>2. CASE Len(ds) = 0
  <2>1. FlushPendingDims(d, ds) = d
    BY <1>2 DEF FlushPendingDims
  <2> QED
    BY <1>1, <2>1 DEF Grown
<1>3. CASE Len(ds) = 1
  <2>1. FlushPendingDims(d, ds) = ExpandDim(d, k, ds[1]) /\ DimOK(ds[1])
    BY <1>1, <1>3 DEF FlushPendingDims
  <2> QED
    BY <2>1, ExpandDimGrows
<1>4. CASE Len(ds) # 0 /\ Len(ds) # 1
  <2>1. FlushPendingDims(d, ds) = ExpandCartesian(d, k, ds)
    BY <1>4 DEF FlushPendingDims
  <2> QED
    BY <2>1, CartesianGrows
<1> QED
  BY <1>2, <1>3, <1>4

(* Binding changes the wrappers of the last handle only. *)
LEMMA BindFacts ==
  ASSUME NEW d, DrvOK(d), d.hdl # <<>>
  PROVE  LET e == BindWrappers(d)
         IN  /\ DrvOK(e) /\ Len(e.hdl) = Len(d.hdl) /\ e.hdl[Len(d.hdl)].wraps = Chain
             /\ \A i \in 1..(Len(d.hdl) - 1) : e.hdl[i] = d.hdl[i]
<1> DEFINE e == BindWrappers(d)
           n == Len(d.hdl)
           h == [d.hdl[n] EXCEPT !.wraps = Chain]
<1>1. n \in Nat \ {0} /\ DOMAIN d.hdl = 1..n /\ d.cur = n
  BY ListFacts DEF DrvOK
<1>2. DOMAIN h = HdlFields /\ h.wraps = Chain
  BY <1>1 DEF DrvOK, HdlFields
<1>3. DOMAIN e = DrvFields /\ e.cur = d.cur /\ e.hdl = [d.hdl EXCEPT ![d.cur] = h]
  BY <1>1 DEF BindWrappers, SetHdlWrappers, DrvOK, DrvFields
<1> HIDE DEF h, e
<1>4. /\ DrvOK(e) /\ Len(e.hdl) = n
      /\ \A i \in 1..n : e.hdl[i] = IF i = n THEN h ELSE d.hdl[i]
  BY <1>2, <1>3, LastReplaced
<1> QED
  BY <1>1, <1>2, <1>4 DEF e

-----------------------------------------------------------------------------
(* The invariant.                                                           *)

SegFields == {"kernel", "first", "args", "dims", "envs", "swept", "og", "links"}

(* What the wrappers of segment s come to. *)
ChainOf(s) == (IF asked[s].og THEN <<>> ELSE global) \o asked[s].links

Shape ==
  /\ DrvOK(drv) /\ IsList(asked) /\ IsList(dims)
  /\ \A i \in DOMAIN asked : DOMAIN asked[i] = SegFields
  /\ \A i \in DOMAIN dims : DimOK(dims[i])

OnStack == \E i \in DOMAIN stack : stack[i] = "--kernel"

(* Until the first --kernel there is no handle and no dimension, and the    *)
(* options that belong to a kernel are out of the parser's reach.           *)
Start ==
  /\ stack \in Seq(DOMAIN Tree)
  /\ asked = <<>> => drv.hdl = <<>> /\ dims = <<>> /\ ~OnStack /\ pc # "launch"

(* The segments begin one behind the other. *)
Rising ==
  /\ \A i \in DOMAIN asked : asked[i].first \in 1..Len(drv.hdl)
  /\ \A i, j \in DOMAIN asked : i < j => asked[i].first < asked[j].first

(* The open segment: its chain is what the parser holds, and it has one     *)
(* handle unless it swept an environment variable.                          *)
OpenSegment ==
  pc # "launch" /\ asked # <<>> =>
    /\ segment = Cur.links /\ og = Cur.og
    /\ ~Cur.swept => Len(drv.hdl) = Cur.first

(* The closed segments have their wrappers. *)
ClosedSegments ==
  \A i \in DOMAIN asked : i < Len(asked) =>
    \A n \in asked[i].first..(asked[i + 1].first - 1) :
      n = asked[i + 1].first - 1 \/ ~asked[i].swept => drv.hdl[n].wraps = ChainOf(i)

LastSegment ==
  pc = "launch" => drv.hdl[Len(drv.hdl)].wraps = ChainOf(Len(asked))

RunInv == Shape /\ Start /\ Rising /\ OpenSegment /\ ClosedSegments /\ LastSegment

LEMMA InvLists ==
  ASSUME RunInv
  PROVE  /\ Len(asked) \in Nat /\ DOMAIN asked = 1..Len(asked)
         /\ Len(drv.hdl) \in Nat /\ DOMAIN drv.hdl = 1..Len(drv.hdl) /\ drv.cur = Len(drv.hdl)
         /\ asked # <<>> => /\ Len(asked) \in DOMAIN asked
                            /\ Cur.first \in 1..Len(drv.hdl) /\ drv.hdl # <<>>
<1>1. IsList(asked) /\ IsList(drv.hdl) /\ drv.cur = Len(drv.hdl)
  BY DEF RunInv, Shape, DrvOK
<1>2. /\ Len(asked) \in Nat /\ DOMAIN asked = 1..Len(asked) /\ (asked = <<>> <=> Len(asked) = 0)
      /\ Len(drv.hdl) \in Nat /\ DOMAIN drv.hdl = 1..Len(drv.hdl)
      /\ (drv.hdl = <<>> <=> Len(drv.hdl) = 0)
  BY <1>1, ListFacts
<1> QED
  BY <1>1, <1>2 DEF RunInv, Rising, Cur

(* A token the parser takes: the options of a kernel need one. *)
LEMMA EnterFacts ==
  ASSUME RunInv, NEW tok, Enter(tok)
  PROVE  /\ pc = "parse" /\ stack' \in Seq(DOMAIN Tree)
         /\ tok # "--kernel" /\ OnStack' => asked # <<>>
         /\ tok \in {"--kargs", "--kargs-dim", "--kenvs", "--kenvs-dim", "-og"} => asked # <<>>
<1> DEFINE on == {i \in DOMAIN stack : tok \in Tree[stack[i]]}
           l == Level(tok)
           base == SubSeq(stack, 1, l)
           top == IF tok \in DOMAIN Tree THEN <<tok>> ELSE <<>>
<1>1. pc = "parse" /\ l > 0 /\ stack' = base \o top
  BY DEF Enter, Accepted
<1>2. stack \in Seq(DOMAIN Tree) /\ (OnStack => asked # <<>>)
  BY DEF RunInv, Start
<1>3. on # {} /\ on \subseteq Nat
  BY <1>1, <1>2 DEF Level
<1>4. Len(stack) \in Nat /\ DOMAIN stack = 1..Len(stack)
  BY <1>2
<1>5. l \in DOMAIN stack
  <2> DEFINE far == {Len(stack) - i : i \in on}
  <2>1. far \subseteq Nat /\ far # {}
    BY <1>3, <1>4
  <2>2. PICK m \in far : \A x \in far : m <= x
    BY <2>1, LeastOf
  <2>3. PICK i \in on : m = Len(stack) - i
    BY <2>2
  <2>4. ASSUME NEW j \in on PROVE j <= i
    <3>1. Len(stack) - j \in far /\ i \in Nat /\ j \in Nat
      BY <1>3
    <3>2. m <= Len(stack) - j
      BY <2>2, <3>1
    <3> QED
      BY <1>4, <2>3, <3>1, <3>2
  <2>5. \E i0 \in on : \A j \in on : j <= i0
    BY <2>4
  <2>6. l \in on
    BY <1>3, <2>5 DEF Level
  <2> QED
    BY <2>6
<1> HIDE DEF l
<1>6. base \in Seq(DOMAIN Tree) /\ Len(base) = l /\ \A i \in 1..l : base[i] = stack[i]
  BY <1>2, <1>4, <1>5
<1>7. top \in Seq(DOMAIN Tree) /\ (top = <<>> \/ top = <<tok>>)
  <2>1. CASE tok \in DOMAIN Tree
    BY <2>1
  <2>2. CASE tok \notin DOMAIN Tree
    BY <2>2
  <2> QED
    BY <2>1, <2>2
<1> HIDE DEF base, top
<1>8. stack' \in Seq(DOMAIN Tree)
  BY <1>1, <1>6, <1>7
<1>9. ASSUME tok # "--kernel", OnStack' PROVE asked # <<>>
  <2>1. PICK i \in DOMAIN stack' : stack'[i] = "--kernel"
    BY <1>9 DEF OnStack
  <2>2. CASE top = <<>>
    <3>1. i \in 1..l /\ stack'[i] = base[i]
      BY <1>1, <1>6, <2>1, <2>2
    <3> QED
      BY <1>2, <1>4, <1>5, <1>6, <2>1, <3>1 DEF OnStack
  <2>3. CASE top = <<tok>>
    <3>1. (i \in 1..l /\ stack'[i] = base[i]) \/ stack'[i] = tok
      BY <1>1, <1>6, <2>1, <2>3
    <3> QED
      BY <1>2, <1>4, <1>5, <1>6, <1>9, <2>1, <3>1 DEF OnStack
  <2> QED
    BY <1>7, <2>2, <2>3
<1>10. ASSUME tok \in {"--kargs", "--kargs-dim", "--kenvs", "--kenvs-dim", "-og"}
       PROVE  asked # <<>>
  <2>1. PICK i \in DOMAIN stack : tok \in Tree[stack[i]]
    BY <1>3
  <2>2. stack[i] \in DOMAIN Tree
    BY <1>2, <2>1
  <2>3. stack[i] = "--kernel"
    BY <1>10, <2>1, <2>2 DEF Tree
  <2> QED
    BY <1>2, <2>3 DEF OnStack
<1> QED
  BY <1>1, <1>8, <1>9, <1>10

-----------------------------------------------------------------------------
(* The steps.                                                               *)

(* A token that touches neither the segments nor the driver. *)
LEMMA IdleStep ==
  ASSUME RunInv, UNCHANGED <<drv, dims, segment, og, asked>>,
         asked # <<>> => global' = global, pc # "launch", pc' # "launch",
         stack' \in Seq(DOMAIN Tree), OnStack' => asked # <<>>
  PROVE  RunInv'
<1>1. Shape'
  BY DEF RunInv, Shape
<1>2. Start'
  BY DEF RunInv, Start
<1>3. Rising'
  BY DEF RunInv, Rising
<1>4. OpenSegment'
  BY DEF RunInv, OpenSegment, Cur
<1>5. ClosedSegments'
  <2>1. CASE asked = <<>>
    <3>1. DOMAIN asked = {}
      BY <2>1, InvLists
    <3> QED
      BY <3>1 DEF ClosedSegments
  <2>2. CASE asked # <<>>
    BY <2>2 DEF RunInv, ClosedSegments, ChainOf
  <2> QED
    BY <2>1, <2>2
<1> QED
  BY <1>1, <1>2, <1>3, <1>4, <1>5 DEF RunInv, LastSegment

(* The driver grows at its end. *)
Later(d, e) ==
  /\ DrvOK(e) /\ Len(d.hdl) <= Len(e.hdl)
  /\ \A i \in 1..(Len(d.hdl) - 1) : e.hdl[i] = d.hdl[i]

LEMMA LaterRefl ==
  ASSUME NEW d, DrvOK(d)
  PROVE  Later(d, d)
  BY ListFacts DEF Later, DrvOK

LEMMA TouchedLater ==
  ASSUME NEW d, DrvOK(d), NEW e, Touched(d, e)
  PROVE  Later(d, e)
<1>1. Len(d.hdl) \in Nat
  BY ListFacts DEF DrvOK
<1> QED
  BY <1>1 DEF Later, Touched

LEMMA GrownLater ==
  ASSUME NEW d, NEW e, Grown(d, Len(d.hdl), e)
  PROVE  Later(d, e)
  BY DEF Later, Grown

(* The handles of the segments before the last one stay. *)
LEMMA EarlierStay ==
  ASSUME RunInv, Later(drv, drv')
  PROVE  asked # <<>> => \A i \in 1..(Cur.first - 1) : drv'.hdl[i] = drv.hdl[i]
  BY InvLists DEF Later

(* An option of the open segment. *)
LEMMA OptionStep ==
  ASSUME RunInv, asked # <<>>, pc # "launch", pc' # "launch", Later(drv, drv'),
         IsList(asked'), Len(asked') = Len(asked),
         \A i \in DOMAIN asked : i # Len(asked) => asked'[i] = asked[i],
         DOMAIN asked'[Len(asked)] = SegFields,
         asked'[Len(asked)].first = Cur.first,
         segment' = asked'[Len(asked)].links, og' = asked'[Len(asked)].og,
         ~asked'[Len(asked)].swept => ~Cur.swept /\ Len(drv'.hdl) = Len(drv.hdl),
         UNCHANGED global, IsList(dims'), \A i \in DOMAIN dims' : DimOK(dims'[i]),
         stack' \in Seq(DOMAIN Tree)
  PROVE  RunInv'
<1> DEFINE l == Len(asked)
<1>1. /\ l \in Nat \ {0} /\ DOMAIN asked = 1..l /\ Cur.first \in 1..Len(drv.hdl)
      /\ Len(drv.hdl) \in Nat /\ Cur = asked[l]
  BY InvLists, ListFacts DEF RunInv, Shape, Cur
<1>2. DOMAIN asked' = 1..l /\ asked' # <<>> /\ Len(drv'.hdl) \in Nat
  BY <1>1, ListFacts DEF Later, DrvOK
<1>3. \A i \in 1..l : asked'[i].first = asked[i].first
  BY <1>1
<1>4. Shape'
  BY <1>1, <1>2 DEF RunInv, Shape, Later
<1>5. Start'
  BY <1>2 DEF Start
<1>6. Rising'
  <2>1. /\ \A i \in 1..l : asked[i].first \in 1..Len(drv.hdl)
        /\ \A i, j \in 1..l : i < j => asked[i].first < asked[j].first
    BY <1>1 DEF RunInv, Rising
  <2>2. 1..Len(drv.hdl) \subseteq 1..Len(drv'.hdl)
    BY <1>1, <1>2 DEF Later
  <2> QED
    BY <1>2, <1>3, <2>1, <2>2 DEF Rising
<1>7. OpenSegment'
  BY <1>1 DEF RunInv, OpenSegment, Cur
<1>8. ClosedSegments'
  <2>1. SUFFICES ASSUME NEW i \in 1..l, i < l,
                        NEW n \in asked[i].first..(asked[i + 1].first - 1),
                        n = asked[i + 1].first - 1 \/ ~asked[i].swept
                 PROVE  drv'.hdl[n].wraps = ChainOf(i)'
    <3>1. \A i \in 1..l : i < l => i + 1 \in 1..l /\ asked'[i] = asked[i]
      BY <1>1
    <3> QED
      BY <1>1, <1>2, <1>3, <3>1 DEF ClosedSegments
  <2>2. drv.hdl[n].wraps = ChainOf(i)
    BY <1>1, <2>1 DEF RunInv, ClosedSegments
  <2>3. i + 1 \in 1..l /\ (i + 1 = l \/ i + 1 < l)
    <3>1. l \in Nat /\ i \in 1..l /\ i < l
      BY <1>1, <2>1
    <3> HIDE DEF l
    <3> QED
      BY <3>1
  <2>4. asked[i + 1].first <= Cur.first /\ asked[i].first \in Nat \ {0} /\ asked[i + 1].first \in Nat
    BY <1>1, <2>3 DEF RunInv, Rising
  <2>5. n \in 1..(Len(drv.hdl) - 1)
    BY <1>1, <2>4
  <2>6. drv'.hdl[n] = drv.hdl[n]
    BY <2>5 DEF Later
  <2>7. asked'[i] = asked[i]
    BY <1>1, <2>1
  <2> QED
    BY <2>2, <2>6, <2>7 DEF ChainOf
<1> QED
  BY <1>4, <1>5, <1>6, <1>7, <1>8 DEF RunInv, LastSegment

(* A field of the open segment is set. *)
LEMMA AskedFacts ==
  ASSUME RunInv, asked # <<>>, NEW f \in SegFields, NEW v
  PROVE  LET r == Asked(f, v)
             l == Len(asked)
         IN  /\ IsList(r) /\ Len(r) = l
             /\ \A i \in DOMAIN asked : i # l => r[i] = asked[i]
             /\ DOMAIN r[l] = SegFields /\ r[l][f] = v
             /\ \A g \in SegFields : g # f => r[l][g] = asked[l][g]
<1> DEFINE l == Len(asked)
           h == [asked[l] EXCEPT ![f] = v]
           r == [asked EXCEPT ![l] = h]
<1>1. IsList(asked) /\ l \in DOMAIN asked /\ DOMAIN asked[l] = SegFields
  BY InvLists DEF RunInv, Shape
<1>2. DOMAIN h = SegFields /\ h[f] = v /\ \A g \in SegFields : g # f => h[g] = asked[l][g]
  BY <1>1
<1>3. Asked(f, v) = r
  BY DEF Asked
<1> HIDE DEF h
<1>4. /\ IsList(r) /\ Len(r) = l /\ DOMAIN r = DOMAIN asked
      /\ \A j \in DOMAIN asked : r[j] = IF j = l THEN h ELSE asked[j]
  BY <1>1, ListExcept
<1> HIDE DEF r
<1> QED
  BY <1>1, <1>2, <1>3, <1>4

LEMMA FieldStep ==
  ASSUME RunInv, asked # <<>>, pc = "parse", pc' # "launch",
         Later(drv, drv'), Len(drv'.hdl) = Len(drv.hdl),
         NEW f \in {"args", "dims", "envs", "og", "links"}, NEW v, asked' = Asked(f, v),
         segment' = IF f = "links" THEN v ELSE segment,
         og' = IF f = "og" THEN v ELSE og,
         UNCHANGED global, IsList(dims'), \A i \in DOMAIN dims' : DimOK(dims'[i]),
         stack' \in Seq(DOMAIN Tree)
  PROVE  RunInv'
<1> DEFINE l == Len(asked)
<1>1. /\ IsList(asked') /\ Len(asked') = l
      /\ \A i \in DOMAIN asked : i # l => asked'[i] = asked[i]
      /\ DOMAIN asked'[l] = SegFields /\ asked'[l][f] = v
      /\ \A g \in SegFields : g # f => asked'[l][g] = asked[l][g]
  <2>1. f \in SegFields
    BY DEF SegFields
  <2> QED
    BY <2>1, AskedFacts
<1>2. asked'[l].first = Cur.first /\ asked'[l].swept = Cur.swept
  BY <1>1 DEF SegFields, Cur
<1>3. segment = Cur.links /\ og = Cur.og
  BY DEF RunInv, OpenSegment
<1>4. segment' = asked'[l].links
  <2>1. CASE f = "links"
    BY <1>1, <2>1
  <2>2. CASE f # "links"
    BY <1>1, <1>3, <2>2 DEF SegFields, Cur
  <2> QED
    BY <2>1, <2>2
<1>5. og' = asked'[l].og
  <2>1. CASE f = "og"
    BY <1>1, <2>1
  <2>2. CASE f # "og"
    BY <1>1, <1>3, <2>2 DEF SegFields, Cur
  <2> QED
    BY <2>1, <2>2
<1> QED
  BY <1>1, <1>2, <1>4, <1>5, OptionStep

LEMMA DimsStay ==
  ASSUME RunInv, UNCHANGED dims
  PROVE  IsList(dims') /\ \A i \in DOMAIN dims' : DimOK(dims'[i])
  BY DEF RunInv, Shape

LEMMA DriverStays ==
  ASSUME RunInv, UNCHANGED drv
  PROVE  Later(drv, drv') /\ Len(drv'.hdl) = Len(drv.hdl)
  BY LaterRefl DEF RunInv, Shape

LEMMA KargsStep ==
  ASSUME RunInv, NEW a, ParseKargs(a)
  PROVE  RunInv' /\ Later(drv, drv')
<1> DEFINE w == Append(Cur.args, a)
<1>1. /\ pc = "parse" /\ asked # <<>> /\ stack' \in Seq(DOMAIN Tree)
      /\ drv' = SetHdlKarg(drv, a[1], a[2]) /\ pc' # "launch"
      /\ asked' = Asked("args", w) /\ UNCHANGED <<dims, global, segment, og>>
  BY EnterFacts DEF ParseKargs
<1>2. Touched(drv, drv') /\ DrvOK(drv)
  BY <1>1, KargTouches DEF RunInv, Shape
<1>3. Later(drv, drv') /\ Len(drv'.hdl) = Len(drv.hdl)
  BY <1>2, TouchedLater DEF Touched
<1> HIDE DEF w
<1> QED
  BY <1>1, <1>3, DimsStay, FieldStep

LEMMA KenvsStep ==
  ASSUME RunInv, NEW a, ParseKenvs(a)
  PROVE  RunInv' /\ Later(drv, drv')
<1> DEFINE w == Cur.envs \cup {a[1]}
<1>1. /\ pc = "parse" /\ asked # <<>> /\ stack' \in Seq(DOMAIN Tree)
      /\ drv' = SetHdlEnv(drv, a[1], a[2])
      /\ asked' = Asked("envs", w) /\ UNCHANGED <<dims, global, segment, og, pc>>
  BY EnterFacts DEF ParseKenvs
<1>2. Touched(drv, drv') /\ DrvOK(drv)
  BY <1>1, EnvTouches DEF RunInv, Shape
<1>3. Later(drv, drv') /\ Len(drv'.hdl) = Len(drv.hdl)
  BY <1>2, TouchedLater DEF Touched
<1> HIDE DEF w
<1> QED
  BY <1>1, <1>3, DimsStay, FieldStep

LEMMA KargsDimStep ==
  ASSUME RunInv, NEW dim \in Sweeps, ParseKargsDim(dim)
  PROVE  RunInv' /\ Later(drv, drv')
<1>1. /\ pc = "parse" /\ asked # <<>> /\ stack' \in Seq(DOMAIN Tree)
      /\ UNCHANGED <<drv, global, segment, og>>
  BY EnterFacts DEF ParseKargsDim
<1>2. Later(drv, drv') /\ Len(drv'.hdl) = Len(drv.hdl)
  BY <1>1, DriverStays
<1>3. CASE Len(dims) < MaxDims /\ ParseDim(dim[2])
  <2>1. dims' = Append(dims, dim) /\ pc' = "parse" /\ asked' = Asked("dims", dims')
    BY <1>3 DEF ParseKargsDim
  <2>2. IsList(dims) /\ (\A i \in DOMAIN dims : DimOK(dims[i])) /\ DimOK(dim)
    BY <1>3 DEF RunInv, Shape, DimOK
  <2>3. /\ IsList(dims') /\ DOMAIN dims' = 1..(Len(dims) + 1) /\ dims'[Len(dims) + 1] = dim
        /\ \A i \in 1..Len(dims) : dims'[i] = dims[i]
    BY <2>1, <2>2, ListAppend
  <2>4. Len(dims) \in Nat /\ DOMAIN dims = 1..Len(dims)
    BY <2>2, ListFacts
  <2>5. ASSUME NEW i \in DOMAIN dims' PROVE DimOK(dims'[i])
    BY <2>2, <2>3, <2>4
  <2> QED
    BY <1>1, <1>2, <2>1, <2>3, <2>5, FieldStep
<1>4. CASE ~(Len(dims) < MaxDims /\ ParseDim(dim[2]))
  <2>1. pc' = "failed" /\ UNCHANGED <<dims, asked>>
    BY <1>4 DEF ParseKargsDim
  <2> QED
    BY <1>1, <1>2, <2>1, IdleStep
<1> QED
  BY <1>3, <1>4

LEMMA OverrideStep ==
  ASSUME RunInv, ParseOverrideGlobal
  PROVE  RunInv' /\ Later(drv, drv')
<1>1. /\ pc = "parse" /\ asked # <<>> /\ stack' \in Seq(DOMAIN Tree)
      /\ og' = TRUE /\ asked' = Asked("og", TRUE) /\ UNCHANGED <<drv, dims, global, segment, pc>>
  BY EnterFacts DEF ParseOverrideGlobal
<1> QED
  BY <1>1, DriverStays, DimsStay, FieldStep

LEMMA WrapperStep ==
  ASSUME RunInv, NEW tok, tok # "--kernel", NEW g, NEW s, WrapperToken(tok, g, s), pc' # "launch"
  PROVE  RunInv' /\ Later(drv, drv')
<1>1. /\ pc = "parse" /\ stack' \in Seq(DOMAIN Tree) /\ (OnStack' => asked # <<>>)
      /\ UNCHANGED <<drv, dims, og>>
  BY EnterFacts DEF WrapperToken
<1>2. CASE asked = <<>>
  <2>1. UNCHANGED <<segment, asked>>
    BY <1>2 DEF WrapperToken
  <2> QED
    BY <1>1, <1>2, <2>1, DriverStays, IdleStep
<1>3. CASE asked # <<>>
  <2>1. segment' = s /\ asked' = Asked("links", s) /\ UNCHANGED global
    BY <1>3 DEF WrapperToken
  <2> QED
    BY <1>1, <1>3, <2>1, DriverStays, DimsStay, FieldStep
<1> QED
  BY <1>2, <1>3

LEMMA KenvsDimStep ==
  ASSUME RunInv, NEW dim \in EnvSweeps, ParseKenvsDim(dim)
  PROVE  RunInv' /\ Later(drv, drv')
<1>1. /\ pc = "parse" /\ asked # <<>> /\ stack' \in Seq(DOMAIN Tree)
      /\ UNCHANGED <<dims, global, segment, og>>
  BY EnterFacts DEF ParseKenvsDim
<1>2. CASE ParseDim(dim[2])
  <2> DEFINE l == Len(asked)
             w == Cur.envs \cup {dim[1]}
             r == Asked("envs", w)
             h == [r[l] EXCEPT !.swept = TRUE]
             t == [r EXCEPT ![l] = h]
  <2>1. /\ drv' = ExpandEnvDim(drv, Cur.kernel, dim)
        /\ pc' \in {"failed", "parse"}
        /\ asked' = t
    BY <1>2 DEF ParseKenvsDim
  <2>2. Grown(drv, Len(drv.hdl), drv')
    BY <1>1, <1>2, <2>1, InvLists, ExpandEnvDimGrows DEF RunInv, Shape, DimOK
  <2>3. Later(drv, drv')
    BY <2>2, GrownLater
  <2> HIDE DEF w
  <2>4. /\ IsList(r) /\ Len(r) = l
        /\ \A i \in DOMAIN asked : i # l => r[i] = asked[i]
        /\ DOMAIN r[l] = SegFields
        /\ \A g \in SegFields : g # "envs" => r[l][g] = asked[l][g]
    BY <1>1, AskedFacts DEF SegFields
  <2> HIDE DEF r
  <2>5. /\ DOMAIN h = SegFields /\ h.swept = TRUE
        /\ h.first = Cur.first /\ h.links = Cur.links /\ h.og = Cur.og
    BY <2>4 DEF SegFields, Cur
  <2> HIDE DEF h
  <2>6. /\ IsList(t) /\ Len(t) = l /\ DOMAIN t = DOMAIN r
        /\ \A j \in DOMAIN r : t[j] = IF j = l THEN h ELSE r[j]
    BY <2>4, ListExcept
  <2> HIDE DEF t
  <2>7. DOMAIN r = DOMAIN asked /\ l \in DOMAIN asked
    BY <1>1, <2>4, ListFacts, InvLists
  <2>8. asked'[l] = h /\ \A i \in DOMAIN asked : i # l => asked'[i] = asked[i]
    BY <2>1, <2>4, <2>6, <2>7
  <2>9. segment = Cur.links /\ og = Cur.og
    BY <1>1 DEF RunInv, OpenSegment
  <2>10. pc' # "launch" /\ pc # "launch" /\ IsList(asked') /\ Len(asked') = l
    BY <1>1, <2>1, <2>6
  <2>11. /\ DOMAIN asked'[l] = SegFields /\ asked'[l].first = Cur.first
         /\ segment' = asked'[l].links /\ og' = asked'[l].og
         /\ asked'[l].swept
    BY <1>1, <2>5, <2>8, <2>9
  <2>12. RunInv'
    BY <1>1, <2>3, <2>8, <2>10, <2>11, DimsStay, OptionStep
  <2> QED
    BY <2>3, <2>12
<1>3. CASE ~ParseDim(dim[2])
  <2>1. pc' = "failed" /\ UNCHANGED <<drv, asked>>
    BY <1>3 DEF ParseKenvsDim
  <2> QED
    BY <1>1, <2>1, DriverStays, IdleStep
<1> QED
  BY <1>2, <1>3

(* The chain that is bound is the one of the open segment. *)
LEMMA ChainOfOpen ==
  ASSUME RunInv, asked # <<>>, pc # "launch"
  PROVE  Chain = ChainOf(Len(asked))
<1>1. segment = Cur.links /\ og = Cur.og
  BY DEF RunInv, OpenSegment
<1> QED
  BY <1>1 DEF Chain, ChainOf, Cur

(* A --kernel closes the open segment: its wrappers go to the last handle   *)
(* before the dimensions copy it, so every handle has them that was not     *)
(* there when an environment variable was swept.                            *)
LEMMA KernelStep ==
  ASSUME RunInv, NEW k \in KernelAll, ParseKernel(k)
  PROVE  RunInv' /\ Later(drv, drv')
<1> DEFINE b == BindWrappers(drv)
           d == FlushPendingDims(b, dims)
           l == Len(asked)
           c == Len(drv.hdl)
           m == Len(d.hdl)
           new == Segment(k, m + 1)
<1>1. /\ pc = "parse" /\ stack' \in Seq(DOMAIN Tree) /\ drv' = AddHandle(d, k)
      /\ dims' = <<>> /\ segment' = <<>> /\ og' = FALSE /\ UNCHANGED global
      /\ pc' = (IF drv'.err THEN "failed" ELSE "parse")
      /\ asked' = (IF drv'.err THEN asked ELSE Append(asked, Segment(k, Len(drv'.hdl))))
  BY EnterFacts DEF ParseKernel
<1>2. /\ l \in Nat /\ DOMAIN asked = 1..l /\ c \in Nat
      /\ IsList(asked) /\ DrvOK(drv) /\ IsList(dims) /\ (l = 0 <=> asked = <<>>)
  BY InvLists, ListFacts DEF RunInv, Shape
<1>3. /\ DrvOK(d) /\ c <= m /\ \A i \in 1..(c - 1) : d.hdl[i] = drv.hdl[i]
      /\ asked = <<>> => m = 0
      /\ asked # <<>> => \A i \in c..m : d.hdl[i].wraps = ChainOf(l)
  <2>1. CASE asked = <<>>
    <3>1. drv.hdl = <<>> /\ dims = <<>>
      BY <2>1 DEF RunInv, Start
    <3>2. d = drv
      BY <3>1 DEF BindWrappers, FlushPendingDims
    <3> HIDE DEF d
    <3> QED
      BY <1>2, <2>1, <3>1, <3>2
  <2>2. CASE asked # <<>>
    <3>1. drv.hdl # <<>>
      BY <2>2, InvLists
    <3>2. /\ DrvOK(b) /\ Len(b.hdl) = c /\ b.hdl[c].wraps = Chain
          /\ \A i \in 1..(c - 1) : b.hdl[i] = drv.hdl[i]
      BY <1>2, <3>1, BindFacts
    <3> HIDE DEF b
    <3>3. b.hdl # <<>>
      BY <1>2, <3>1, <3>2, ListFacts DEF DrvOK
    <3>4. \A i \in DOMAIN dims : DimOK(dims[i])
      BY DEF RunInv, Shape
    <3>5. Grown(b, Len(b.hdl), d)
      BY <1>2, <3>2, <3>3, <3>4, FlushGrows
    <3>6. Chain = ChainOf(l)
      BY <1>1, <2>2, ChainOfOpen
    <3> HIDE DEF d, c
    <3> QED
      BY <2>2, <3>2, <3>5, <3>6 DEF Grown
  <2> QED
    BY <2>1, <2>2
<1> HIDE DEF d
<1>4. /\ m \in Nat /\ DrvOK(drv') /\ Len(drv'.hdl) = m + 1 /\ drv'.err = FALSE
      /\ \A i \in 1..m : drv'.hdl[i] = d.hdl[i]
  BY <1>1, <1>3, AddFacts, ListFacts DEF DrvOK
<1>5. pc' = "parse" /\ asked' = Append(asked, new)
  BY <1>1, <1>4
<1> HIDE DEF new
<1>6. /\ IsList(asked') /\ Len(asked') = l + 1 /\ DOMAIN asked' = 1..(l + 1)
      /\ asked'[l + 1] = new /\ asked' # <<>> /\ \A i \in 1..l : asked'[i] = asked[i]
  BY <1>2, <1>5, ListAppend
<1>7. /\ DOMAIN new = SegFields /\ new.first = m + 1 /\ new.links = <<>> /\ new.og = FALSE
      /\ new.swept = FALSE
  BY DEF new, Segment, SegFields
<1>8. ASSUME NEW i \in 1..l
      PROVE  /\ asked[i].first \in 1..c /\ asked # <<>> /\ DOMAIN asked[i] = SegFields
             /\ \A j \in 1..l : i < j => asked[i].first < asked[j].first
  BY <1>2 DEF RunInv, Rising, Shape
<1>9. \A i \in 1..(c - 1) : drv'.hdl[i] = drv.hdl[i]
  BY <1>2, <1>3, <1>4
<1>10. Later(drv, drv')
  <2>1. c <= Len(drv'.hdl)
    BY <1>2, <1>3, <1>4
  <2> QED
    BY <1>4, <1>9, <2>1 DEF Later
<1>11. Shape'
  <2>1. IsList(<<>>) /\ DOMAIN <<>> = {}
    <3>1. <<>> \in Seq({})
      OBVIOUS
    <3> QED
      BY <3>1 DEF IsList
  <2>2. \A i \in DOMAIN asked' : DOMAIN asked'[i] = SegFields
    BY <1>2, <1>6, <1>7, <1>8
  <2> QED
    BY <1>1, <1>4, <1>6, <2>1, <2>2 DEF Shape
<1>12. Start'
  BY <1>1, <1>6 DEF Start
<1>13. Rising'
  <2>1. ASSUME NEW i \in 1..(l + 1) PROVE asked'[i].first \in 1..(m + 1)
    BY <1>2, <1>3, <1>4, <1>6, <1>7, <1>8
  <2>2. ASSUME NEW i \in 1..(l + 1), NEW j \in 1..(l + 1), i < j
        PROVE  asked'[i].first < asked'[j].first
    <3>1. i \in 1..l /\ asked'[i] = asked[i]
      BY <1>2, <1>6, <2>2
    <3>2. CASE j = l + 1
      BY <1>2, <1>3, <1>4, <1>6, <1>7, <1>8, <3>1, <3>2
    <3>3. CASE j # l + 1
      <4>1. j \in 1..l /\ asked'[j] = asked[j]
        BY <1>2, <1>6, <3>3
      <4> QED
        BY <1>8, <2>2, <3>1, <4>1
    <3> QED
      BY <3>2, <3>3
  <2> QED
    BY <1>4, <1>6, <2>1, <2>2 DEF Rising
<1>14. OpenSegment'
  BY <1>1, <1>4, <1>6, <1>7 DEF OpenSegment, Cur
<1>15. ClosedSegments'
  <2>1. SUFFICES ASSUME NEW i \in 1..l,
                        NEW n \in asked[i].first..(asked'[i + 1].first - 1),
                        n = asked'[i + 1].first - 1 \/ ~asked[i].swept
                 PROVE  drv'.hdl[n].wraps = ChainOf(i)
    <3>1. \A i \in 1..(l + 1) : i < l + 1 => i \in 1..l
      BY <1>2
    <3>2. \A i \in 1..l : asked'[i] = asked[i] /\ ChainOf(i)' = ChainOf(i)
      BY <1>1, <1>6 DEF ChainOf
    <3> QED
      BY <1>6, <3>1, <3>2 DEF ClosedSegments
  <2>2. CASE i = l
    <3>1. asked'[i + 1].first = m + 1 /\ (m + 1) - 1 = m
      BY <1>4, <1>6, <1>7, <2>2
    <3>2. ~asked[l].swept => c = asked[l].first
      BY <1>1, <1>8, <2>2 DEF RunInv, OpenSegment, Cur
    <3>3. n \in c..m /\ n \in 1..m
      BY <1>2, <1>3, <1>4, <1>8, <2>1, <2>2, <3>1, <3>2
    <3> QED
      BY <1>3, <1>4, <1>8, <2>2, <3>3
  <2>3. CASE i # l
    <3>1. i + 1 \in 1..l /\ i < l /\ l \in 1..l
      <4>1. l \in Nat /\ i \in 1..l
        BY <1>2, <2>1
      <4> HIDE DEF l
      <4> QED
        BY <2>3, <4>1
    <3>2. asked'[i + 1] = asked[i + 1]
      BY <1>6, <3>1
    <3>3. drv.hdl[n].wraps = ChainOf(i)
      BY <1>2, <2>1, <3>1, <3>2 DEF RunInv, ClosedSegments
    <3>4. asked[i + 1].first \in 1..c /\ asked[i].first \in 1..c
      BY <1>8, <3>1
    <3>5. n \in 1..(c - 1)
      BY <1>2, <3>2, <3>4
    <3> QED
      BY <1>9, <3>3, <3>5
  <2> QED
    BY <2>2, <2>3
<1>16. LastSegment'
  BY <1>5 DEF LastSegment
<1> QED
  BY <1>10, <1>11, <1>12, <1>13, <1>14, <1>15, <1>16 DEF RunInv

(* The end of the line: the dimensions first, then the wrappers. *)
LEMMA EndStep ==
  ASSUME RunInv, EndOfLine
  PROVE  RunInv' /\ Later(drv, drv')
<1>1. pc = "parse" /\ UNCHANGED <<stack, chosen, global, ntok, asked>>
  BY DEF EndOfLine
<1>2. stack' \in Seq(DOMAIN Tree) /\ (OnStack' => asked # <<>>)
  BY <1>1 DEF RunInv, Start, OnStack
<1>3. CASE asked = <<>>
  <2>1. pc' = "failed" /\ UNCHANGED <<drv, dims, segment, og>>
    BY <1>3 DEF EndOfLine
  <2> QED
    BY <1>1, <1>2, <2>1, DriverStays, IdleStep
<1>4. CASE asked # <<>>
  <2> DEFINE d == FlushPendingDims(drv, dims)
             l == Len(asked)
             c == Len(drv.hdl)
             m == Len(d.hdl)
  <2>1. drv' = BindWrappers(d) /\ dims' = <<>> /\ pc' = "launch"
    BY <1>4 DEF EndOfLine
  <2>2. /\ l \in Nat \ {0} /\ DOMAIN asked = 1..l /\ c \in Nat \ {0} /\ drv.hdl # <<>>
        /\ DrvOK(drv) /\ IsList(dims) /\ \A i \in DOMAIN dims : DimOK(dims[i])
    BY <1>4, InvLists, ListFacts DEF RunInv, Shape
  <2>3. Grown(drv, c, d)
    BY <2>2, FlushGrows
  <2> HIDE DEF d
  <2>4. DrvOK(d) /\ c <= m /\ m \in Nat \ {0} /\ d.hdl # <<>>
    BY <2>2, <2>3, ListFacts DEF Grown, DrvOK
  <2>5. /\ DrvOK(drv') /\ Len(drv'.hdl) = m /\ drv'.hdl[m].wraps = Chain
        /\ \A i \in 1..(m - 1) : drv'.hdl[i] = d.hdl[i]
    BY <2>1, <2>4, BindFacts
  <2>6. \A i \in 1..(c - 1) : drv'.hdl[i] = drv.hdl[i]
    <3>1. \A i \in 1..(c - 1) : i \in 1..(m - 1) /\ d.hdl[i] = drv.hdl[i]
      BY <2>2, <2>3, <2>4 DEF Grown
    <3> QED
      BY <2>5, <3>1
  <2>7. Later(drv, drv')
    BY <2>4, <2>5, <2>6 DEF Later
  <2>8. Shape'
    <3>1. <<>> \in Seq({}) /\ DOMAIN <<>> = {}
      OBVIOUS
    <3> QED
      BY <1>1, <2>1, <2>5, <3>1 DEF RunInv, Shape, IsList
  <2>9. Start'
    BY <1>1, <1>2, <1>4 DEF Start
  <2>10. Rising'
    <3>1. 1..c \subseteq 1..m
      BY <2>2, <2>4
    <3> QED
      BY <1>1, <2>5, <3>1 DEF RunInv, Rising
  <2>11. OpenSegment'
    BY <2>1 DEF OpenSegment
  <2>12. ClosedSegments'
    <3>1. SUFFICES ASSUME NEW i \in 1..l, i < l,
                          NEW n \in asked[i].first..(asked[i + 1].first - 1),
                          n = asked[i + 1].first - 1 \/ ~asked[i].swept
                   PROVE  drv'.hdl[n].wraps = ChainOf(i)
      BY <1>1, <2>2 DEF ClosedSegments, ChainOf
    <3>2. drv.hdl[n].wraps = ChainOf(i)
      BY <2>2, <3>1 DEF RunInv, ClosedSegments
    <3>3. i + 1 \in 1..l
      BY <2>2, <3>1
    <3>4. asked[i + 1].first \in 1..c /\ asked[i].first \in 1..c
      BY <2>2, <3>1, <3>3 DEF RunInv, Rising
    <3>5. n \in 1..(c - 1)
      BY <2>2, <3>1, <3>4
    <3> QED
      BY <2>6, <3>2, <3>5
  <2>13. LastSegment'
    <3>1. Chain = ChainOf(l)
      BY <1>1, <1>4, ChainOfOpen
    <3> QED
      BY <1>1, <2>5, <3>1 DEF LastSegment, ChainOf
  <2> QED
    BY <2>7, <2>8, <2>9, <2>10, <2>11, <2>12, <2>13 DEF RunInv
<1> QED
  BY <1>3, <1>4

LEMMA RunInit ==
  ASSUME drv = Fresh, pc = "register", InitRun
  PROVE  RunInv
<1>1. /\ drv.hdl = <<>> /\ drv.cur = 0 /\ DOMAIN drv = DrvFields
      /\ asked = <<>> /\ dims = <<>> /\ stack = <<"root", "run">>
  BY DEF Fresh, DrvFields, InitRun
<1>2. <<>> \in Seq({}) /\ Len(<<>>) = 0 /\ DOMAIN <<>> = {}
  OBVIOUS
<1>3. DrvOK(drv)
  BY <1>1, <1>2 DEF DrvOK, IsList
<1>4. Shape
  BY <1>1, <1>2, <1>3 DEF Shape, IsList
<1>5. stack \in Seq(DOMAIN Tree) /\ ~OnStack
  <2>1. "root" \in DOMAIN Tree /\ "run" \in DOMAIN Tree
    BY DEF Tree
  <2>2. DOMAIN stack = 1..2 /\ stack[1] = "root" /\ stack[2] = "run"
    BY <1>1
  <2>3. ~OnStack
    BY <2>2 DEF OnStack
  <2> QED
    BY <1>1, <2>1, <2>3
<1> QED
  BY <1>1, <1>2, <1>4, <1>5
  DEF RunInv, Start, Rising, OpenSegment, ClosedSegments, LastSegment

LEMMA RunStep ==
  ASSUME RunInv, NextRun
  PROVE  RunInv' /\ Later(drv, drv')
<1>1. CASE RegisterKernels
  <2>1. UNCHANGED <<drv, runVars>> /\ pc = "register" /\ pc' \in {"parse", "failed"}
    BY <1>1 DEF RegisterKernels
  <2>2. stack' \in Seq(DOMAIN Tree) /\ (OnStack' => asked # <<>>)
    BY <2>1 DEF RunInv, Start, OnStack, runVars
  <2> QED
    BY <2>1, <2>2, DriverStays, IdleStep DEF runVars
<1>2. CASE \E k \in KernelAll : ParseKernel(k)
  BY <1>2, KernelStep
<1>3. CASE \E a \in Args : ParseKargs(a)
  BY <1>3, KargsStep
<1>4. CASE \E dim \in Sweeps : ParseKargsDim(dim)
  BY <1>4, KargsDimStep
<1>5. CASE \E a \in EnvArgs : ParseKenvs(a)
  BY <1>5, KenvsStep
<1>6. CASE \E dim \in EnvSweeps : ParseKenvsDim(dim)
  BY <1>6, KenvsDimStep
<1>7. CASE ParseOverrideGlobal
  BY <1>7, OverrideStep
<1>8. CASE \E a \in Apps : ParseWrapper(a)
  <2>1. PICK a \in Apps : ParseWrapper(a)
    BY <1>8
  <2>2. \E g, s : WrapperToken("--wrapper", g, s) /\ pc' # "launch"
    BY <2>1 DEF ParseWrapper
  <2> QED
    BY <2>2, WrapperStep
<1>9. CASE ParseWrapperArgs
  <2>1. (\E g, s : WrapperToken("--wrapper-args", g, s)) /\ UNCHANGED pc
    BY <1>9 DEF ParseWrapperArgs
  <2>2. PICK g, s : WrapperToken("--wrapper-args", g, s)
    BY <2>1
  <2>3. pc' # "launch"
    BY <2>1, <2>2, EnterFacts DEF WrapperToken
  <2> QED
    BY <2>2, <2>3, WrapperStep
<1>10. CASE \E tok \in {"--timer", "--outargs", "--dry-run"} : ParseSetting(tok)
  <2>1. PICK tok \in {"--timer", "--outargs", "--dry-run"} : ParseSetting(tok)
    BY <1>10
  <2>2. /\ Enter(tok) /\ tok # "--kernel" /\ pc' # "launch"
        /\ UNCHANGED <<drv, dims, global, segment, og, asked>>
    BY <2>1 DEF ParseSetting
  <2> QED
    BY <2>2, EnterFacts, DriverStays, IdleStep
<1>11. CASE Help
  <2>1. /\ Enter("--help") /\ pc' = "failed"
        /\ UNCHANGED <<drv, dims, global, segment, og, asked>>
    BY <1>11 DEF Help
  <2> QED
    BY <2>1, EnterFacts, DriverStays, IdleStep
<1>12. CASE \E tok \in Tokens : Refuse(tok)
  <2>1. UNCHANGED <<drv, runVars>> /\ pc = "parse" /\ pc' = "failed"
    BY <1>12 DEF Refuse
  <2>2. stack' \in Seq(DOMAIN Tree) /\ (OnStack' => asked # <<>>)
    BY <2>1 DEF RunInv, Start, OnStack, runVars
  <2> QED
    BY <2>1, <2>2, DriverStays, IdleStep DEF runVars
<1>13. CASE EndOfLine
  BY <1>13, EndStep
<1> QED
  BY <1>1, <1>2, <1>3, <1>4, <1>5, <1>6, <1>7, <1>8, <1>9, <1>10, <1>11, <1>12, <1>13
  DEF NextRun

LEMMA RunStutters ==
  ASSUME RunInv, UNCHANGED <<drv, pc, runVars>>
  PROVE  RunInv'
  BY DEF RunInv, Shape, Start, Rising, OpenSegment, ClosedSegments, LastSegment, ChainOf, Cur,
         OnStack, runVars

(* The invariant of the command line: where each segment begins, what the   *)
(* parser holds for the open one, and the wrappers of the closed ones.      *)
THEOREM RunInvariance == RunSpec => []RunInv
<1>1. drv = Fresh /\ pc = "register" /\ InitRun => RunInv
  BY RunInit
<1>2. RunInv /\ [NextRun]_<<drv, pc, runVars>> => RunInv'
  BY RunStep, RunStutters
<1> QED
  BY <1>1, <1>2, PTL DEF RunSpec

(* The handles of segment s, as the property has them. *)
LEMMA HandlesFacts ==
  ASSUME RunInv, NEW s \in DOMAIN asked
  PROVE  LET last == IF s < Len(asked) THEN asked[s + 1].first - 1 ELSE Len(drv.hdl)
         IN  /\ Len(HandlesOf(s)) = last - asked[s].first + 1
             /\ DOMAIN HandlesOf(s) = 1..(last - asked[s].first + 1)
             /\ \A n \in DOMAIN HandlesOf(s) :
                   /\ HandlesOf(s)[n] = drv.hdl[asked[s].first + n - 1]
                   /\ asked[s].first + n - 1 \in asked[s].first..last
<1> DEFINE last == IF s < Len(asked) THEN asked[s + 1].first - 1 ELSE Len(drv.hdl)
           f == asked[s].first
<1>1. /\ Len(asked) \in Nat /\ DOMAIN asked = 1..Len(asked)
      /\ Len(drv.hdl) \in Nat /\ DOMAIN drv.hdl = 1..Len(drv.hdl)
  BY InvLists
<1>2. f \in 1..Len(drv.hdl) /\ last \in f..Len(drv.hdl)
  <2>1. CASE s < Len(asked)
    <3>1. s + 1 \in DOMAIN asked /\ s < s + 1
      BY <1>1, <2>1
    <3>2. f \in 1..Len(drv.hdl) /\ asked[s + 1].first \in 1..Len(drv.hdl) /\ f < asked[s + 1].first
      BY <3>1 DEF RunInv, Rising
    <3> QED
      BY <1>1, <2>1, <3>2
  <2>2. CASE ~(s < Len(asked))
    BY <1>1, <2>2 DEF RunInv, Rising
  <2> QED
    BY <2>1, <2>2
<1>3. HandlesOf(s) = SubSeq(drv.hdl, f, last)
  BY DEF HandlesOf
<1>4. PICK S : drv.hdl \in Seq(S)
  BY DEF RunInv, Shape, DrvOK, IsList
<1> HIDE DEF last, f
<1>5. /\ Len(SubSeq(drv.hdl, f, last)) = last - f + 1
      /\ SubSeq(drv.hdl, f, last) \in Seq(S)
      /\ \A n \in 1..(last - f + 1) : SubSeq(drv.hdl, f, last)[n] = drv.hdl[f + n - 1]
  BY <1>1, <1>2, <1>4, SubSeqProperties
<1> DEFINE q == SubSeq(drv.hdl, f, last)
<1> HIDE DEF q
<1>6. Len(q) = last - f + 1 /\ DOMAIN q = 1..(last - f + 1) /\ HandlesOf(s) = q
  BY <1>3, <1>5 DEF q
<1>7. \A n \in DOMAIN q : q[n] = drv.hdl[f + n - 1] /\ f + n - 1 \in f..last
  BY <1>2, <1>5, <1>6 DEF q
<1> QED
  BY <1>6, <1>7 DEF last, f

(* The wrappers of a closed segment are on its last handle, and on all of   *)
(* them when a --kernel closed it and it swept no environment variable.     *)
THEOREM WrappersWhereBound == RunSpec => []WrappersReachHandles
<1>1. ASSUME RunInv PROVE WrappersReachHandles
  <2>1. SUFFICES ASSUME NEW s \in DOMAIN asked, Closed(s), NEW n \in DOMAIN HandlesOf(s),
                        n = Len(HandlesOf(s)) \/ (s < Len(asked) /\ ~asked[s].swept)
                 PROVE  HandlesOf(s)[n].wraps = ChainOf(s)
    BY DEF WrappersReachHandles, ChainOf
  <2> DEFINE last == IF s < Len(asked) THEN asked[s + 1].first - 1 ELSE Len(drv.hdl)
             p == asked[s].first + n - 1
  <2>2. /\ Len(HandlesOf(s)) = last - asked[s].first + 1
        /\ HandlesOf(s)[n] = drv.hdl[p] /\ p \in asked[s].first..last
    BY <1>1, <2>1, HandlesFacts
  <2>3. /\ Len(asked) \in Nat /\ DOMAIN asked = 1..Len(asked) /\ asked[s].first \in Nat
        /\ Len(drv.hdl) \in Nat
    BY <1>1, <2>1, InvLists DEF RunInv, Rising
  <2>4. CASE s < Len(asked)
    <3>1. asked[s + 1].first \in Nat
      BY <1>1, <2>1, <2>3, <2>4 DEF RunInv, Rising
    <3>2. CASE n = Len(HandlesOf(s))
      <4>1. last = asked[s + 1].first - 1 /\ n = last - asked[s].first + 1
        BY <2>2, <2>4, <3>2
      <4>2. p = asked[s + 1].first - 1
        BY <2>3, <3>1, <4>1
      <4> QED
        BY <1>1, <2>1, <2>2, <2>4, <4>2 DEF RunInv, ClosedSegments
    <3>3. CASE ~asked[s].swept
      BY <1>1, <2>1, <2>2, <2>4, <3>3 DEF RunInv, ClosedSegments
    <3> QED
      BY <2>1, <3>2, <3>3
  <2>5. CASE ~(s < Len(asked))
    <3>1. s = Len(asked) /\ pc = "launch" /\ p = Len(drv.hdl)
      BY <2>1, <2>2, <2>3, <2>5 DEF Closed
    <3> QED
      BY <1>1, <2>2, <3>1 DEF RunInv, LastSegment
  <2> QED
    BY <2>4, <2>5
<1> QED
  BY <1>1, RunInvariance, PTL

(* No step changes a handle of a segment before the open one. *)
THEOREM NothingReachesBack == RunSpec => SegmentsStay
<1>1. ASSUME RunInv, [NextRun]_<<drv, pc, runVars>>
      PROVE  [asked # <<>> => \A i \in 1..(Cur.first - 1) : drv'.hdl[i] = drv.hdl[i]]_<<drv, asked>>
  <2>1. CASE NextRun
    BY <1>1, <2>1, RunStep, EarlierStay
  <2>2. CASE UNCHANGED <<drv, pc, runVars>>
    BY <2>2 DEF runVars
  <2> QED
    BY <1>1, <2>1, <2>2
<1> QED
  BY <1>1, RunInvariance, PTL DEF RunSpec, SegmentsStay
=============================================================================
