------------------------- MODULE TaskCommandsProofs -------------------------
(***************************************************************************)
(* Proofs about the task commands, for any number of processes, any        *)
(* command lines, listings and workspaces to start from: the RIDMAP file   *)
(* is always a whole listing, an export directory that one running export  *)
(* at a time has used holds a complete pair of files for exactly the       *)
(* records that were exported, and a report of get-result says what it     *)
(* leaves out.                                                             *)
(***************************************************************************)
EXTENDS TaskCommands, SequenceTheorems, FiniteSetTheorems, WellFoundedInduction, TLAPS

(* The stages of `ls` that replace the RIDMAP file; the stages of `export` *)
(* that write a pair of files; and those that work inside a directory.     *)
MapStage == {"map tmp", "map write", "map rename"}
Writing  == {"meta tmp", "meta rename", "data tmp", "data rename"}
Records  == {"record"} \cup Writing
Inside   == {"root"} \cup Records

(* Before a command has anything to export. *)
Early == MapStage \cup {"idle", "parse rids", "index map", "read map", "resolve ids",
                        "selected"}

Fields == {"pc", "op", "opts", "rids", "ids", "seen", "works", "dir", "todo", "ok",
           "wanted", "failed", "status", "report"}

Shape ==
  /\ DOMAIN cmd = Cmds /\ DOMAIN tmp = Cmds
  /\ \A c \in Cmds : DOMAIN cmd[c] = Fields

(* Where the RIDMAP file and the temporary files come from. *)
MapInv ==
  /\ Shape /\ MapIsListing
  /\ \A c \in Cmds :
       /\ cmd[c].pc \in MapStage => cmd[c].ids \in listed
       /\ cmd[c].pc = "map rename" => tmp[c] = cmd[c].ids

StoreOK ==
  /\ files \subseteq TaskIds /\ index \in Seq(TaskIds)
  /\ \A k \in DOMAIN member : MemberList(k, member[k])

(* The records exported to a directory. *)
Exported(d) == {id \in TaskIds : \E c \in Cmds : <<d, id>> \in cmd[c].ok}

(* Command c has put the meta file of record id into d, or died before it  *)
(* came so far.                                                            *)
Midway(c, d, id) ==
  /\ cmd[c].dir = d /\ cmd[c].todo # <<>> /\ Head(cmd[c].todo).id = id
  /\ cmd[c].pc \in {"data tmp", "data rename", "crashed"}

(* What an entry of todo is while the work at the head of works is done. *)
TodoRec(p) ==
  [id : TaskIds \cup {Head(p.works).root}, root : BOOLEAN, pass : BOOLEAN]

(* The entries of todo name different records. *)
TodoOK(p) ==
  /\ p.pc \in Early \cup {"work", "stat", "mkdir", "root"} => p.todo = <<>>
  /\ p.pc \in Records =>
       /\ p.todo \in Seq(TodoRec(p))
       /\ \A i, j \in DOMAIN p.todo : i # j => p.todo[i].id # p.todo[j].id
  /\ p.pc \in Writing =>
       p.todo # <<>> /\ Head(p.todo).pass /\ Head(p.todo).id \in TaskIds

(* What is wanted and not exported yet is still to do, unless something    *)
(* has failed.                                                             *)
Left(d, todo) == {<<d, todo[i].id>> : i \in {j \in DOMAIN todo : todo[j].pass}}

WantedOK(p) ==
  /\ p.pc \in Early => p.wanted = {} /\ p.ok = {} /\ p.failed = FALSE
  /\ p.failed \in BOOLEAN
  /\ p.pc # "done" => p.status = None
  /\ p.pc \in {"work", "stat", "mkdir", "root"} /\ ~p.failed => p.wanted = p.ok
  /\ p.pc \in Records /\ ~p.failed => p.wanted = p.ok \cup Left(p.dir, p.todo)
  /\ p.op = "export" /\ p.status = "ok" => p.wanted = p.ok

(* A directory that no two running exports have picked: one of them at     *)
(* most is inside; it was empty when that one came, and nothing the export *)
(* has still to do is there.                                               *)
InsideOK(c) ==
  LET p == cmd[c]
  IN  /\ p.pc \in Inside => p.dir \in DOMAIN dirs
      /\ p.pc = "mkdir" /\ p.dir \in DOMAIN dirs => p.dir \in overlapped
      /\ p.pc = "root" /\ p.dir \notin overlapped => dirs[p.dir] = {}
      /\ p.pc \in Records /\ p.dir \notin overlapped =>
           \A i \in DOMAIN p.todo : p.todo[i].id \notin Exported(p.dir)
      /\ p.pc \in {"data tmp", "data rename"} /\ p.dir \notin overlapped =>
           Meta(Head(p.todo).id) \in dirs[p.dir]

OneInside ==
  \A c, o \in Cmds :
    c # o /\ cmd[c].pc \in Inside /\ cmd[o].pc \in Inside /\ cmd[c].dir = cmd[o].dir
      => cmd[c].dir \in overlapped

FilesOK ==
  /\ \A d \in DOMAIN dirs : \A f \in dirs[d] : f = File(f.kind, f.id, f.pid)
  /\ \A c \in Cmds : \A x \in cmd[c].ok : x[1] \in DOMAIN dirs

(* The files of a directory d against what was exported to it. *)
DirOK(d) ==
  /\ \A id \in Exported(d) : Data(id) \in dirs[d] /\ Meta(id) \in dirs[d]
  /\ \A f \in dirs[d] : f.kind = "data" /\ f.pid = None => f.id \in Exported(d)
  /\ \A f \in dirs[d] : f.kind = "meta" /\ f.pid = None =>
       f.id \in Exported(d) \/ \E c \in Cmds : Midway(c, d, f.id)

ExportInv ==
  /\ Shape /\ StoreOK /\ FilesOK /\ OneInside
  /\ \A c \in Cmds : TodoOK(cmd[c]) /\ WantedOK(cmd[c]) /\ InsideOK(c)
  /\ \A d \in DOMAIN dirs \ overlapped : DirOK(d)

-----------------------------------------------------------------------------
(* Steps of one command.                                                   *)

(* The new state of command c is s and the others stay as they are. *)
LEMMA StepFacts ==
  ASSUME Shape, NEW c \in Cmds, NEW s, DOMAIN s = Fields, Step(c, s),
         DOMAIN tmp' = DOMAIN tmp
  PROVE  Shape' /\ cmd'[c] = s /\ \A o \in Cmds \ {c} : cmd'[o] = cmd[o]
  BY DEF Shape, Step

LEMMA IdleFacts ==
  /\ DOMAIN Idle = Fields /\ Idle.pc = "idle" /\ Idle.todo = <<>> /\ Idle.ok = {}
  /\ Idle.wanted = {} /\ Idle.failed = FALSE /\ Idle.status = None
  BY DEF Idle, Fields

(* A state of a command that has nothing to export. *)
Plain(s) ==
  /\ DOMAIN s = Fields
  /\ s.pc \in Early \cup {"work", "done"}
  /\ s.todo = <<>> /\ s.ok = {} /\ s.wanted = {} /\ s.failed = FALSE
  /\ s.pc # "done" => s.status = None

LEMMA PlainEarly ==
  ASSUME NEW p, DOMAIN p = Fields, TodoOK(p), WantedOK(p), p.pc \in Early
  PROVE  Plain(p)
  BY DEF Plain, TodoOK, WantedOK, Early, MapStage

LEMMA PlainDone ==
  ASSUME NEW p, Plain(p), NEW status
  PROVE  Plain(Done(p, status)) /\ Done(p, status).pc = "done"
  BY DEF Plain, Done, Fields

Others == <<ridmap, tmp, listed>>

(* The steps of a selection: the map files are left alone. *)
Selecting(c) ==
  ParseRids(c) \/ IndexMap(c) \/ ReadMap(c) \/ ResolvePrefixes(c) \/ Report(c)
    \/ BuildWorks(c)

LEMMA SelectingStep ==
  ASSUME NEW c \in Cmds, Selecting(c), Shape, TodoOK(cmd[c]), WantedOK(cmd[c])
  PROVE  /\ cmd[c].pc \in Early
         /\ \E s : Step(c, s) /\ Plain(s) /\ s.pc \notin MapStage
         /\ UNCHANGED <<storeVars, dirs, overlapped>> /\ UNCHANGED Others
<1> DEFINE p == cmd[c]
<1>0. p.pc \in Early /\ UNCHANGED <<storeVars, dirs, overlapped>> /\ UNCHANGED Others
  BY DEF Selecting, ParseRids, IndexMap, ReadMap, ResolvePrefixes, Report, BuildWorks, At,
         Early, Others
<1>1. DOMAIN p = Fields
  BY DEF Shape
<1>2. Plain(p)
  BY <1>0, <1>1, PlainEarly
<1>3. \A st : Plain(Done(p, st)) /\ Done(p, st).pc = "done"
  BY <1>2, PlainDone
<1> SUFFICES \E s : Step(c, s) /\ Plain(s) /\ s.pc \notin MapStage
  BY <1>0
<1>4. CASE ParseRids(c)
  <2> DEFINE rids == ParseRidList(p.opts.sel.spec, RidmapRead)
             q == [p EXCEPT !.pc = "index map", !.rids = rids, !.seen = RidmapRead]
  <2>1. Step(c, IF rids = None THEN Done(p, "error") ELSE q)
    BY <1>4 DEF ParseRids
  <2> HIDE DEF rids
  <2>2. Plain(q) /\ q.pc = "index map"
    BY <1>2, <1>0 DEF Plain, Fields, Early, MapStage
  <2> QED
    BY <2>1, <2>2, <1>3 DEF MapStage
<1>5. CASE IndexMap(c)
  <2>1. PICK junk \in {TRUE, FALSE} :
          Step(c, [p EXCEPT !.pc = "selected",
                     !.ids = [i \in DOMAIN p.rids |->
                                IF p.rids[i] + 1 <= Len(RidmapRead)
                                THEN RidmapRead[p.rids[i] + 1]
                                ELSE IF junk THEN Garbage ELSE p.seen[p.rids[i] + 1]],
                     !.seen = <<>>])
    BY <1>5 DEF IndexMap
  <2> DEFINE ids == [i \in DOMAIN p.rids |->
                       IF p.rids[i] + 1 <= Len(RidmapRead)
                       THEN RidmapRead[p.rids[i] + 1]
                       ELSE IF junk THEN Garbage ELSE p.seen[p.rids[i] + 1]]
             q == [p EXCEPT !.pc = "selected", !.ids = ids, !.seen = <<>>]
  <2>2. Step(c, q)
    BY <2>1
  <2> HIDE DEF ids
  <2>3. Plain(q) /\ q.pc = "selected"
    BY <1>2, <1>0 DEF Plain, Fields, Early, MapStage
  <2> HIDE DEF q
  <2> QED
    BY <2>2, <2>3 DEF MapStage
<1>6. CASE ReadMap(c)
  <2> DEFINE q == [p EXCEPT !.pc = "selected", !.ids = RidmapRead]
  <2>1. Step(c, IF RidmapRead = <<>> THEN Done(p, "error") ELSE q)
    BY <1>6 DEF ReadMap
  <2>2. Plain(q) /\ q.pc = "selected"
    BY <1>2, <1>0 DEF Plain, Fields, Early, MapStage
  <2> QED
    BY <2>1, <2>2, <1>3 DEF MapStage
<1>7. CASE ResolvePrefixes(c)
  <2> DEFINE ids == IF p.op = "export" THEN ResolveIds(p.opts.sel.spec, 4, 40)
                    ELSE ResolveIds(p.opts.sel.spec, 6, 20)
             q == [p EXCEPT !.pc = "selected", !.ids = ids]
  <2>1. Step(c, IF ids = None THEN Done(p, "error") ELSE q)
    BY <1>7 DEF ResolvePrefixes
  <2> HIDE DEF ids
  <2>2. Plain(q) /\ q.pc = "selected"
    BY <1>2, <1>0 DEF Plain, Fields, Early, MapStage
  <2> QED
    BY <2>1, <2>2, <1>3 DEF MapStage
<1>8. CASE Report(c)
  <2>1. \E r : Step(c, [Done(p, r.status) EXCEPT !.report = r])
    BY <1>8 DEF Report
  <2>2. PICK r : Step(c, [Done(p, r.status) EXCEPT !.report = r])
    BY <2>1
  <2>3. Plain([Done(p, r.status) EXCEPT !.report = r])
        /\ [Done(p, r.status) EXCEPT !.report = r].pc = "done"
    BY <1>3 DEF Plain, Fields
  <2> QED
    BY <2>2, <2>3 DEF MapStage
<1>9. CASE BuildWorks(c)
  <2>1. \E works : Step(c, IF \E i \in DOMAIN works : works[i].root = None
                           THEN Done(p, "error")
                           ELSE [p EXCEPT !.pc = "work", !.works = works])
    BY <1>9 DEF BuildWorks
  <2>2. PICK works : Step(c, IF \E i \in DOMAIN works : works[i].root = None
                             THEN Done(p, "error")
                             ELSE [p EXCEPT !.pc = "work", !.works = works])
    BY <2>1
  <2>3. Plain([p EXCEPT !.pc = "work", !.works = works])
        /\ [p EXCEPT !.pc = "work", !.works = works].pc = "work"
    BY <1>2, <1>0 DEF Plain, Fields, Early, MapStage
  <2> QED
    BY <2>2, <2>3, <1>3 DEF MapStage
<1> QED
  BY <1>4, <1>5, <1>6, <1>7, <1>8, <1>9 DEF Selecting

(* A command that begins. *)
LEMMA InvokeStep ==
  ASSUME NEW c \in Cmds, NEW o, Invoke(c, o)
  PROVE  /\ cmd[c].pc = "idle"
         /\ \E s : /\ Step(c, s) /\ Plain(s)
                   /\ s.pc \in MapStage => s.pc = "map tmp" /\ s.ids \in listed'
         /\ UNCHANGED <<storeVars, dirs, overlapped, ridmap, tmp>> /\ listed \subseteq listed'
<1> DEFINE ls == o.res = "run" /\ o.op = "ls"
<1>1. /\ cmd[c].pc = "idle" /\ UNCHANGED <<storeVars, dirs, overlapped, ridmap, tmp>>
      /\ listed' = IF ls THEN listed \cup {Listing(o.opts)} ELSE listed
      /\ Step(c, CASE o.res = "help"    -> Done(Idle, "help")
                   [] o.res = "refused" -> Done(Idle, "error")
                   [] ls                -> StartLs(o.opts)
                   [] OTHER             -> Start(o.op, o.opts))
  BY DEF Invoke, At
<1>2. Plain(Idle)
  BY IdleFacts DEF Plain, Early
<1>3. \A st : Plain(Done(Idle, st)) /\ Done(Idle, st).pc = "done"
  BY <1>2, PlainDone
<1>4. \A op : Plain([Idle EXCEPT !.op = op])
  BY <1>2, IdleFacts DEF Plain, Fields
<1>5. \A op, st : Plain(Done([Idle EXCEPT !.op = op], st))
                  /\ Done([Idle EXCEPT !.op = op], st).pc = "done"
  BY <1>4, PlainDone
<1>6. CASE o.res = "help"
  <2>1. Step(c, Done(Idle, "help"))
    BY <1>1, <1>6
  <2> QED
    BY <2>1, <1>1, <1>3 DEF MapStage
<1>7. CASE o.res = "refused"
  <2>1. Step(c, Done(Idle, "error"))
    BY <1>1, <1>7
  <2> QED
    BY <2>1, <1>1, <1>3 DEF MapStage
<1>8. CASE ls
  <2> DEFINE shown == Listing(o.opts)
             q == [Idle EXCEPT !.op = "ls", !.pc = "map tmp", !.ids = shown]
  <2>1. Step(c, StartLs(o.opts)) /\ listed' = listed \cup {shown}
    BY <1>1, <1>8
  <2>2. Step(c, IF shown = <<>> THEN Done([Idle EXCEPT !.op = "ls"], "ok") ELSE q)
    BY <2>1 DEF StartLs
  <2> HIDE DEF shown
  <2>3. Plain(q) /\ q.pc = "map tmp" /\ q.ids = shown
    BY <1>2, IdleFacts DEF Plain, Fields, Early, MapStage
  <2> QED
    BY <2>1, <2>2, <2>3, <1>1, <1>5 DEF MapStage
<1>9. CASE ~ls /\ o.res # "help" /\ o.res # "refused"
  <2> DEFINE q(pc) == [Idle EXCEPT !.op = o.op, !.opts = o.opts, !.pc = pc]
  <2>1. Step(c, Start(o.op, o.opts))
    BY <1>1, <1>9
  <2>2. \/ Start(o.op, o.opts) = Done([Idle EXCEPT !.op = o.op], "error")
        \/ \E pc \in {"parse rids", "resolve ids", "read map"} : Start(o.op, o.opts) = q(pc)
    BY DEF Start
  <2>3. \A pc \in {"parse rids", "resolve ids", "read map"} : Plain(q(pc)) /\ q(pc).pc = pc
    BY <1>2, IdleFacts DEF Plain, Fields, Early, MapStage
  <2> HIDE DEF q
  <2> QED
    BY <2>1, <2>2, <2>3, <1>1, <1>5 DEF MapStage
<1> QED
  BY <1>6, <1>7, <1>8, <1>9

-----------------------------------------------------------------------------
(* The list of records that are still to be exported.                      *)

LEMMA TailFacts ==
  ASSUME NEW S, NEW q \in Seq(S), q # <<>>
  PROVE  /\ 1 \in DOMAIN q /\ Head(q) = q[1] /\ Head(q) \in S /\ Tail(q) \in Seq(S)
         /\ \A j \in DOMAIN Tail(q) : /\ j + 1 \in DOMAIN q /\ j + 1 # 1
                                      /\ Tail(q)[j] = q[j + 1]
         /\ \A i \in DOMAIN q : i # 1 => /\ i - 1 \in DOMAIN Tail(q)
                                         /\ Tail(q)[i - 1] = q[i]
         /\ \A i, j \in DOMAIN Tail(q) : i # j => i + 1 # j + 1
<1>1. Len(q) \in Nat /\ DOMAIN q = 1..Len(q) /\ Len(q) >= 1
  BY EmptySeq, LenProperties
<1>2. /\ Head(q) = q[1] /\ Tail(q) \in Seq(S) /\ Len(Tail(q)) = Len(q) - 1
      /\ \A i \in 1..Len(Tail(q)) : Tail(q)[i] = q[i + 1]
  BY HeadTailProperties
<1>3. DOMAIN Tail(q) = 1..(Len(q) - 1)
  BY <1>2, LenProperties
<1>4. q[1] \in S
  BY <1>1, ElementOfSeq
<1> HIDE DEF Left
<1> QED
  BY <1>1, <1>2, <1>3, <1>4

LEMMA LeftTail ==
  ASSUME NEW S, NEW q \in Seq(S), q # <<>>, NEW d
  PROVE  Left(d, q) = Left(d, Tail(q)) \cup IF Head(q).pass THEN {<<d, Head(q).id>>} ELSE {}
<1> DEFINE one == IF Head(q).pass THEN {<<d, Head(q).id>>} ELSE {}
<1>1. ASSUME NEW x \in Left(d, q) PROVE x \in Left(d, Tail(q)) \cup one
  <2>1. PICK i \in DOMAIN q : q[i].pass /\ x = <<d, q[i].id>>
    BY <1>1 DEF Left
  <2>2. CASE i = 1
    BY <2>1, <2>2, TailFacts
  <2>3. CASE i # 1
    <3>1. i - 1 \in DOMAIN Tail(q) /\ Tail(q)[i - 1] = q[i]
      BY <2>3, TailFacts
    <3> QED
      BY <3>1, <2>1 DEF Left
  <2> QED
    BY <2>2, <2>3
<1>2. ASSUME NEW x \in Left(d, Tail(q)) PROVE x \in Left(d, q)
  <2>1. PICK j \in DOMAIN Tail(q) : Tail(q)[j].pass /\ x = <<d, Tail(q)[j].id>>
    BY <1>2 DEF Left
  <2>2. j + 1 \in DOMAIN q /\ Tail(q)[j] = q[j + 1]
    BY TailFacts
  <2> QED
    BY <2>1, <2>2 DEF Left
<1>3. ASSUME NEW x \in one PROVE x \in Left(d, q)
  <2>1. Head(q).pass /\ x = <<d, Head(q).id>>
    BY <1>3
  <2>2. 1 \in DOMAIN q /\ Head(q) = q[1]
    BY TailFacts
  <2> QED
    BY <2>1, <2>2 DEF Left
<1> QED
  BY <1>1, <1>2, <1>3

LEMMA LeftEmpty ==
  ASSUME NEW d PROVE Left(d, <<>>) = {}
  BY DEF Left

-----------------------------------------------------------------------------
(* What the step of one command leaves alone.                              *)

(* Without a new export the directories hold what they held. *)
LEMMA SameExports ==
  ASSUME NEW c \in Cmds, NEW s, s.ok = cmd[c].ok, cmd'[c] = s,
         \A o \in Cmds \ {c} : cmd'[o] = cmd[o]
  PROVE  \A d : Exported(d)' = Exported(d)
  BY DEF Exported

(* Whoever is in the middle of a pair goes on, finishes it or dies. *)
LEMMA SameMidway ==
  ASSUME NEW c \in Cmds, NEW o \in Cmds \ {c}, cmd'[o] = cmd[o]
  PROVE  \A d, id : Midway(o, d, id)' = Midway(o, d, id)
  BY DEF Midway

LEMMA SameStore ==
  ASSUME StoreOK, UNCHANGED storeVars PROVE StoreOK'
<1>1. files' = files /\ index' = index /\ member' = member
  BY DEF storeVars
<1> QED
  BY <1>1 DEF StoreOK

(* A step of command c that leaves the files alone. *)
LEMMA CommandStep ==
  ASSUME ExportInv, NEW c \in Cmds, NEW s, DOMAIN s = Fields, Step(c, s),
         UNCHANGED <<storeVars, dirs, overlapped>>, DOMAIN tmp' = DOMAIN tmp,
         s.ok = cmd[c].ok, TodoOK(s), WantedOK(s),
         s.pc \in Inside => cmd[c].pc \in Inside /\ s.dir = cmd[c].dir,
         s.pc \notin {"root", "data tmp", "data rename"},
         s.pc = "mkdir" => s.dir \notin DOMAIN dirs,
         s.pc \in Records /\ s.dir \notin overlapped =>
           \A i \in DOMAIN s.todo : s.todo[i].id \notin Exported(s.dir),
         cmd[c].pc \in {"data tmp", "data rename", "crashed"} =>
           s.pc = "crashed" /\ s.dir = cmd[c].dir /\ s.todo = cmd[c].todo
  PROVE  ExportInv'
<1>1. Shape' /\ cmd'[c] = s /\ \A o \in Cmds \ {c} : cmd'[o] = cmd[o]
  BY StepFacts DEF ExportInv
<1>2. \A d : Exported(d)' = Exported(d)
  BY <1>1, SameExports
<1>3. StoreOK'
  BY SameStore DEF ExportInv
<1>4. FilesOK'
  BY <1>1 DEF ExportInv, FilesOK
<1>5. OneInside'
  <2>1. \A o \in Cmds : cmd'[o].pc \in Inside =>
                         cmd[o].pc \in Inside /\ cmd'[o].dir = cmd[o].dir
    BY <1>1
  <2>2. OneInside /\ overlapped' = overlapped
    BY DEF ExportInv
  <2> QED
    BY <2>1, <2>2 DEF OneInside
<1>6. ASSUME NEW o \in Cmds
      PROVE  TodoOK(cmd[o])' /\ WantedOK(cmd[o])' /\ InsideOK(o)'
  <2>1. CASE o # c
    <3>1. cmd'[o] = cmd[o]
      BY <1>1, <2>1
    <3>2. TodoOK(cmd[o]) /\ WantedOK(cmd[o]) /\ InsideOK(o)
      BY DEF ExportInv
    <3>3. TodoOK(cmd[o])'
      BY <3>1, <3>2 DEF TodoOK, TodoRec
    <3>4. WantedOK(cmd[o])'
      BY <3>1, <3>2, ZenonT(30) DEF WantedOK, Left
    <3>5. InsideOK(o)'
      BY <3>1, <3>2, <1>2 DEF InsideOK
    <3> QED
      BY <3>3, <3>4, <3>5
  <2>2. CASE o = c
    <3>1. cmd'[o] = s
      BY <1>1, <2>2
    <3>2. TodoOK(cmd[o])' /\ WantedOK(cmd[o])'
      BY <3>1, ZenonT(30) DEF TodoOK, WantedOK, TodoRec, Left
    <3>3. cmd[c].pc \in Inside => cmd[c].dir \in DOMAIN dirs
      BY DEF ExportInv, InsideOK
    <3>4. InsideOK(o)'
      BY <3>1, <3>3, <1>2 DEF InsideOK, Inside
    <3> QED
      BY <3>2, <3>4
  <2> QED
    BY <2>1, <2>2
<1>7. ASSUME NEW d \in DOMAIN dirs' \ overlapped' PROVE DirOK(d)'
  <2>1. DirOK(d) /\ dirs'[d] = dirs[d]
    BY <1>7 DEF ExportInv
  <2>2. ASSUME NEW o \in Cmds, NEW id, Midway(o, d, id) PROVE Midway(o, d, id)'
    <3>1. CASE o = c
      BY <3>1, <2>2, <1>1 DEF Midway
    <3>2. CASE o # c
      BY <3>2, <2>2, <1>1, SameMidway
    <3> QED
      BY <3>1, <3>2
  <2>3. \A id \in Exported(d)' : (Data(id) \in dirs[d] /\ Meta(id) \in dirs[d])'
    BY <2>1, <1>2 DEF DirOK, Data, Meta, File
  <2>4. \A f \in dirs'[d] : f.kind = "data" /\ f.pid = None => f.id \in Exported(d)'
    BY <2>1, <1>2 DEF DirOK
  <2>5. \A f \in dirs'[d] : f.kind = "meta" /\ f.pid = None =>
          f.id \in Exported(d)' \/ \E o \in Cmds : Midway(o, d, f.id)'
    BY <2>1, <2>2, <1>2 DEF DirOK
  <2> QED
    BY <2>3, <2>4, <2>5 DEF DirOK
<1> QED
  BY <1>1, <1>3, <1>4, <1>5, <1>6, <1>7 DEF ExportInv

-----------------------------------------------------------------------------
(* The steps of commands that leave the files of the exports alone.        *)

(* The stages are told apart. *)
LEMMA StageFacts ==
  /\ Early \cap Inside = {} /\ Records \subseteq Inside /\ Writing \subseteq Records
  /\ {"work", "stat", "mkdir", "done", "crashed"} \cap (Early \cup Inside) = {}
  /\ "root" \in Inside /\ "root" \notin Records /\ "record" \in Records
  /\ "record" \notin Writing
  /\ "data tmp" \in Writing /\ "data rename" \in Writing
  BY DEF Early, MapStage, Inside, Records, Writing

LEMMA PlainStep ==
  ASSUME ExportInv, NEW c \in Cmds, cmd[c].pc \in Early, NEW s, Plain(s), Step(c, s),
         UNCHANGED <<storeVars, dirs, overlapped>>, DOMAIN tmp' = DOMAIN tmp
  PROVE  ExportInv'
<1>1. cmd[c].ok = {} /\ cmd[c].pc \notin {"data tmp", "data rename", "crashed"}
  BY StageFacts DEF ExportInv, WantedOK
<1>2. s.pc \notin Inside \cup {"stat", "mkdir"} /\ s.ok = {} /\ DOMAIN s = Fields
  BY StageFacts DEF Plain
<1>3. TodoOK(s)
  BY <1>2, StageFacts DEF Plain, TodoOK
<1>4. WantedOK(s)
  BY <1>2, StageFacts DEF Plain, WantedOK
<1> QED
  BY <1>1, <1>2, <1>3, <1>4, CommandStep, StageFacts

LEMMA SelectingExport ==
  ASSUME ExportInv, NEW c \in Cmds, Selecting(c)
  PROVE  ExportInv'
<1>1. Shape /\ TodoOK(cmd[c]) /\ WantedOK(cmd[c])
  BY DEF ExportInv
<1>2. /\ cmd[c].pc \in Early /\ UNCHANGED <<storeVars, dirs, overlapped>> /\ UNCHANGED Others
      /\ \E s : Step(c, s) /\ Plain(s)
  BY <1>1, SelectingStep
<1> QED
  BY <1>2, PlainStep DEF Others

LEMMA InvokeExport ==
  ASSUME ExportInv, NEW c \in Cmds, NEW o, Invoke(c, o)
  PROVE  ExportInv'
<1>1. /\ cmd[c].pc \in Early /\ UNCHANGED <<storeVars, dirs, overlapped, tmp>>
      /\ \E s : Step(c, s) /\ Plain(s)
  BY InvokeStep DEF Early
<1> QED
  BY <1>1, PlainStep

(* The steps of `ls` that replace the map. *)
Mapping(c) == MapTmp(c) \/ MapWrite(c) \/ MapRename(c) \/ MapFail(c)

LEMMA MappingExport ==
  ASSUME ExportInv, NEW c \in Cmds, Mapping(c)
  PROVE  ExportInv'
<1> DEFINE p == cmd[c]
<1>1. p.pc \in Early /\ p.pc # "done"
  BY DEF Mapping, MapTmp, MapWrite, MapRename, MapFail, At, Early, MapStage
<1>2. Plain(p)
  BY <1>1, PlainEarly DEF ExportInv, Shape
<1>3. \A st : Plain(Done(p, st))
  BY <1>2, PlainDone
<1>4. \A pc \in MapStage : Plain([p EXCEPT !.pc = pc])
  BY <1>1, <1>2 DEF Plain, Fields, Early
<1>5. /\ UNCHANGED <<storeVars, dirs, overlapped>> /\ DOMAIN tmp' = DOMAIN tmp
      /\ \/ \E pc \in MapStage : Step(c, [p EXCEPT !.pc = pc])
         \/ \E st : Step(c, Done(p, st))
  BY DEF Mapping, MapTmp, MapWrite, MapRename, MapFail, MapStage
<1> QED
  BY <1>1, <1>3, <1>4, <1>5, PlainStep

LEMMA CrashExport ==
  ASSUME ExportInv, NEW c \in Cmds, Crash(c)
  PROVE  ExportInv'
<1> DEFINE p == cmd[c]
           s == [p EXCEPT !.pc = "crashed"]
<1>1. /\ Step(c, s) /\ UNCHANGED <<storeVars, dirs, overlapped>> /\ DOMAIN tmp' = DOMAIN tmp
      /\ p.pc # "done"
  BY DEF Crash, Running
<1>2. DOMAIN p = Fields /\ WantedOK(p)
  BY DEF ExportInv, Shape
<1>3. /\ DOMAIN s = Fields /\ s.pc = "crashed" /\ s.ok = p.ok /\ s.dir = p.dir
      /\ s.todo = p.todo /\ s.wanted = p.wanted /\ s.status = p.status
      /\ s.failed = p.failed
  BY <1>2 DEF Fields
<1> HIDE DEF s
<1>4. TodoOK(s)
  BY <1>3, StageFacts DEF TodoOK
<1>5. WantedOK(s)
  BY <1>1, <1>2, <1>3, StageFacts, TaskAssumption DEF WantedOK
<1> QED
  BY <1>1, <1>3, <1>4, <1>5, CommandStep, StageFacts

(* On to the next work. *)
LEMMA NextWorkFacts ==
  ASSUME NEW p, DOMAIN p = Fields
  PROVE  LET s == NextWork(p)
         IN  /\ DOMAIN s = Fields /\ s.pc = "work" /\ s.todo = <<>> /\ s.ok = p.ok
             /\ s.wanted = p.wanted /\ s.failed = p.failed /\ s.status = p.status
  BY DEF NextWork, Fields

LEMMA FailedWorkFacts ==
  ASSUME NEW p, DOMAIN p = Fields
  PROVE  LET s == [NextWork(p) EXCEPT !.failed = TRUE]
         IN  /\ DOMAIN s = Fields /\ s.pc = "work" /\ s.todo = <<>> /\ s.ok = p.ok
             /\ s.wanted = p.wanted /\ s.failed = TRUE /\ s.status = p.status
  BY DEF NextWork, Fields

(* What holds of a command that goes on to its next work. *)
LEMMA AtWork ==
  ASSUME NEW p, WantedOK(p), p.pc # "done", NEW s, s.pc = "work", s.todo = <<>>,
         s.ok = p.ok, s.wanted = p.wanted, s.status = p.status, s.failed \in BOOLEAN,
         ~s.failed => p.wanted = p.ok
  PROVE  TodoOK(s) /\ WantedOK(s)
<1>1. TodoOK(s)
  BY StageFacts DEF TodoOK
<1>2. WantedOK(s)
  BY StageFacts, TaskAssumption DEF WantedOK
<1> QED
  BY <1>1, <1>2

LEMMA BeginWorkExport ==
  ASSUME ExportInv, NEW c \in Cmds, BeginWork(c)
  PROVE  ExportInv'
<1> DEFINE p == cmd[c]
           bad == [NextWork(p) EXCEPT !.failed = TRUE]
           end == Done(p, IF p.failed THEN "error" ELSE "ok")
           go == [p EXCEPT !.pc = "stat", !.dir = <<Head(p.works).root, 0>>]
<1>1. /\ UNCHANGED <<storeVars, dirs, overlapped>> /\ DOMAIN tmp' = DOMAIN tmp
      /\ p.pc = "work" /\ (Step(c, end) \/ Step(c, bad) \/ Step(c, go))
  BY DEF BeginWork, At
<1>2. DOMAIN p = Fields /\ WantedOK(p) /\ TodoOK(p)
  BY DEF ExportInv, Shape
<1>3. p.todo = <<>> /\ p.status = None /\ (~p.failed => p.wanted = p.ok) /\ p.failed \in BOOLEAN
  BY <1>1, <1>2 DEF WantedOK, TodoOK
<1>4. CASE Step(c, end)
  <2>1. /\ DOMAIN end = Fields /\ end.pc = "done" /\ end.ok = p.ok /\ end.todo = p.todo
        /\ end.wanted = p.wanted /\ end.failed = p.failed
        /\ end.status = IF p.failed THEN "error" ELSE "ok"
    BY <1>2 DEF Done, Fields
  <2> HIDE DEF end
  <2>2. TodoOK(end) /\ WantedOK(end)
    BY <2>1, <1>3, StageFacts DEF TodoOK, WantedOK
  <2> QED
    BY <1>1, <1>4, <2>1, <2>2, CommandStep, StageFacts
<1>5. CASE Step(c, bad)
  <2>1. /\ DOMAIN bad = Fields /\ bad.pc = "work" /\ bad.todo = <<>> /\ bad.ok = p.ok
        /\ bad.wanted = p.wanted /\ bad.failed = TRUE /\ bad.status = p.status
    BY <1>2, FailedWorkFacts
  <2> HIDE DEF bad
  <2>2. TodoOK(bad) /\ WantedOK(bad)
    BY <2>1, <1>1, <1>2, AtWork
  <2> QED
    BY <1>1, <1>5, <2>1, <2>2, CommandStep, StageFacts
<1>6. CASE Step(c, go)
  <2>1. /\ DOMAIN go = Fields /\ go.pc = "stat" /\ go.ok = p.ok /\ go.todo = p.todo
        /\ go.wanted = p.wanted /\ go.failed = p.failed /\ go.status = p.status
    BY <1>2 DEF Fields
  <2> HIDE DEF go
  <2>2. TodoOK(go)
    BY <2>1, <1>3, StageFacts DEF TodoOK
  <2>3. WantedOK(go)
    BY <2>1, <1>3, StageFacts, TaskAssumption DEF WantedOK
  <2> QED
    BY <1>1, <1>6, <2>1, <2>2, <2>3, CommandStep, StageFacts
<1> QED
  BY <1>1, <1>4, <1>5, <1>6

-----------------------------------------------------------------------------
(* A directory is picked.                                                  *)

(* An export goes into a directory that was empty, was made for it or is   *)
(* marked as shared.                                                       *)
LEMMA EnterExport ==
  ASSUME ExportInv, NEW c \in Cmds, cmd[c].pc \in {"stat", "mkdir"},
         Step(c, [cmd[c] EXCEPT !.pc = "root"]), Picked(c, cmd[c].dir),
         UNCHANGED storeVars, UNCHANGED tmp,
         DOMAIN dirs' = DOMAIN dirs \cup {cmd[c].dir},
         \A d \in DOMAIN dirs : dirs'[d] = dirs[d],
         cmd[c].dir \notin DOMAIN dirs => dirs'[cmd[c].dir] = {},
         cmd[c].dir \in DOMAIN dirs => dirs[cmd[c].dir] = {} \/ cmd[c].dir \in overlapped
  PROVE  ExportInv'
<1> DEFINE p == cmd[c]
           s == [p EXCEPT !.pc = "root"]
<1>1. DOMAIN p = Fields /\ WantedOK(p) /\ TodoOK(p)
  BY DEF ExportInv, Shape
<1>2. /\ DOMAIN s = Fields /\ s.pc = "root" /\ s.ok = p.ok /\ s.todo = p.todo /\ s.dir = p.dir
      /\ s.wanted = p.wanted /\ s.failed = p.failed /\ s.status = p.status
  BY <1>1 DEF Fields
<1> HIDE DEF s
<1>3. Shape' /\ cmd'[c] = s /\ \A o \in Cmds \ {c} : cmd'[o] = cmd[o]
  BY <1>2, StepFacts DEF ExportInv, s
<1>4. \A d : Exported(d)' = Exported(d)
  BY <1>2, <1>3, SameExports
<1>5. /\ overlapped \subseteq overlapped' /\ overlapped' \subseteq overlapped \cup {p.dir}
      /\ \A o \in Cmds \ {c} : cmd[o].pc \in Inside \cup {"mkdir"} /\ cmd[o].dir = p.dir
                                 => p.dir \in overlapped'
  <2>1. \A o \in Cmds : cmd[o].pc \in Inside \cup {"mkdir"} => Running(o) /\ ~At(o, "stat")
    BY StageFacts DEF Running, At, Early, Inside, Records, Writing
  <2> QED
    BY <2>1 DEF Picked
<1>6. StoreOK'
  BY SameStore DEF ExportInv
<1>7. FilesOK'
  <2>1. \A d \in DOMAIN dirs' : \A f \in dirs'[d] : f = File(f.kind, f.id, f.pid)
    BY DEF ExportInv, FilesOK
  <2>2. \A o \in Cmds : cmd'[o].ok = cmd[o].ok
    BY <1>2, <1>3
  <2> QED
    BY <2>1, <2>2 DEF ExportInv, FilesOK, File
<1>8. OneInside'
  BY <1>2, <1>3, <1>5 DEF ExportInv, OneInside
<1>9. TodoOK(s)
  BY <1>1, <1>2, StageFacts DEF TodoOK
<1>10. WantedOK(s)
  BY <1>1, <1>2, StageFacts, TaskAssumption DEF WantedOK
<1>11. ASSUME NEW o \in Cmds
       PROVE  TodoOK(cmd[o])' /\ WantedOK(cmd[o])' /\ InsideOK(o)'
  <2>1. CASE o # c
    <3>1. cmd'[o] = cmd[o]
      BY <1>3, <2>1
    <3>2. TodoOK(cmd[o]) /\ WantedOK(cmd[o]) /\ InsideOK(o)
      BY DEF ExportInv
    <3>3. TodoOK(cmd[o])'
      BY <3>1, <3>2 DEF TodoOK, TodoRec
    <3>4. WantedOK(cmd[o])'
      BY <3>1, <3>2 DEF WantedOK, Left
    <3>5. cmd[o].pc = "mkdir" /\ cmd[o].dir \in DOMAIN dirs' => cmd[o].dir \in overlapped'
      BY <3>2, <1>5, <2>1 DEF InsideOK
    <3>6. cmd[o].pc = "root" /\ cmd[o].dir \notin overlapped' => dirs'[cmd[o].dir] = {}
      BY <3>2, <1>5, StageFacts DEF InsideOK
    <3>7. cmd[o].pc \in Records /\ cmd[o].dir \notin overlapped' =>
            \A i \in DOMAIN cmd[o].todo : cmd[o].todo[i].id \notin Exported(cmd[o].dir)
      BY <3>2, <1>5 DEF InsideOK
    <3>8. cmd[o].pc \in {"data tmp", "data rename"} /\ cmd[o].dir \notin overlapped' =>
            Meta(Head(cmd[o].todo).id) \in dirs'[cmd[o].dir]
      BY <3>2, <1>5, StageFacts DEF InsideOK
    <3>9. cmd[o].pc \in Inside => cmd[o].dir \in DOMAIN dirs'
      BY <3>2 DEF InsideOK
    <3>10. InsideOK(o)'
      BY <3>1, <3>5, <3>6, <3>7, <3>8, <3>9, <1>4 DEF InsideOK, Meta, File
    <3> QED
      BY <3>3, <3>4, <3>10
  <2>2. CASE o = c
    <3>1. cmd'[o] = s
      BY <1>3, <2>2
    <3>2. TodoOK(cmd[o])'
      BY <3>1, <1>9 DEF TodoOK, TodoRec
    <3>3. WantedOK(cmd[o])'
      BY <3>1, <1>10 DEF WantedOK, Left
    <3>4. InsideOK(o)'
      BY <3>1, <1>2, <1>5, StageFacts DEF InsideOK
    <3> QED
      BY <3>2, <3>3, <3>4
  <2> QED
    BY <2>1, <2>2
<1>12. ASSUME NEW d \in DOMAIN dirs' \ overlapped' PROVE DirOK(d)'
  <2>1. CASE d \in DOMAIN dirs
    <3>1. DirOK(d) /\ dirs'[d] = dirs[d]
      BY <1>5, <1>12, <2>1 DEF ExportInv
    <3>2. ASSUME NEW o \in Cmds, NEW id, Midway(o, d, id) PROVE Midway(o, d, id)'
      <4>1. o # c
        BY <3>2 DEF Midway
      <4> QED
        BY <4>1, <3>2, <1>3, SameMidway
    <3>3. \A id \in Exported(d)' : (Data(id) \in dirs[d] /\ Meta(id) \in dirs[d])'
      BY <3>1, <1>4 DEF DirOK, Data, Meta, File
    <3>4. \A f \in dirs'[d] : f.kind = "data" /\ f.pid = None => f.id \in Exported(d)'
      BY <3>1, <1>4 DEF DirOK
    <3>5. \A f \in dirs'[d] : f.kind = "meta" /\ f.pid = None =>
            f.id \in Exported(d)' \/ \E o \in Cmds : Midway(o, d, f.id)'
      BY <3>1, <3>2, <1>4 DEF DirOK
    <3> QED
      BY <3>3, <3>4, <3>5 DEF DirOK
  <2>2. CASE d \notin DOMAIN dirs
    <3>1. dirs'[d] = {}
      BY <1>12, <2>2
    <3>2. Exported(d) = {}
      BY <2>2 DEF ExportInv, FilesOK, Exported
    <3>3. Exported(d)' = {}
      BY <3>2, <1>4
    <3> QED
      BY <3>1, <3>3 DEF DirOK
  <2> QED
    BY <2>1, <2>2
<1> QED
  BY <1>3, <1>6, <1>7, <1>8, <1>11, <1>12 DEF ExportInv

LEMMA PickMkdirExport ==
  ASSUME ExportInv, NEW c \in Cmds, PickMkdir(c)
  PROVE  ExportInv'
<1>1. /\ cmd[c].pc = "mkdir" /\ Step(c, [cmd[c] EXCEPT !.pc = "root"])
      /\ Picked(c, cmd[c].dir) /\ UNCHANGED storeVars /\ UNCHANGED tmp
      /\ dirs' = [d \in DOMAIN dirs \cup {cmd[c].dir} |->
                    IF d \in DOMAIN dirs THEN dirs[d] ELSE {}]
  BY DEF PickMkdir, At
<1>2. /\ DOMAIN dirs' = DOMAIN dirs \cup {cmd[c].dir}
      /\ \A d \in DOMAIN dirs : dirs'[d] = dirs[d]
      /\ cmd[c].dir \notin DOMAIN dirs => dirs'[cmd[c].dir] = {}
  BY <1>1
<1>3. cmd[c].dir \in DOMAIN dirs => cmd[c].dir \in overlapped
  BY <1>1 DEF ExportInv, InsideOK
<1> QED
  BY <1>1, <1>2, <1>3, EnterExport

LEMMA PickStatExport ==
  ASSUME ExportInv, NEW c \in Cmds, PickStat(c)
  PROVE  ExportInv'
<1> DEFINE p == cmd[c]
           mk == [p EXCEPT !.pc = "mkdir"]
           next == [p EXCEPT !.dir[2] = @ + 1]
           bad == [NextWork(p) EXCEPT !.failed = TRUE]
<1>1. p.pc = "stat" /\ UNCHANGED <<storeVars, tmp, dirs>>
  BY DEF PickStat, At
<1>2. DOMAIN p = Fields /\ WantedOK(p) /\ TodoOK(p)
  BY DEF ExportInv, Shape
<1>3. p.todo = <<>> /\ p.status = None /\ (~p.failed => p.wanted = p.ok) /\ p.failed \in BOOLEAN
  BY <1>1, <1>2 DEF WantedOK, TodoOK
<1>4. CASE p.dir \notin DOMAIN dirs /\ Step(c, mk) /\ UNCHANGED overlapped
  <2>1. /\ DOMAIN mk = Fields /\ mk.pc = "mkdir" /\ mk.ok = p.ok /\ mk.todo = p.todo
        /\ mk.wanted = p.wanted /\ mk.failed = p.failed /\ mk.status = p.status
        /\ mk.dir = p.dir
    BY <1>2 DEF Fields
  <2> HIDE DEF mk
  <2>2. TodoOK(mk)
    BY <2>1, <1>3, StageFacts DEF TodoOK
  <2>3. WantedOK(mk)
    BY <2>1, <1>3, StageFacts, TaskAssumption DEF WantedOK
  <2> QED
    BY <1>1, <1>4, <2>1, <2>2, <2>3, CommandStep, StageFacts
<1>5. CASE p.dir \in DOMAIN dirs /\ dirs[p.dir] = {} /\ Picked(c, p.dir)
           /\ Step(c, [p EXCEPT !.pc = "root"])
  BY <1>1, <1>5, EnterExport
<1>6. CASE Step(c, next) /\ UNCHANGED overlapped
  <2>1. /\ DOMAIN next = Fields /\ next.pc = "stat" /\ next.ok = p.ok /\ next.todo = p.todo
        /\ next.wanted = p.wanted /\ next.failed = p.failed /\ next.status = p.status
    BY <1>1, <1>2 DEF Fields
  <2> HIDE DEF next
  <2>2. TodoOK(next)
    BY <2>1, <1>3, StageFacts DEF TodoOK
  <2>3. WantedOK(next)
    BY <2>1, <1>3, StageFacts, TaskAssumption DEF WantedOK
  <2> QED
    BY <1>1, <1>6, <2>1, <2>2, <2>3, CommandStep, StageFacts
<1>7. CASE Step(c, bad) /\ UNCHANGED overlapped
  <2>1. /\ DOMAIN bad = Fields /\ bad.pc = "work" /\ bad.todo = <<>> /\ bad.ok = p.ok
        /\ bad.wanted = p.wanted /\ bad.failed = TRUE /\ bad.status = p.status
    BY <1>2, FailedWorkFacts
  <2> HIDE DEF bad
  <2>2. TodoOK(bad) /\ WantedOK(bad)
    BY <2>1, <1>1, <1>2, AtWork
  <2> QED
    BY <1>1, <1>7, <2>1, <2>2, CommandStep, StageFacts
<1> QED
  BY <1>4, <1>5, <1>6, <1>7 DEF PickStat

-----------------------------------------------------------------------------
(* The records of a work.                                                  *)

(* The list of a root and its members, b telling which of them pass. *)
TodoOf(root, ms, b) ==
  <<[id |-> root, root |-> TRUE, pass |-> TRUE]>> \o
    [m \in DOMAIN ms |-> [id |-> ms[m], root |-> FALSE, pass |-> b[m]]]

WantedOf(d, root, ms, b) ==
  {<<d, root>>} \cup {<<d, ms[m]>> : m \in {k \in DOMAIN ms : b[k]}}

(* They are different records, and what is left of the list is what the    *)
(* work wants.                                                             *)
LEMMA TodoFacts ==
  ASSUME NEW root, NEW ms, MemberList(root, ms), NEW b \in [DOMAIN ms -> BOOLEAN], NEW d
  PROVE  LET todo == TodoOf(root, ms, b)
         IN  /\ todo \in Seq([id : TaskIds \cup {root}, root : BOOLEAN, pass : BOOLEAN])
             /\ \A i, j \in DOMAIN todo : i # j => todo[i].id # todo[j].id
             /\ Left(d, todo) = WantedOf(d, root, ms, b)
<1> DEFINE todo == TodoOf(root, ms, b)
           R == [id : TaskIds \cup {root}, root : BOOLEAN, pass : BOOLEAN]
           x == [id |-> root, root |-> TRUE, pass |-> TRUE]
           y(m) == [id |-> ms[m], root |-> FALSE, pass |-> b[m]]
           rest == [m \in DOMAIN ms |-> y(m)]
           n == Len(ms)
<1>1. n \in Nat /\ DOMAIN ms = 1..n /\ \A m \in 1..n : ms[m] \in TaskIds
  BY LenProperties, ElementOfSeq DEF MemberList
<1>2. x \in R /\ \A m \in 1..n : y(m) \in R
  BY <1>1
<1> HIDE DEF R, n, todo
<1>3. rest \in Seq(R) /\ Len(rest) = n
  <2>1. rest \in [1..n -> R] /\ DOMAIN rest = 1..n
    BY <1>1, <1>2
  <2>2. rest \in Seq(R)
    BY <1>1, <2>1, SeqDef
  <2> HIDE DEF rest
  <2>3. Len(rest) = n
    BY <2>1, <2>2, <1>1, LenProperties
  <2> QED
    BY <2>2, <2>3
<1> DEFINE one == <<x>>
<1>4. one \in Seq(R) /\ Len(one) = 1 /\ one[1] = x
  BY <1>2
<1>5. /\ todo \in Seq(R) /\ Len(todo) = 1 + n
      /\ \A i \in 1..(1 + n) : todo[i] = IF i <= 1 THEN one[i] ELSE rest[i - 1]
  <2>1. todo = one \o rest
    BY DEF TodoOf, todo
  <2> HIDE DEF rest, one
  <2>2. /\ one \o rest \in Seq(R) /\ Len(one \o rest) = Len(one) + Len(rest)
        /\ \A i \in 1..(Len(one) + Len(rest)) :
             (one \o rest)[i] = IF i <= Len(one) THEN one[i] ELSE rest[i - Len(one)]
    BY <1>3, <1>4, ConcatProperties
  <2> QED
    BY <2>1, <2>2, <1>3, <1>4
<1>6. DOMAIN todo = 1..(1 + n) /\ todo[1] = x /\ \A i \in 2..(1 + n) : todo[i] = y(i - 1)
  <2>1. DOMAIN todo = 1..(1 + n)
    BY <1>5, LenProperties
  <2>2. todo[1] = x
    <3> HIDE DEF one
    <3>1. 1 \in 1..(1 + n) /\ 1 <= 1
      BY <1>1
    <3> QED
      BY <3>1, <1>4, <1>5
  <2>3. ASSUME NEW i \in 2..(1 + n) PROVE todo[i] = y(i - 1)
    <3>1. i \in 1..(1 + n) /\ ~(i <= 1) /\ i - 1 \in 1..n
      BY <1>1
    <3> HIDE DEF y
    <3>2. todo[i] = rest[i - 1]
      BY <3>1, <1>5
    <3> QED
      BY <3>1, <3>2, <1>1
  <2> QED
    BY <2>1, <2>2, <2>3
<1>7. /\ todo[1].id = root /\ todo[1].pass = TRUE
      /\ \A i \in 2..(1 + n) : todo[i].id = ms[i - 1] /\ todo[i].pass = b[i - 1]
  <2>1. todo[1].id = root /\ todo[1].pass = TRUE
    BY <1>6
  <2>2. \A m : y(m).id = ms[m] /\ y(m).pass = b[m]
    OBVIOUS
  <2> HIDE DEF y
  <2> QED
    BY <2>1, <2>2, <1>6
<1>8. ASSUME NEW i \in DOMAIN todo, NEW j \in DOMAIN todo, i # j
      PROVE  todo[i].id # todo[j].id
  <2>1. \A m \in 1..n : ms[m] # root /\ \A k \in 1..n : m # k => ms[m] # ms[k]
    BY <1>1 DEF MemberList
  <2>2. CASE i = 1
    <3>1. j \in 2..(1 + n) /\ j - 1 \in 1..n
      BY <1>1, <1>6, <1>8, <2>2
    <3> QED
      BY <3>1, <2>1, <2>2, <1>7
  <2>3. CASE j = 1
    <3>1. i \in 2..(1 + n) /\ i - 1 \in 1..n
      BY <1>1, <1>6, <1>8, <2>3
    <3> QED
      BY <3>1, <2>1, <2>3, <1>7
  <2>4. CASE i # 1 /\ j # 1
    <3>1. /\ i \in 2..(1 + n) /\ i - 1 \in 1..n /\ j \in 2..(1 + n) /\ j - 1 \in 1..n
          /\ i - 1 # j - 1
      BY <1>1, <1>6, <1>8, <2>4
    <3> QED
      BY <3>1, <2>1, <1>7
  <2> QED
    BY <2>2, <2>3, <2>4
<1>9. Left(d, todo) = WantedOf(d, root, ms, b)
  <2>1. ASSUME NEW z \in Left(d, todo)
        PROVE  z \in WantedOf(d, root, ms, b)
    <3>1. PICK i \in DOMAIN todo : todo[i].pass /\ z = <<d, todo[i].id>>
      BY <2>1 DEF Left
    <3>2. CASE i = 1
      BY <3>1, <3>2, <1>7 DEF WantedOf
    <3>3. CASE i # 1
      <4>1. i \in 2..(1 + n) /\ i - 1 \in DOMAIN ms
        BY <3>3, <1>1, <1>6
      <4>2. b[i - 1] /\ z = <<d, ms[i - 1]>>
        BY <4>1, <3>1, <1>7
      <4> QED
        BY <4>1, <4>2 DEF WantedOf
    <3> QED
      BY <3>2, <3>3
  <2>2. <<d, root>> \in Left(d, todo)
    <3>1. 1 \in DOMAIN todo
      BY <1>1, <1>6
    <3> QED
      BY <3>1, <1>7 DEF Left
  <2>3. ASSUME NEW m \in DOMAIN ms, b[m] PROVE <<d, ms[m]>> \in Left(d, todo)
    <3>1. m + 1 \in 2..(1 + n) /\ (m + 1) - 1 = m /\ m + 1 \in DOMAIN todo
      BY <1>1, <1>6
    <3>2. todo[m + 1].id = ms[m] /\ todo[m + 1].pass = b[m]
      BY <3>1, <1>7
    <3> QED
      BY <3>1, <3>2, <2>3 DEF Left
  <2> QED
    BY <2>1, <2>2, <2>3 DEF WantedOf
<1> QED
  BY <1>5, <1>8, <1>9 DEF R, todo

LEMMA WantsFacts ==
  ASSUME NEW opts, NEW ms, NEW m PROVE Wants(opts, ms, m) \in BOOLEAN
  BY DEF Wants

LEMMA ReadRootExport ==
  ASSUME ExportInv, NEW c \in Cmds, ReadRoot(c)
  PROVE  ExportInv'
<1> DEFINE p == cmd[c]
           w == Head(p.works)
           ms == IF ~w.single /\ ConfirmCapsule(w.root) THEN ReadCapsuleMembers(w.root)
                 ELSE <<>>
           b == [m \in DOMAIN ms |-> Wants(p.opts, ms, m)]
           todo == TodoOf(w.root, ms, b)
           want == p.wanted \cup WantedOf(p.dir, w.root, ms, b)
           bad == [NextWork(p) EXCEPT !.failed = TRUE]
           go == [p EXCEPT !.pc = "record", !.todo = todo, !.wanted = want]
<1>1. /\ p.pc = "root" /\ UNCHANGED <<storeVars, dirs, overlapped>> /\ UNCHANGED tmp
      /\ Step(c, bad) \/ Step(c, go)
  <2>1. TodoOf(w.root, ms, b) =
          <<[id |-> w.root, root |-> TRUE, pass |-> TRUE]>> \o
            [m \in DOMAIN ms |->
               [id |-> ms[m], root |-> FALSE, pass |-> Wants(p.opts, ms, m)]]
    BY DEF TodoOf
  <2>2. want = p.wanted \cup {<<p.dir, w.root>>} \cup
          {<<p.dir, ms[m]>> : m \in {k \in DOMAIN ms : Wants(p.opts, ms, k)}}
    BY DEF WantedOf
  <2> QED
    BY <2>1, <2>2 DEF ReadRoot, At
<1>2. DOMAIN p = Fields /\ WantedOK(p) /\ TodoOK(p) /\ InsideOK(c)
  BY DEF ExportInv, Shape
<1>3. p.status = None /\ (~p.failed => p.wanted = p.ok) /\ p.failed \in BOOLEAN
  BY <1>1, <1>2 DEF WantedOK
<1>4. MemberList(w.root, ms)
  <2>1. MemberList(w.root, <<>>)
    BY DEF MemberList
  <2>2. w.root \in DOMAIN member => MemberList(w.root, member[w.root])
    BY DEF ExportInv, StoreOK
  <2> QED
    BY <2>1, <2>2 DEF ReadCapsuleMembers
<1>5. CASE Step(c, bad)
  <2>1. /\ DOMAIN bad = Fields /\ bad.pc = "work" /\ bad.todo = <<>> /\ bad.ok = p.ok
        /\ bad.wanted = p.wanted /\ bad.failed = TRUE /\ bad.status = p.status
    BY <1>2, FailedWorkFacts
  <2> HIDE DEF bad
  <2>2. TodoOK(bad) /\ WantedOK(bad)
    BY <2>1, <1>1, <1>2, AtWork
  <2> QED
    BY <1>1, <1>5, <2>1, <2>2, CommandStep, StageFacts
<1>6. CASE Step(c, go)
  <2> HIDE DEF ms
  <2>1. b \in [DOMAIN ms -> BOOLEAN]
    BY WantsFacts
  <2> HIDE DEF b, w
  <2>2. /\ todo \in Seq([id : TaskIds \cup {w.root}, root : BOOLEAN, pass : BOOLEAN])
        /\ \A i, j \in DOMAIN todo : i # j => todo[i].id # todo[j].id
        /\ want = p.wanted \cup Left(p.dir, todo)
    <3> DEFINE r == w.root
               d == p.dir
    <3>1. MemberList(r, ms)
      BY <1>4
    <3> HIDE DEF r, d
    <3>2. /\ TodoOf(r, ms, b) \in
               Seq([id : TaskIds \cup {r}, root : BOOLEAN, pass : BOOLEAN])
          /\ \A i, j \in DOMAIN TodoOf(r, ms, b) :
               i # j => TodoOf(r, ms, b)[i].id # TodoOf(r, ms, b)[j].id
          /\ Left(d, TodoOf(r, ms, b)) = WantedOf(d, r, ms, b)
      BY <3>1, <2>1, TodoFacts
    <3> QED
      BY <3>2 DEF r, d
  <2> HIDE DEF todo, want
  <2>3. /\ DOMAIN go = Fields /\ go.pc = "record" /\ go.ok = p.ok /\ go.todo = todo
        /\ go.wanted = want /\ go.failed = p.failed /\ go.status = p.status
        /\ go.dir = p.dir /\ go.works = p.works
    BY <1>2 DEF Fields
  <2> HIDE DEF go
  <2>4. TodoOK(go)
    BY <2>2, <2>3, StageFacts DEF TodoOK, TodoRec, w
  <2>5. WantedOK(go)
    BY <2>2, <2>3, <1>3, StageFacts, TaskAssumption DEF WantedOK
  <2>6. p.dir \notin overlapped => Exported(p.dir) = {}
    <3>1. SUFFICES ASSUME p.dir \notin overlapped PROVE Exported(p.dir) = {}
      OBVIOUS
    <3>2. p.dir \in DOMAIN dirs /\ dirs[p.dir] = {}
      BY <3>1, <1>1, <1>2, StageFacts DEF InsideOK
    <3>3. DirOK(p.dir)
      BY <3>1, <3>2 DEF ExportInv
    <3> QED
      BY <3>2, <3>3 DEF DirOK
  <2> QED
    BY <1>1, <1>6, <2>3, <2>4, <2>5, <2>6, CommandStep, StageFacts
<1> QED
  BY <1>1, <1>5, <1>6

(* The list without its first record. *)
LEMMA TailOK ==
  ASSUME NEW p, TodoOK(p), p.pc \in Records, p.todo # <<>>
  PROVE  /\ Tail(p.todo) \in Seq(TodoRec(p))
         /\ \A i, j \in DOMAIN Tail(p.todo) :
              i # j => Tail(p.todo)[i].id # Tail(p.todo)[j].id
         /\ \A i \in DOMAIN Tail(p.todo) :
              /\ Tail(p.todo)[i].id # Head(p.todo).id
              /\ \E j \in DOMAIN p.todo : Tail(p.todo)[i] = p.todo[j]
         /\ \A d : Left(d, p.todo) = Left(d, Tail(p.todo)) \cup
                     IF Head(p.todo).pass THEN {<<d, Head(p.todo).id>>} ELSE {}
<1>1. p.todo \in Seq(TodoRec(p)) /\ \A i, j \in DOMAIN p.todo : i # j => p.todo[i].id # p.todo[j].id
  BY DEF TodoOK
<1> DEFINE q == p.todo
           S == TodoRec(p)
<1> HIDE DEF S, q
<1>2. /\ 1 \in DOMAIN q /\ Head(q) = q[1] /\ Tail(q) \in Seq(S)
      /\ \A j \in DOMAIN Tail(q) : /\ j + 1 \in DOMAIN q /\ j + 1 # 1
                                   /\ Tail(q)[j] = q[j + 1]
      /\ \A i, j \in DOMAIN Tail(q) : i # j => i + 1 # j + 1
  BY <1>1, TailFacts DEF q, S
<1>3. \A d : Left(d, q) = Left(d, Tail(q)) \cup
               IF Head(q).pass THEN {<<d, Head(q).id>>} ELSE {}
  BY <1>1, LeftTail DEF q, S
<1>4. \A i, j \in DOMAIN q : i # j => q[i].id # q[j].id
  BY <1>1 DEF q
<1>5. \A i, j \in DOMAIN Tail(q) : i # j => Tail(q)[i].id # Tail(q)[j].id
  BY <1>2, <1>4
<1>6. \A i \in DOMAIN Tail(q) : /\ Tail(q)[i].id # Head(q).id
                                /\ \E j \in DOMAIN q : Tail(q)[i] = q[j]
  BY <1>2, <1>4
<1> QED
  BY <1>2, <1>3, <1>5, <1>6 DEF q, S

(* The record at the head has been exported, or has failed. *)
LEMMA AfterFacts ==
  ASSUME NEW p, DOMAIN p = Fields, TodoOK(p), WantedOK(p), p.pc \in Records,
         p.todo # <<>>, NEW good \in BOOLEAN, good => Head(p.todo).pass
  PROVE  LET s == AfterRecord(p, good)
         IN  /\ DOMAIN s = Fields /\ TodoOK(s) /\ WantedOK(s)
             /\ s.pc \in {"work", "record"} /\ (s.pc = "record" => s.dir = p.dir)
             /\ s.ok = IF good THEN p.ok \cup {<<p.dir, Head(p.todo).id>>} ELSE p.ok
             /\ s.pc = "record" => s.todo = Tail(p.todo)
<1> DEFINE bad == [NextWork(p) EXCEPT !.failed = TRUE]
           go == [p EXCEPT !.pc = "record", !.todo = Tail(@), !.failed = @ \/ ~good,
                    !.ok = IF good THEN @ \cup {<<p.dir, Head(p.todo).id>>} ELSE @]
<1>1. /\ p.status = None /\ p.failed \in BOOLEAN /\ p.pc # "done"
      /\ ~p.failed => p.wanted = p.ok \cup Left(p.dir, p.todo)
  BY StageFacts DEF WantedOK
<1>2. CASE Head(p.todo).root /\ ~good
  <2>1. AfterRecord(p, good) = bad
    BY <1>2 DEF AfterRecord
  <2>2. /\ DOMAIN bad = Fields /\ bad.pc = "work" /\ bad.todo = <<>> /\ bad.ok = p.ok
        /\ bad.wanted = p.wanted /\ bad.failed = TRUE /\ bad.status = p.status
    BY FailedWorkFacts
  <2> HIDE DEF bad
  <2>3. TodoOK(bad) /\ WantedOK(bad)
    BY <2>2, <1>1, AtWork
  <2> QED
    BY <2>1, <2>2, <2>3, <1>2
<1>3. CASE ~(Head(p.todo).root /\ ~good)
  <2>1. AfterRecord(p, good) = go
    BY <1>3 DEF AfterRecord
  <2>2. /\ DOMAIN go = Fields /\ go.pc = "record" /\ go.todo = Tail(p.todo)
        /\ go.ok = IF good THEN p.ok \cup {<<p.dir, Head(p.todo).id>>} ELSE p.ok
        /\ go.wanted = p.wanted /\ go.status = p.status /\ go.dir = p.dir
        /\ go.works = p.works /\ go.failed = (p.failed \/ ~good)
    BY DEF Fields
  <2> HIDE DEF go
  <2>3. TodoRec(go) = TodoRec(p)
    BY <2>2 DEF TodoRec
  <2>4. TodoOK(go)
    <3>1. /\ Tail(p.todo) \in Seq(TodoRec(p))
          /\ \A i, j \in DOMAIN Tail(p.todo) :
               i # j => Tail(p.todo)[i].id # Tail(p.todo)[j].id
      BY TailOK
    <3> QED
      BY <3>1, <2>2, <2>3, StageFacts, ZenonT(30) DEF TodoOK
  <2>5. go.failed \in BOOLEAN /\ (~go.failed => good /\ ~p.failed)
    BY <2>2, <1>1
  <2>6. ~go.failed => go.wanted = go.ok \cup Left(go.dir, go.todo)
    <3>1. Left(p.dir, p.todo) = Left(p.dir, Tail(p.todo)) \cup
            IF Head(p.todo).pass THEN {<<p.dir, Head(p.todo).id>>} ELSE {}
      BY TailOK
    <3> QED
      BY <3>1, <2>2, <2>5, <1>1
  <2>7. WantedOK(go)
    BY <2>2, <2>5, <2>6, <1>1, StageFacts, TaskAssumption DEF WantedOK
  <2> QED
    BY <2>1, <2>2, <2>4, <2>7
<1> QED
  BY <1>2, <1>3

LEMMA ReadRecordExport ==
  ASSUME ExportInv, NEW c \in Cmds, ReadRecord(c)
  PROVE  ExportInv'
<1> DEFINE p == cmd[c]
           t == Head(p.todo)
           next == NextWork(p)
           aft == AfterRecord(p, FALSE)
           skip == [p EXCEPT !.todo = Tail(@)]
           go == [p EXCEPT !.pc = "meta tmp"]
<1>1. /\ p.pc = "record" /\ UNCHANGED <<storeVars, dirs, overlapped>> /\ UNCHANGED tmp
      /\ \/ p.todo = <<>> /\ Step(c, next)
         \/ p.todo # <<>> /\ Step(c, aft)
         \/ p.todo # <<>> /\ ~t.pass /\ Step(c, skip)
         \/ p.todo # <<>> /\ Readable(t.id) /\ t.pass /\ Step(c, go)
  BY DEF ReadRecord, At
<1>2. DOMAIN p = Fields /\ WantedOK(p) /\ TodoOK(p) /\ InsideOK(c) /\ p.pc \in Records
  BY <1>1, StageFacts DEF ExportInv, Shape
<1>3. /\ p.status = None /\ p.failed \in BOOLEAN /\ p.pc # "done"
      /\ ~p.failed => p.wanted = p.ok \cup Left(p.dir, p.todo)
  BY <1>1, <1>2 DEF WantedOK
<1>4. p.dir \notin overlapped => \A i \in DOMAIN p.todo : p.todo[i].id \notin Exported(p.dir)
  BY <1>2 DEF InsideOK
<1>5. CASE p.todo = <<>> /\ Step(c, next)
  <2>1. /\ DOMAIN next = Fields /\ next.pc = "work" /\ next.todo = <<>> /\ next.ok = p.ok
        /\ next.wanted = p.wanted /\ next.failed = p.failed /\ next.status = p.status
    BY <1>2, NextWorkFacts
  <2> HIDE DEF next
  <2>2. ~p.failed => p.wanted = p.ok
    BY <1>3, <1>5, LeftEmpty
  <2>3. TodoOK(next) /\ WantedOK(next)
    BY <2>1, <2>2, <1>2, <1>3, AtWork
  <2> QED
    BY <1>1, <1>5, <2>1, <2>3, CommandStep, StageFacts
<1>6. CASE p.todo # <<>> /\ Step(c, aft)
  <2>1. /\ DOMAIN aft = Fields /\ TodoOK(aft) /\ WantedOK(aft)
        /\ aft.pc \in {"work", "record"} /\ (aft.pc = "record" => aft.dir = p.dir)
        /\ aft.ok = p.ok /\ (aft.pc = "record" => aft.todo = Tail(p.todo))
    BY <1>2, <1>6, AfterFacts
  <2> HIDE DEF aft
  <2>2. p.dir \notin overlapped =>
          \A i \in DOMAIN Tail(p.todo) : Tail(p.todo)[i].id \notin Exported(p.dir)
    BY <1>2, <1>4, <1>6, TailOK
  <2>3. aft.pc \in Records => aft.pc = "record"
    BY <2>1, StageFacts
  <2> QED
    BY <1>1, <1>6, <2>1, <2>2, <2>3, CommandStep, StageFacts
<1>7. CASE p.todo # <<>> /\ ~t.pass /\ Step(c, skip)
  <2>1. /\ DOMAIN skip = Fields /\ skip.pc = "record" /\ skip.todo = Tail(p.todo)
        /\ skip.ok = p.ok /\ skip.wanted = p.wanted /\ skip.status = p.status
        /\ skip.dir = p.dir /\ skip.works = p.works /\ skip.failed = p.failed
    BY <1>1, <1>2 DEF Fields
  <2> HIDE DEF skip
  <2>2. TodoRec(skip) = TodoRec(p)
    BY <2>1 DEF TodoRec
  <2>3. TodoOK(skip)
    <3>1. /\ Tail(p.todo) \in Seq(TodoRec(p))
          /\ \A i, j \in DOMAIN Tail(p.todo) :
               i # j => Tail(p.todo)[i].id # Tail(p.todo)[j].id
      BY <1>2, <1>7, TailOK
    <3> QED
      BY <3>1, <2>1, <2>2, StageFacts DEF TodoOK
  <2>4. Left(p.dir, p.todo) = Left(p.dir, Tail(p.todo))
    BY <1>2, <1>7, TailOK
  <2>5. WantedOK(skip)
    BY <2>1, <2>4, <1>3, StageFacts, TaskAssumption DEF WantedOK
  <2>6. p.dir \notin overlapped =>
          \A i \in DOMAIN Tail(p.todo) : Tail(p.todo)[i].id \notin Exported(p.dir)
    BY <1>2, <1>4, <1>7, TailOK
  <2> QED
    BY <1>1, <1>7, <2>1, <2>3, <2>5, <2>6, CommandStep, StageFacts
<1>8. CASE p.todo # <<>> /\ Readable(t.id) /\ t.pass /\ Step(c, go)
  <2>1. /\ DOMAIN go = Fields /\ go.pc = "meta tmp" /\ go.todo = p.todo
        /\ go.ok = p.ok /\ go.wanted = p.wanted /\ go.status = p.status
        /\ go.dir = p.dir /\ go.works = p.works /\ go.failed = p.failed
    BY <1>2 DEF Fields
  <2> HIDE DEF go
  <2>2. TodoRec(go) = TodoRec(p)
    BY <2>1 DEF TodoRec
  <2>3. t.id \in TaskIds
    BY <1>8 DEF Readable, ExportInv, StoreOK
  <2>4. "meta tmp" \in Writing /\ "meta tmp" \in Records /\ "meta tmp" \in Inside
        /\ "meta tmp" \notin Early
    BY DEF Writing, Records, Inside, Early, MapStage
  <2>5. TodoOK(go)
    BY <2>1, <2>2, <2>3, <2>4, <1>2, <1>8, StageFacts DEF TodoOK
  <2>6. WantedOK(go)
    BY <2>1, <2>4, <1>3, StageFacts, TaskAssumption DEF WantedOK
  <2> QED
    BY <1>1, <1>4, <1>8, <2>1, <2>4, <2>5, <2>6, CommandStep, StageFacts
<1> QED
  BY <1>1, <1>5, <1>6, <1>7, <1>8

-----------------------------------------------------------------------------
(* The files of a pair.                                                    *)

(* The checks of a command, by its state after the step. *)
LEMMA SameChecks ==
  ASSUME NEW o \in Cmds, NEW s, cmd'[o] = s, TodoOK(s), WantedOK(s)
  PROVE  TodoOK(cmd[o])' /\ WantedOK(cmd[o])'
<1>1. TodoOK(cmd[o])'
  BY DEF TodoOK, TodoRec
<1>2. WantedOK(cmd[o])'
  BY DEF WantedOK, Left
<1> QED
  BY <1>1, <1>2

LEMMA SameInside ==
  ASSUME NEW o \in Cmds, NEW s, cmd'[o] = s, NEW e, s.dir = e, UNCHANGED overlapped,
         s.pc \in Inside => e \in DOMAIN dirs',
         s.pc = "mkdir" /\ e \in DOMAIN dirs' => e \in overlapped,
         s.pc = "root" /\ e \notin overlapped => dirs'[e] = {},
         s.pc \in Records /\ e \notin overlapped =>
           \A i \in DOMAIN s.todo : s.todo[i].id \notin Exported(e)',
         s.pc \in {"data tmp", "data rename"} /\ e \notin overlapped =>
           Meta(Head(s.todo).id) \in dirs'[e]
  PROVE  InsideOK(o)'
  BY DEF InsideOK, Exported, Meta, File

(* A step of command c that writes in its directory: what is left to show  *)
(* is about that directory alone.                                          *)
LEMMA FileStep ==
  ASSUME ExportInv, NEW c \in Cmds, cmd[c].pc \in Writing, NEW s, DOMAIN s = Fields,
         Step(c, s), UNCHANGED <<storeVars, overlapped>>, UNCHANGED tmp,
         NEW d, cmd[c].dir = d, NEW gone, NEW new, InDir(d, gone, new),
         \A f \in new : f = File(f.kind, f.id, f.pid),
         s.pc \in Records \cup {"work"}, s.pc \in Records => s.dir = d,
         NEW id, cmd[c].ok \subseteq s.ok, \A x \in s.ok : x \in cmd[c].ok \/ x = <<d, id>>,
         TodoOK(s), WantedOK(s),
         d \notin overlapped =>
           /\ DirOK(d)'
           /\ s.pc \in Records => \A i \in DOMAIN s.todo : s.todo[i].id \notin Exported(d)'
           /\ s.pc \in {"data tmp", "data rename"} => Meta(Head(s.todo).id) \in dirs'[d]
  PROVE  ExportInv'
<1>1. Shape' /\ cmd'[c] = s /\ \A o \in Cmds \ {c} : cmd'[o] = cmd[o]
  BY StepFacts DEF ExportInv
<1>2. cmd[c].pc \in Inside /\ d \in DOMAIN dirs
  BY StageFacts DEF ExportInv, InsideOK
<1>3. /\ DOMAIN dirs' = DOMAIN dirs /\ dirs'[d] = (dirs[d] \ gone) \cup new
      /\ \A e \in DOMAIN dirs : e # d => dirs'[e] = dirs[e]
  BY <1>2 DEF InDir
<1>4. ASSUME NEW e, e # d PROVE Exported(e)' = Exported(e)
  <2>1. \A x : \A o \in Cmds : <<e, x>> \in cmd'[o].ok <=> <<e, x>> \in cmd[o].ok
    <3>1. \A x : <<e, x>> # <<d, id>>
      BY <1>4
    <3> QED
      BY <3>1, <1>1
  <2> QED
    BY <2>1 DEF Exported
<1>5. StoreOK'
  BY SameStore DEF ExportInv
<1>6. FilesOK'
  <2>1. \A e \in DOMAIN dirs' : \A f \in dirs'[e] : f = File(f.kind, f.id, f.pid)
    BY <1>2, <1>3 DEF ExportInv, FilesOK
  <2>2. \A o \in Cmds : \A x \in cmd'[o].ok : x \in cmd[o].ok \/ x = <<d, id>>
    BY <1>1
  <2>3. \A o \in Cmds : \A x \in cmd'[o].ok : x[1] \in DOMAIN dirs'
    <3>1. \A o \in Cmds : \A x \in cmd[o].ok : x[1] \in DOMAIN dirs
      BY DEF ExportInv, FilesOK
    <3>2. <<d, id>>[1] = d
      OBVIOUS
    <3> QED
      BY <3>1, <3>2, <2>2, <1>2, <1>3
  <2> QED
    BY <2>1, <2>3 DEF FilesOK, File
<1>7. s.pc \in Inside => s.dir = d
  BY StageFacts
<1>8. OneInside'
  <2>1. \A o \in Cmds : cmd'[o].pc \in Inside => /\ cmd[o].pc \in Inside
                                                   /\ cmd'[o].dir = cmd[o].dir
    BY <1>1, <1>2, <1>7
  <2>2. OneInside
    BY DEF ExportInv
  <2> QED
    BY <2>1, <2>2 DEF OneInside
<1>9. ASSUME NEW o \in Cmds
      PROVE  TodoOK(cmd[o])' /\ WantedOK(cmd[o])' /\ InsideOK(o)'
  <2>1. CASE o # c
    <3>1. cmd'[o] = cmd[o]
      BY <1>1, <2>1
    <3>2. TodoOK(cmd[o]) /\ WantedOK(cmd[o]) /\ InsideOK(o)
      BY DEF ExportInv
    <3>3. TodoOK(cmd[o])' /\ WantedOK(cmd[o])'
      BY <3>1, <3>2, SameChecks
    <3>4. PICK e : cmd[o].dir = e
      OBVIOUS
    <3>5. cmd[o].pc \in Inside /\ cmd[o].dir \notin overlapped => cmd[o].dir # d
      BY <1>2, <2>1 DEF ExportInv, OneInside
    <3>6. /\ cmd[o].pc \in Inside => cmd[o].dir \in DOMAIN dirs'
          /\ cmd[o].pc = "mkdir" /\ cmd[o].dir \in DOMAIN dirs' => cmd[o].dir \in overlapped'
      BY <3>2, <1>3 DEF InsideOK
    <3>7. cmd[o].pc = "root" /\ cmd[o].dir \notin overlapped => dirs'[cmd[o].dir] = {}
      BY <3>2, <3>5, <1>3, StageFacts DEF InsideOK
    <3>8. cmd[o].pc \in Records /\ e \notin overlapped =>
            \A i \in DOMAIN cmd[o].todo : cmd[o].todo[i].id \notin Exported(e)'
      <4>1. e # d => Exported(e)' = Exported(e)
        BY <1>4
      <4>2. cmd[o].pc \in Records /\ e \notin overlapped =>
              \A i \in DOMAIN cmd[o].todo : cmd[o].todo[i].id \notin Exported(e)
        BY <3>2, <3>4 DEF InsideOK
      <4> QED
        BY <4>1, <4>2, <3>4, <3>5, StageFacts
    <3>9. cmd[o].pc \in {"data tmp", "data rename"} /\ cmd[o].dir \notin overlapped =>
            Meta(Head(cmd[o].todo).id) \in dirs'[cmd[o].dir]
      BY <3>2, <3>5, <1>3, StageFacts DEF InsideOK
    <3>10. InsideOK(o)'
      BY <3>1, <3>4, <3>6, <3>7, <3>8, <3>9, SameInside
    <3> QED
      BY <3>3, <3>10
  <2>2. CASE o = c
    <3>1. cmd'[o] = s
      BY <1>1, <2>2
    <3>2. TodoOK(cmd[o])' /\ WantedOK(cmd[o])'
      BY <3>1, SameChecks
    <3>4. s.pc \notin {"root", "mkdir"}
      BY StageFacts
    <3>5. s.pc \in Records /\ s.dir \notin overlapped =>
            \A i \in DOMAIN s.todo : s.todo[i].id \notin Exported(d)'
      OBVIOUS
    <3>6. s.pc \in {"data tmp", "data rename"} => s.pc \in Records
      BY StageFacts
    <3>7. InsideOK(o)'
      <4>1. PICK e : s.dir = e
        OBVIOUS
      <4>2. s.pc \in Records /\ e \notin overlapped =>
              \A i \in DOMAIN s.todo : s.todo[i].id \notin Exported(e)'
        BY <4>1, <3>5
      <4> QED
        BY <3>1, <3>4, <3>6, <4>1, <4>2, <1>2, <1>3, <1>7, SameInside
    <3> QED
      BY <3>2, <3>7
  <2> QED
    BY <2>1, <2>2
<1>10. ASSUME NEW e \in DOMAIN dirs' \ overlapped' PROVE DirOK(e)'
  <2>1. CASE e = d
    <3>1. DirOK(d)'
      BY <1>10, <2>1
    <3> QED
      BY <3>1, <2>1
  <2>2. CASE e # d
    <3>1. DirOK(e) /\ dirs'[e] = dirs[e] /\ Exported(e)' = Exported(e)
      BY <1>3, <1>4, <1>10, <2>2 DEF ExportInv
    <3>2. ASSUME NEW o \in Cmds, NEW x, Midway(o, e, x) PROVE Midway(o, e, x)'
      <4>1. o # c
        BY <3>2, <2>2 DEF Midway
      <4>2. cmd'[o] = cmd[o]
        BY <4>1, <1>1
      <4> QED
        BY <4>1, <4>2, <3>2 DEF Midway
    <3>3. \A x \in Exported(e)' : (Data(x) \in dirs[e] /\ Meta(x) \in dirs[e])'
      BY <3>1 DEF DirOK, Data, Meta, File
    <3>4. \A f \in dirs'[e] : f.kind = "data" /\ f.pid = None => f.id \in Exported(e)'
      BY <3>1 DEF DirOK
    <3>5. \A f \in dirs'[e] : f.kind = "meta" /\ f.pid = None =>
            f.id \in Exported(e)' \/ \E o \in Cmds : Midway(o, e, f.id)'
      BY <3>1, <3>2 DEF DirOK
    <3> QED
      BY <3>3, <3>4, <3>5 DEF DirOK
  <2> QED
    BY <2>1, <2>2
<1> QED
  BY <1>1, <1>5, <1>6, <1>8, <1>9, <1>10 DEF ExportInv

(* What is known before a file of a pair is written. *)
LEMMA WritingFacts ==
  ASSUME ExportInv, NEW c \in Cmds, cmd[c].pc \in Writing
  PROVE  LET p == cmd[c]
             id == Head(p.todo).id
         IN  /\ DOMAIN p = Fields /\ TodoOK(p) /\ WantedOK(p) /\ p.pc \in Records
             /\ p.todo # <<>> /\ id \in TaskIds /\ Head(p.todo).pass /\ c # None
             /\ p.status = None /\ p.failed \in BOOLEAN
             /\ ~p.failed => p.wanted = p.ok \cup Left(p.dir, p.todo)
             /\ p.dir \in DOMAIN dirs
             /\ p.dir \notin overlapped =>
                  /\ DirOK(p.dir) /\ id \notin Exported(p.dir)
                  /\ \A i \in DOMAIN p.todo : p.todo[i].id \notin Exported(p.dir)
                  /\ \A i \in DOMAIN Tail(p.todo) : /\ Tail(p.todo)[i].id \notin Exported(p.dir)
                                                   /\ Tail(p.todo)[i].id # id
                  /\ p.pc \in {"data tmp", "data rename"} => Meta(id) \in dirs[p.dir]
<1> DEFINE p == cmd[c]
<1>1. DOMAIN p = Fields /\ TodoOK(p) /\ WantedOK(p) /\ InsideOK(c) /\ p.pc \in Records
      /\ p.pc \in Inside /\ p.pc # "done"
  BY StageFacts DEF ExportInv, Shape
<1>2. p.todo # <<>> /\ Head(p.todo).pass /\ Head(p.todo).id \in TaskIds
  BY <1>1 DEF TodoOK
<1>3. c # None
  BY TaskAssumption
<1>4. /\ p.status = None /\ p.failed \in BOOLEAN
      /\ ~p.failed => p.wanted = p.ok \cup Left(p.dir, p.todo)
  BY <1>1 DEF WantedOK
<1>5. /\ p.dir \in DOMAIN dirs
      /\ p.dir \notin overlapped => \A i \in DOMAIN p.todo : p.todo[i].id \notin Exported(p.dir)
      /\ p.pc \in {"data tmp", "data rename"} /\ p.dir \notin overlapped =>
           Meta(Head(p.todo).id) \in dirs[p.dir]
  BY <1>1 DEF InsideOK
<1>6. p.dir \notin overlapped => DirOK(p.dir)
  BY <1>5 DEF ExportInv
<1>7. 1 \in DOMAIN p.todo /\ Head(p.todo) = p.todo[1]
  <2>1. p.todo \in Seq(TodoRec(p))
    BY <1>1 DEF TodoOK
  <2> QED
    BY <2>1, <1>2, TailFacts
<1>8. \A i \in DOMAIN Tail(p.todo) : /\ Tail(p.todo)[i].id # Head(p.todo).id
                                     /\ \E j \in DOMAIN p.todo : Tail(p.todo)[i] = p.todo[j]
  BY <1>1, <1>2, TailOK
<1>9. p.dir \notin overlapped => Head(p.todo).id \notin Exported(p.dir)
  BY <1>5, <1>7
<1>10. p.dir \notin overlapped =>
         \A i \in DOMAIN Tail(p.todo) : Tail(p.todo)[i].id \notin Exported(p.dir)
  BY <1>5, <1>8
<1> QED
  BY <1>1, <1>2, <1>3, <1>4, <1>5, <1>6, <1>8, <1>9, <1>10

(* Only the stage of a command changes, within the writing of a pair. *)
LEMMA StageOnly ==
  ASSUME ExportInv, NEW c \in Cmds, cmd[c].pc \in Writing, NEW next \in Writing
  PROVE  LET s == [cmd[c] EXCEPT !.pc = next]
         IN  /\ DOMAIN s = Fields /\ s.pc = next /\ s.dir = cmd[c].dir /\ s.ok = cmd[c].ok
             /\ s.todo = cmd[c].todo /\ TodoOK(s) /\ WantedOK(s)
<1> DEFINE p == cmd[c]
           s == [p EXCEPT !.pc = next]
<1>1. /\ DOMAIN p = Fields /\ TodoOK(p) /\ WantedOK(p) /\ p.pc \in Records
      /\ p.status = None /\ p.failed \in BOOLEAN
      /\ ~p.failed => p.wanted = p.ok \cup Left(p.dir, p.todo)
  BY WritingFacts
<1>2. /\ DOMAIN s = Fields /\ s.pc = next /\ s.dir = p.dir /\ s.ok = p.ok
      /\ s.todo = p.todo /\ s.works = p.works /\ s.wanted = p.wanted
      /\ s.failed = p.failed /\ s.status = p.status
  BY <1>1 DEF Fields
<1> HIDE DEF s
<1>3. TodoRec(s) = TodoRec(p)
  BY <1>2 DEF TodoRec
<1>4. next \in Records /\ next \notin Early \cup {"work", "stat", "mkdir", "root", "done"}
  BY StageFacts
<1>5. TodoOK(s)
  BY <1>1, <1>2, <1>3, <1>4 DEF TodoOK
<1>6. WantedOK(s)
  BY <1>1, <1>2, <1>4, TaskAssumption DEF WantedOK
<1> QED
  BY <1>2, <1>5, <1>6 DEF s

LEMMA OpenExport ==
  ASSUME ExportInv, NEW c \in Cmds, NEW pc, NEW kind, NEW next, OpenTmp(c, pc, kind, next),
         <<pc, next>> \in {<<"meta tmp", "meta rename">>, <<"data tmp", "data rename">>}
  PROVE  ExportInv'
<1> DEFINE p == cmd[c]
           id == Head(p.todo).id
           s == [p EXCEPT !.pc = next]
           new == {File(kind, id, c)}
<1>1. /\ p.pc = pc /\ Step(c, s) /\ InDir(p.dir, {}, new)
      /\ UNCHANGED <<storeVars, overlapped>> /\ UNCHANGED tmp
  BY DEF OpenTmp, At
<1>2. p.pc \in Writing /\ next \in Writing /\ (p.pc = "data tmp" <=> next = "data rename")
      /\ p.pc # "data rename" /\ next # "data tmp" /\ p.pc # "crashed"
  BY <1>1 DEF Writing
<1>3. /\ DOMAIN s = Fields /\ s.pc = next /\ s.dir = p.dir /\ s.ok = p.ok /\ s.todo = p.todo
      /\ TodoOK(s) /\ WantedOK(s)
  BY <1>2, StageOnly
<1>4. PICK d : p.dir = d
  OBVIOUS
<1>5. PICK n : n = new
  OBVIOUS
<1>6. /\ c # None /\ d \in DOMAIN dirs
      /\ d \notin overlapped =>
           /\ DirOK(d) /\ \A i \in DOMAIN p.todo : p.todo[i].id \notin Exported(d)
           /\ next = "data rename" => Meta(id) \in dirs[d]
  BY <1>2, <1>4, WritingFacts
<1>7. \A f \in n : f = File(f.kind, f.id, f.pid) /\ f.pid # None
  <2>1. SUFFICES ASSUME NEW f \in n PROVE f = File(f.kind, f.id, f.pid) /\ f.pid # None
    OBVIOUS
  <2> HIDE DEF id
  <2>2. f = File(kind, id, c)
    BY <1>5
  <2>3. f.kind = kind /\ f.id = id /\ f.pid = c
    BY <2>2 DEF File
  <2> QED
    BY <2>2, <2>3, <1>6
<1>8. InDir(d, {}, n)
  BY <1>1, <1>4, <1>5
<1> HIDE DEF s, new
<1>9. cmd'[c] = s /\ \A o \in Cmds \ {c} : cmd'[o] = cmd[o]
  BY <1>1, <1>3, StepFacts DEF ExportInv
<1>10. Exported(d)' = Exported(d)
  BY <1>3, <1>9, SameExports
<1>11. dirs'[d] = dirs[d] \cup n
  BY <1>6, <1>8 DEF InDir
<1>12. d \notin overlapped => DirOK(d)'
  <2> SUFFICES ASSUME d \notin overlapped PROVE DirOK(d)'
    OBVIOUS
  <2>1. DirOK(d)
    BY <1>6
  <2>2. ASSUME NEW o \in Cmds, NEW x, Midway(o, d, x) PROVE Midway(o, d, x)'
    <3>1. CASE o = c
      BY <3>1, <2>2, <1>2, <1>3, <1>9 DEF Midway
    <3>2. CASE o # c
      BY <3>2, <2>2, <1>9, SameMidway
    <3> QED
      BY <3>1, <3>2
  <2>3. \A x \in Exported(d)' : (Data(x) \in dirs[d] /\ Meta(x) \in dirs[d])'
    BY <2>1, <1>10, <1>11 DEF DirOK, Data, Meta, File
  <2>4. \A f \in dirs'[d] : f.kind = "data" /\ f.pid = None => f.id \in Exported(d)'
    BY <2>1, <1>7, <1>10, <1>11 DEF DirOK
  <2>5. \A f \in dirs'[d] : f.kind = "meta" /\ f.pid = None =>
          f.id \in Exported(d)' \/ \E o \in Cmds : Midway(o, d, f.id)'
    BY <2>1, <2>2, <1>7, <1>10, <1>11 DEF DirOK
  <2> QED
    BY <2>3, <2>4, <2>5 DEF DirOK
<1>13. d \notin overlapped =>
         /\ s.pc \in Records => \A i \in DOMAIN s.todo : s.todo[i].id \notin Exported(d)'
         /\ s.pc \in {"data tmp", "data rename"} => Meta(Head(s.todo).id) \in dirs'[d]
  BY <1>2, <1>3, <1>6, <1>10, <1>11
<1>14. s.pc \in Records
  BY <1>2, <1>3, StageFacts
<1> QED
  BY <1>1, <1>2, <1>3, <1>4, <1>7, <1>8, <1>12, <1>13, <1>14, FileStep

LEMMA MetaRenameExport ==
  ASSUME ExportInv, NEW c \in Cmds, MetaRename(c)
  PROVE  ExportInv'
<1> DEFINE p == cmd[c]
           s == [p EXCEPT !.pc = "data tmp"]
<1>1. PICK id, d : id = Head(p.todo).id /\ p.dir = d
  OBVIOUS
<1>2. PICK gone, new : gone = {File("meta", id, c)} /\ new = {Meta(id)}
  OBVIOUS
<1>3. /\ p.pc = "meta rename" /\ Step(c, s) /\ InDir(d, gone, new)
      /\ UNCHANGED <<storeVars, overlapped>> /\ UNCHANGED tmp
  BY <1>1, <1>2 DEF MetaRename, At
<1>4. p.pc \in Writing /\ "data tmp" \in Writing /\ "data tmp" \in Records
  BY <1>3 DEF Writing, Records
<1>5. /\ DOMAIN s = Fields /\ s.pc = "data tmp" /\ s.dir = d /\ s.ok = p.ok /\ s.todo = p.todo
      /\ TodoOK(s) /\ WantedOK(s)
  BY <1>1, <1>4, StageOnly
<1> HIDE DEF s
<1>6. /\ c # None /\ d \in DOMAIN dirs /\ p.todo # <<>>
      /\ d \notin overlapped =>
           DirOK(d) /\ \A i \in DOMAIN p.todo : p.todo[i].id \notin Exported(d)
  BY <1>1, <1>4, WritingFacts
<1>7. Meta(id).kind = "meta" /\ Meta(id).id = id /\ Meta(id).pid = None
  BY DEF Meta, File
<1>8. \A f \in new : f = File(f.kind, f.id, f.pid)
  BY <1>2 DEF Meta, File
<1>9. cmd'[c] = s /\ \A o \in Cmds \ {c} : cmd'[o] = cmd[o]
  BY <1>3, <1>5, StepFacts DEF ExportInv
<1>10. Exported(d)' = Exported(d)
  BY <1>5, <1>9, SameExports
<1>11. dirs'[d] = (dirs[d] \ gone) \cup new
  BY <1>3, <1>6 DEF InDir
<1>12. \A x : Data(x) \notin gone /\ Meta(x) \notin gone
  BY <1>2, <1>6 DEF Data, Meta, File
<1>13. d \notin overlapped => DirOK(d)'
  <2> SUFFICES ASSUME d \notin overlapped PROVE DirOK(d)'
    OBVIOUS
  <2>1. DirOK(d)
    BY <1>6
  <2>2. ASSUME NEW o \in Cmds, NEW x, Midway(o, d, x) PROVE Midway(o, d, x)'
    <3>1. o # c
      BY <2>2, <1>3 DEF Midway
    <3> QED
      BY <3>1, <2>2, <1>9, SameMidway
  <2>3. Midway(c, d, id)'
    BY <1>1, <1>5, <1>6, <1>9 DEF Midway
  <2>4. \A x \in Exported(d)' : (Data(x) \in dirs[d] /\ Meta(x) \in dirs[d])'
    <3>1. \A x \in Exported(d) : Data(x) \in dirs'[d] /\ Meta(x) \in dirs'[d]
      BY <2>1, <1>11, <1>12 DEF DirOK
    <3> QED
      BY <3>1, <1>10 DEF Data, Meta, File
  <2>5. \A f \in dirs'[d] : f.kind = "data" /\ f.pid = None => f.id \in Exported(d)'
    BY <2>1, <1>2, <1>7, <1>10, <1>11 DEF DirOK
  <2>6. \A f \in dirs'[d] : f.kind = "meta" /\ f.pid = None =>
          f.id \in Exported(d)' \/ \E o \in Cmds : Midway(o, d, f.id)'
    BY <2>1, <2>2, <2>3, <1>2, <1>7, <1>10, <1>11 DEF DirOK
  <2> QED
    BY <2>4, <2>5, <2>6 DEF DirOK
<1>14. d \notin overlapped =>
         /\ s.pc \in Records => \A i \in DOMAIN s.todo : s.todo[i].id \notin Exported(d)'
         /\ s.pc \in {"data tmp", "data rename"} => Meta(Head(s.todo).id) \in dirs'[d]
  BY <1>1, <1>2, <1>5, <1>6, <1>10, <1>11
<1> QED
  BY <1>1, <1>3, <1>4, <1>5, <1>8, <1>13, <1>14, FileStep

LEMMA DataRenameExport ==
  ASSUME ExportInv, NEW c \in Cmds, DataRename(c)
  PROVE  ExportInv'
<1> DEFINE p == cmd[c]
           s == AfterRecord(p, TRUE)
<1>1. PICK id, d : id = Head(p.todo).id /\ p.dir = d
  OBVIOUS
<1>2. PICK gone, new : gone = {File("data", id, c)} /\ new = {Data(id)}
  OBVIOUS
<1>3. /\ p.pc = "data rename" /\ Step(c, s) /\ InDir(d, gone, new)
      /\ UNCHANGED <<storeVars, overlapped>> /\ UNCHANGED tmp
  BY <1>1, <1>2 DEF DataRename, At
<1>4. p.pc \in Writing
  BY <1>3 DEF Writing
<1>5. /\ DOMAIN p = Fields /\ TodoOK(p) /\ WantedOK(p) /\ p.pc \in Records
      /\ p.todo # <<>> /\ id \in TaskIds /\ Head(p.todo).pass /\ c # None
      /\ d \in DOMAIN dirs
      /\ d \notin overlapped =>
           /\ DirOK(d) /\ Meta(id) \in dirs[d]
           /\ \A i \in DOMAIN Tail(p.todo) : /\ Tail(p.todo)[i].id \notin Exported(d)
                                             /\ Tail(p.todo)[i].id # id
  BY <1>1, <1>3, <1>4, WritingFacts
<1>6. /\ DOMAIN s = Fields /\ TodoOK(s) /\ WantedOK(s)
      /\ s.pc \in {"work", "record"} /\ (s.pc = "record" => s.dir = d)
      /\ s.ok = p.ok \cup {<<d, id>>} /\ (s.pc = "record" => s.todo = Tail(p.todo))
  BY <1>1, <1>5, AfterFacts
<1> HIDE DEF s
<1>7. Data(id).kind = "data" /\ Data(id).id = id /\ Data(id).pid = None
  BY DEF Data, File
<1>8. \A f \in new : f = File(f.kind, f.id, f.pid)
  BY <1>2 DEF Data, File
<1>9. cmd'[c] = s /\ \A o \in Cmds \ {c} : cmd'[o] = cmd[o]
  BY <1>3, <1>6, StepFacts DEF ExportInv
<1>10. Exported(d)' = Exported(d) \cup {id}
  <2>1. \A x : (\E o \in Cmds : <<d, x>> \in cmd'[o].ok)
                <=> x = id \/ \E o \in Cmds : <<d, x>> \in cmd[o].ok
    <3>1. \A x : <<d, x>> \in s.ok <=> x = id \/ <<d, x>> \in p.ok
      BY <1>6
    <3> QED
      BY <3>1, <1>9
  <2> QED
    BY <2>1, <1>5 DEF Exported
<1>11. dirs'[d] = (dirs[d] \ gone) \cup new
  BY <1>3, <1>5 DEF InDir
<1>12. \A x : Data(x) \notin gone /\ Meta(x) \notin gone
  BY <1>2, <1>5 DEF Data, Meta, File
<1>13. d \notin overlapped => DirOK(d)'
  <2> SUFFICES ASSUME d \notin overlapped PROVE DirOK(d)'
    OBVIOUS
  <2>1. DirOK(d) /\ Meta(id) \in dirs[d]
    BY <1>5
  <2>2. ASSUME NEW o \in Cmds, NEW x, Midway(o, d, x) PROVE x = id \/ Midway(o, d, x)'
    <3>1. CASE o = c
      BY <3>1, <2>2, <1>1 DEF Midway
    <3>2. CASE o # c
      BY <3>2, <2>2, <1>9, SameMidway
    <3> QED
      BY <3>1, <3>2
  <2>3. \A x \in Exported(d)' : (Data(x) \in dirs[d] /\ Meta(x) \in dirs[d])'
    <3>1. \A x \in Exported(d) \cup {id} : Data(x) \in dirs'[d] /\ Meta(x) \in dirs'[d]
      BY <2>1, <1>2, <1>11, <1>12 DEF DirOK
    <3> QED
      BY <3>1, <1>10 DEF Data, Meta, File
  <2>4. \A f \in dirs'[d] : f.kind = "data" /\ f.pid = None => f.id \in Exported(d)'
    BY <2>1, <1>2, <1>7, <1>10, <1>11 DEF DirOK
  <2>5. \A f \in dirs'[d] : f.kind = "meta" /\ f.pid = None =>
          f.id \in Exported(d)' \/ \E o \in Cmds : Midway(o, d, f.id)'
    BY <2>1, <2>2, <1>2, <1>7, <1>10, <1>11 DEF DirOK
  <2> QED
    BY <2>3, <2>4, <2>5 DEF DirOK
<1>14. d \notin overlapped =>
         /\ s.pc \in Records => \A i \in DOMAIN s.todo : s.todo[i].id \notin Exported(d)'
         /\ s.pc \in {"data tmp", "data rename"} => Meta(Head(s.todo).id) \in dirs'[d]
  BY <1>5, <1>6, <1>10, StageFacts
<1>15. s.pc \in Records \cup {"work"} /\ (s.pc \in Records => s.dir = d)
  BY <1>6, StageFacts
<1>16. DOMAIN s = Fields /\ TodoOK(s) /\ WantedOK(s)
  BY <1>6
<1>17. cmd[c].ok \subseteq s.ok /\ \A x \in s.ok : x \in cmd[c].ok \/ x = <<d, id>>
  BY <1>6
<1>18. cmd[c].dir = d
  BY <1>1
<1> QED
  BY <1>3, <1>4, <1>8, <1>13, <1>14, <1>15, <1>16, <1>17, <1>18, FileStep

(* A file of a pair fails: nothing of the record is left. *)
Failing(c) == MetaFail(c) \/ DataFail(c)

LEMMA FailExport ==
  ASSUME ExportInv, NEW c \in Cmds, Failing(c)
  PROVE  ExportInv'
<1> DEFINE p == cmd[c]
           s == AfterRecord(p, FALSE)
<1>1. PICK id, d : id = Head(p.todo).id /\ p.dir = d
  OBVIOUS
<1>2. PICK gone :
        /\ \/ p.pc = "meta rename" /\ gone = {File("meta", id, c)}
           \/ p.pc = "data rename" /\ gone = {File("data", id, c), Meta(id)}
        /\ Step(c, s) /\ InDir(d, gone, {})
        /\ UNCHANGED <<storeVars, overlapped>> /\ UNCHANGED tmp
  <2>1. CASE MetaFail(c)
    BY <2>1, <1>1 DEF MetaFail, At
  <2>2. CASE DataFail(c)
    BY <2>2, <1>1 DEF DataFail, At
  <2> QED
    BY <2>1, <2>2 DEF Failing
<1>4. p.pc \in Writing
  BY <1>2 DEF Writing
<1>5. /\ DOMAIN p = Fields /\ TodoOK(p) /\ WantedOK(p) /\ p.pc \in Records
      /\ p.todo # <<>> /\ c # None /\ d \in DOMAIN dirs
      /\ d \notin overlapped =>
           /\ DirOK(d) /\ id \notin Exported(d)
           /\ \A i \in DOMAIN Tail(p.todo) : Tail(p.todo)[i].id \notin Exported(d)
  BY <1>1, <1>4, WritingFacts
<1>6. /\ DOMAIN s = Fields /\ TodoOK(s) /\ WantedOK(s)
      /\ s.pc \in {"work", "record"} /\ (s.pc = "record" => s.dir = d)
      /\ s.ok = p.ok /\ (s.pc = "record" => s.todo = Tail(p.todo))
  BY <1>1, <1>5, AfterFacts
<1> HIDE DEF s
<1>9. cmd'[c] = s /\ \A o \in Cmds \ {c} : cmd'[o] = cmd[o]
  BY <1>2, <1>6, StepFacts DEF ExportInv
<1>10. Exported(d)' = Exported(d)
  BY <1>6, <1>9, SameExports
<1>11. dirs'[d] = dirs[d] \ gone
  BY <1>2, <1>5 DEF InDir
<1>12. \A x : x # id => Data(x) \notin gone /\ Meta(x) \notin gone
  <2>1. \A f \in gone : f.id = id
    <3>1. File("meta", id, c).id = id /\ File("data", id, c).id = id /\ Meta(id).id = id
      BY DEF Meta, File
    <3> QED
      BY <3>1, <1>2
  <2>2. \A x : Data(x).id = x /\ Meta(x).id = x
    BY DEF Data, Meta, File
  <2> QED
    BY <2>1, <2>2
<1>13. d \notin overlapped => DirOK(d)'
  <2> SUFFICES ASSUME d \notin overlapped PROVE DirOK(d)'
    OBVIOUS
  <2>1. DirOK(d) /\ id \notin Exported(d)
    BY <1>5
  <2>2. ASSUME NEW f \in dirs'[d], f.kind = "meta", f.pid = None,
               NEW o \in Cmds, Midway(o, d, f.id)
        PROVE  Midway(o, d, f.id)'
    <3>1. CASE o = c
      <4>1. p.pc = "data rename" /\ f.id = id
        BY <3>1, <2>2, <1>1, <1>2 DEF Midway
      <4>2. f = File(f.kind, f.id, f.pid)
        BY <2>2, <1>5, <1>11 DEF ExportInv, FilesOK
      <4>3. f = Meta(id)
        BY <4>1, <4>2, <2>2 DEF Meta
      <4>4. Meta(id) \in gone
        BY <4>1, <1>2
      <4> QED
        BY <4>3, <4>4, <2>2, <1>11
    <3>2. CASE o # c
      BY <3>2, <2>2, <1>9 DEF Midway
    <3> QED
      BY <3>1, <3>2
  <2>3. \A x \in Exported(d)' : (Data(x) \in dirs[d] /\ Meta(x) \in dirs[d])'
    <3>1. \A x \in Exported(d) : Data(x) \in dirs'[d] /\ Meta(x) \in dirs'[d]
      BY <2>1, <1>11, <1>12 DEF DirOK
    <3> QED
      BY <3>1, <1>10 DEF Data, Meta, File
  <2>4. \A f \in dirs'[d] : f.kind = "data" /\ f.pid = None => f.id \in Exported(d)'
    BY <2>1, <1>10, <1>11 DEF DirOK
  <2>5. \A f \in dirs'[d] : f.kind = "meta" /\ f.pid = None =>
          f.id \in Exported(d)' \/ \E o \in Cmds : Midway(o, d, f.id)'
    BY <2>1, <2>2, <1>10, <1>11 DEF DirOK
  <2> QED
    BY <2>3, <2>4, <2>5 DEF DirOK
<1>14. d \notin overlapped =>
         /\ s.pc \in Records => \A i \in DOMAIN s.todo : s.todo[i].id \notin Exported(d)'
         /\ s.pc \in {"data tmp", "data rename"} => Meta(Head(s.todo).id) \in dirs'[d]
  BY <1>5, <1>6, <1>10, StageFacts
<1>15. s.pc \in Records \cup {"work"} /\ (s.pc \in Records => s.dir = d)
  BY <1>6, StageFacts
<1>16. DOMAIN s = Fields /\ TodoOK(s) /\ WantedOK(s)
  BY <1>6
<1>17. cmd[c].ok \subseteq s.ok /\ \A x \in s.ok : x \in cmd[c].ok \/ x = <<d, id>>
  BY <1>6
<1>18. cmd[c].dir = d
  BY <1>1
<1>19. PICK new : new = {}
  OBVIOUS
<1>20. InDir(d, gone, new) /\ \A f \in new : f = File(f.kind, f.id, f.pid)
  BY <1>2, <1>19
<1>21. Step(c, s) /\ UNCHANGED <<storeVars, overlapped>> /\ UNCHANGED tmp
  BY <1>2
<1> QED
  BY <1>20, <1>21, <1>4, <1>13, <1>14, <1>15, <1>16, <1>17, <1>18, FileStep

-----------------------------------------------------------------------------
(* The recorders, and the invariant.                                       *)

LEMMA JoinFacts ==
  ASSUME NEW k, NEW ms, MemberList(k, ms), NEW id \in TaskIds, id # k, id \notin Range(ms)
  PROVE  MemberList(k, Append(ms, id))
<1> DEFINE q == Append(ms, id)
           n == Len(ms)
<1>1. ms \in Seq(TaskIds)
  BY DEF MemberList
<1>2. n \in Nat /\ DOMAIN ms = 1..n
  BY <1>1, LenProperties
<1>3. /\ q \in Seq(TaskIds) /\ Len(q) = n + 1 /\ q[n + 1] = id
      /\ \A i \in 1..n : q[i] = ms[i]
  BY <1>1, AppendProperties
<1>4. DOMAIN q = 1..(n + 1)
  BY <1>3, LenProperties
<1>5. \A i \in 1..n : ms[i] # id /\ ms[i] # k /\ \A j \in 1..n : i # j => ms[i] # ms[j]
  BY <1>2 DEF MemberList, Range
<1> HIDE DEF q, n
<1>6. \A i \in 1..(n + 1) : i \in 1..n \/ i = n + 1
  BY <1>2
<1>7. \A i \in 1..(n + 1) : q[i] # k
  BY <1>3, <1>5, <1>6
<1>8. \A i, j \in 1..(n + 1) : i # j => q[i] # q[j]
  BY <1>3, <1>5, <1>6
<1>9. MemberList(k, q)
  BY <1>3, <1>4, <1>7, <1>8 DEF MemberList
<1> QED
  BY <1>9 DEF q

LEMMA RecordExport ==
  ASSUME ExportInv, Record
  PROVE  ExportInv'
<1>1. UNCHANGED <<tmp, dirs, cmd, overlapped>> /\ StoreOK
  BY DEF Record, ExportInv
<1>2. StoreOK'
  <2>1. ASSUME NEW id \in TaskIds, WriteRecord(id) PROVE StoreOK'
    BY <2>1, <1>1 DEF WriteRecord, StoreOK
  <2>2. ASSUME NEW id \in TaskIds, AppendRow(id) PROVE StoreOK'
    <3>1. index \in Seq(TaskIds) /\ index' = Append(index, id) /\ UNCHANGED <<files, member>>
      BY <2>2, <1>1 DEF AppendRow, StoreOK
    <3>2. index' \in Seq(TaskIds)
      BY <3>1, AppendProperties
    <3> QED
      BY <3>1, <3>2, <1>1 DEF StoreOK
  <2>3. ASSUME NEW k \in DOMAIN Joiners, JoinCapsule(k) PROVE StoreOK'
    <3>1. PICK i \in DOMAIN Joiners[k] :
            /\ Joiners[k][i] \in Range(index) \ Range(member[k])
            /\ member' = [member EXCEPT ![k] = Append(@, Joiners[k][i])]
            /\ UNCHANGED <<files, index>>
      BY <2>3 DEF JoinCapsule
    <3> DEFINE id == Joiners[k][i]
    <3>2. id # k
      BY TaskAssumption
    <3>3. id \in TaskIds
      <4>1. index \in Seq(TaskIds)
        BY <1>1 DEF StoreOK
      <4>2. \A j \in DOMAIN index : index[j] \in TaskIds
        BY <4>1, ElementOfSeq, LenProperties
      <4> QED
        BY <3>1, <4>2 DEF Range
    <3> HIDE DEF id
    <3>4. /\ member' = [member EXCEPT ![k] = Append(@, id)] /\ id \notin Range(member[k])
      BY <3>1 DEF id
    <3>5. k \in DOMAIN member => MemberList(k, Append(member[k], id))
      BY <3>2, <3>3, <3>4, <1>1, JoinFacts DEF StoreOK
    <3>6. \A j \in DOMAIN member' : MemberList(j, member'[j])
      BY <3>4, <3>5, <1>1 DEF StoreOK
    <3> QED
      BY <3>1, <3>6, <1>1 DEF StoreOK, MemberList
  <2> QED
    BY <2>1, <2>2, <2>3 DEF Record, Recorder
<1>3. Shape' /\ FilesOK' /\ OneInside'
  BY <1>1 DEF ExportInv, Shape, FilesOK, OneInside, File
<1>4. \A d : Exported(d)' = Exported(d)
  BY <1>1 DEF Exported
<1>5. ASSUME NEW o \in Cmds
      PROVE  TodoOK(cmd[o])' /\ WantedOK(cmd[o])' /\ InsideOK(o)'
  <2>1. TodoOK(cmd[o]) /\ WantedOK(cmd[o]) /\ InsideOK(o) /\ cmd'[o] = cmd[o]
    BY <1>1 DEF ExportInv
  <2>2. TodoOK(cmd[o])' /\ WantedOK(cmd[o])'
    BY <2>1, SameChecks
  <2>3. InsideOK(o)'
    BY <2>1, <1>1, <1>4 DEF InsideOK
  <2> QED
    BY <2>2, <2>3
<1>6. ASSUME NEW d \in DOMAIN dirs' \ overlapped' PROVE DirOK(d)'
  <2>1. DirOK(d)
    BY <1>1, <1>6 DEF ExportInv
  <2> QED
    BY <2>1, <1>1 DEF DirOK, Exported, Midway
<1> QED
  BY <1>2, <1>3, <1>5, <1>6 DEF ExportInv

LEMMA InitExport ==
  ASSUME Init PROVE ExportInv
<1>1. PICK s \in InitStates : files = s.files /\ index = s.index /\ member = s.member /\ dirs = s.dirs
  BY DEF Init
<1>2. /\ tmp = [c \in Cmds |-> None] /\ cmd = [c \in Cmds |-> Idle] /\ overlapped = {}
  BY DEF Init
<1>3. \A c \in Cmds : cmd[c] = Idle
  BY <1>2
<1>4. Shape
  BY <1>2, IdleFacts DEF Shape
<1>5. StoreOK
  BY <1>1, TaskAssumption DEF StoreOK
<1>6. "idle" \in Early
  BY DEF Early
<1>7. /\ DOMAIN Idle = Fields /\ Idle.pc = "idle" /\ Idle.todo = <<>> /\ Idle.ok = {}
      /\ Idle.wanted = {} /\ Idle.failed = FALSE /\ Idle.status = None
  BY IdleFacts
<1>8. "idle" \notin Inside /\ "idle" \notin Records /\ "idle" \notin Writing
  BY <1>6, StageFacts
<1>9. \A c \in Cmds : TodoOK(cmd[c]) /\ WantedOK(cmd[c]) /\ InsideOK(c)
  <2>1. TodoOK(Idle)
    BY <1>7, <1>8 DEF TodoOK
  <2>2. WantedOK(Idle)
    BY <1>7, <1>8, TaskAssumption DEF WantedOK
  <2>3. \A c \in Cmds : InsideOK(c)
    BY <1>3, <1>7, <1>8 DEF InsideOK
  <2> QED
    BY <2>1, <2>2, <2>3, <1>3
<1>10. OneInside
  BY <1>3, <1>7, <1>8 DEF OneInside
<1>11. \A d \in DOMAIN dirs : \A f \in dirs[d] : f = [kind |-> "user", id |-> f.id, pid |-> f.pid]
  BY <1>1, TaskAssumption
<1>12. \A d \in DOMAIN dirs : \A f \in dirs[d] : f.kind = "user" /\ f = File(f.kind, f.id, f.pid)
  <2>1. ASSUME NEW d \in DOMAIN dirs, NEW f \in dirs[d]
        PROVE  f.kind = "user" /\ f = File(f.kind, f.id, f.pid)
    <3>1. f = [kind |-> "user", id |-> f.id, pid |-> f.pid]
      BY <1>11
    <3>2. f.kind = "user"
      BY <3>1
    <3> QED
      BY <3>1, <3>2 DEF File
  <2> QED
    BY <2>1
<1>13. FilesOK
  BY <1>3, <1>7, <1>12 DEF FilesOK
<1>14. \A d : Exported(d) = {}
  BY <1>3, <1>7 DEF Exported
<1>15. \A d \in DOMAIN dirs \ overlapped : DirOK(d)
  BY <1>12, <1>14 DEF DirOK
<1> QED
  BY <1>4, <1>5, <1>9, <1>10, <1>13, <1>15 DEF ExportInv

LEMMA StutterExport ==
  ASSUME ExportInv, UNCHANGED vars PROVE ExportInv'
<1>1. UNCHANGED storeVars /\ UNCHANGED <<tmp, dirs, cmd, overlapped>>
  BY DEF vars
<1>2. StoreOK'
  BY <1>1, SameStore DEF ExportInv
<1>3. Shape' /\ FilesOK' /\ OneInside'
  BY <1>1 DEF ExportInv, Shape, FilesOK, OneInside, File
<1>4. ASSUME NEW o \in Cmds
      PROVE  TodoOK(cmd[o])' /\ WantedOK(cmd[o])' /\ InsideOK(o)'
  <2>1. TodoOK(cmd[o]) /\ WantedOK(cmd[o]) /\ InsideOK(o) /\ cmd'[o] = cmd[o]
    BY <1>1 DEF ExportInv
  <2>2. TodoOK(cmd[o])' /\ WantedOK(cmd[o])'
    BY <2>1, SameChecks
  <2>3. InsideOK(o)'
    BY <2>1, <1>1 DEF InsideOK, Exported, Meta, File
  <2> QED
    BY <2>2, <2>3
<1>5. ASSUME NEW d \in DOMAIN dirs' \ overlapped' PROVE DirOK(d)'
  <2>1. DirOK(d)
    BY <1>1, <1>5 DEF ExportInv
  <2> QED
    BY <2>1, <1>1 DEF DirOK, Exported, Midway
<1> QED
  BY <1>2, <1>3, <1>4, <1>5 DEF ExportInv

(* The invariant of the exports holds throughout: a directory that is not  *)
(* shared is worked on by one export, which finds there nothing of what it *)
(* has still to write.                                                     *)
THEOREM ExportInvariance == Spec => []ExportInv
<1>1. Init => ExportInv
  BY InitExport
<1>2. ExportInv /\ [Next]_vars => ExportInv'
  <2> SUFFICES ASSUME ExportInv, [Next]_vars PROVE ExportInv'
    OBVIOUS
  <2>1. CASE Record
    BY <2>1, RecordExport
  <2>2. ASSUME NEW c \in Cmds, NEW o \in Outcomes, Invoke(c, o) PROVE ExportInv'
    BY <2>2, InvokeExport
  <2>3. ASSUME NEW c \in Cmds, Mapping(c) PROVE ExportInv'
    BY <2>3, MappingExport
  <2>4. ASSUME NEW c \in Cmds, Selecting(c) PROVE ExportInv'
    BY <2>4, SelectingExport
  <2>5. ASSUME NEW c \in Cmds, BeginWork(c) \/ PickStat(c) \/ PickMkdir(c) PROVE ExportInv'
    BY <2>5, BeginWorkExport, PickStatExport, PickMkdirExport
  <2>6. ASSUME NEW c \in Cmds, ReadRoot(c) \/ ReadRecord(c) PROVE ExportInv'
    BY <2>6, ReadRootExport, ReadRecordExport
  <2>7. ASSUME NEW c \in Cmds, MetaTmp(c) \/ DataTmp(c) PROVE ExportInv'
    <3>1. CASE MetaTmp(c)
      BY <3>1, OpenExport DEF MetaTmp
    <3>2. CASE DataTmp(c)
      BY <3>2, OpenExport DEF DataTmp
    <3> QED
      BY <3>1, <3>2, <2>7
  <2>8. ASSUME NEW c \in Cmds, MetaRename(c) \/ DataRename(c) PROVE ExportInv'
    BY <2>8, MetaRenameExport, DataRenameExport
  <2>9. ASSUME NEW c \in Cmds, MetaFail(c) \/ DataFail(c) PROVE ExportInv'
    BY <2>9, FailExport DEF Failing
  <2>10. ASSUME NEW c \in Cmds, Crash(c) PROVE ExportInv'
    BY <2>10, CrashExport
  <2>11. CASE UNCHANGED vars
    BY <2>11, StutterExport
  <2> QED
    BY <2>1, <2>2, <2>3, <2>4, <2>5, <2>6, <2>7, <2>8, <2>9, <2>10, <2>11
    DEF Next, Mapping, Selecting
<1> QED
  BY <1>1, <1>2, PTL DEF Spec

(* The invariant gives what PairsComplete says of the files. *)
LEMMA PairsFromInv ==
  ASSUME ExportInv PROVE PairsComplete
<1> DEFINE working(d) == {Head(cmd[c].todo).id :
                            c \in {o \in Cmds : /\ cmd[o].dir = d /\ cmd[o].todo # <<>>
                                                /\ cmd[o].pc # "done"}}
<1>1. ASSUME NEW d \in DOMAIN dirs \ overlapped
      PROVE  /\ Holds(d, "data") \cup working(d) = Exported(d) \cup working(d)
             /\ Holds(d, "meta") \cup working(d) = Exported(d) \cup working(d)
  <2>1. DirOK(d)
    BY <1>1 DEF ExportInv
  <2>2. \A x : /\ Data(x).kind = "data" /\ Data(x).id = x /\ Data(x).pid = None
               /\ Meta(x).kind = "meta" /\ Meta(x).id = x /\ Meta(x).pid = None
    BY DEF Data, Meta, File
  <2>3. Exported(d) \subseteq Holds(d, "data") /\ Exported(d) \subseteq Holds(d, "meta")
    BY <2>1, <2>2 DEF DirOK, Holds
  <2>4. Holds(d, "data") \subseteq Exported(d)
    BY <2>1 DEF DirOK, Holds
  <2>5. \A c \in Cmds : \A x : Midway(c, d, x) => x \in working(d)
    BY DEF Midway
  <2>6. Holds(d, "meta") \subseteq Exported(d) \cup working(d)
    <3> HIDE DEF working
    <3> QED
      BY <2>1, <2>5 DEF DirOK, Holds
  <2> HIDE DEF working
  <2> QED
    BY <2>3, <2>4, <2>6
<1>2. \A c \in Cmds : cmd[c].op = "export" /\ cmd[c].status = "ok" => cmd[c].wanted = cmd[c].ok
  BY DEF ExportInv, WantedOK
<1> QED
  BY <1>1, <1>2 DEF PairsComplete, Exported

(* An export directory that one running export at a time has used holds a  *)
(* meta and a data file for exactly the records exported to it, apart from *)
(* the pair a process is or died working on, and an export that ends with  *)
(* success has exported every record it was asked for.                     *)
THEOREM PairsAreComplete == Spec => []PairsComplete
  BY ExportInvariance, PairsFromInv, PTL

-----------------------------------------------------------------------------
(* The RIDMAP file.                                                        *)

(* A step of command c that leaves the map and its temporary file alone. *)
LEMMA MapFrame ==
  ASSUME MapInv, NEW c \in Cmds, NEW s, DOMAIN s = Fields, Step(c, s),
         UNCHANGED <<ridmap, tmp>>, listed \subseteq listed',
         s.pc \in MapStage => s.pc = "map tmp" /\ s.ids \in listed'
  PROVE  MapInv'
<1>1. Shape' /\ cmd'[c] = s /\ \A o \in Cmds \ {c} : cmd'[o] = cmd[o]
  BY StepFacts DEF MapInv
<1>2. MapIsListing'
  BY DEF MapInv, MapIsListing
<1>3. ASSUME NEW o \in Cmds
      PROVE  /\ cmd'[o].pc \in MapStage => cmd'[o].ids \in listed'
             /\ cmd'[o].pc = "map rename" => tmp'[o] = cmd'[o].ids
  BY <1>1 DEF MapInv, MapStage
<1> QED
  BY <1>1, <1>2, <1>3 DEF MapInv

(* The step of a command that is not replacing the map. *)
Exporting(c) ==
  \/ BeginWork(c) \/ PickStat(c) \/ PickMkdir(c) \/ ReadRoot(c) \/ ReadRecord(c)
  \/ MetaTmp(c) \/ MetaRename(c) \/ MetaFail(c) \/ DataTmp(c) \/ DataRename(c) \/ DataFail(c)
  \/ Crash(c)

LEMMA AfterShape ==
  ASSUME NEW p, DOMAIN p = Fields, NEW good
  PROVE  DOMAIN AfterRecord(p, good) = Fields /\ AfterRecord(p, good).pc \in {"work", "record"}
  BY DEF AfterRecord, NextWork, Fields

LEMMA ExportingStep ==
  ASSUME NEW c \in Cmds, Exporting(c), Shape
  PROVE  /\ \E s : Step(c, s) /\ DOMAIN s = Fields /\ s.pc \notin MapStage
         /\ UNCHANGED Others
<1> DEFINE p == cmd[c]
           Good(s) == Step(c, s) /\ DOMAIN s = Fields /\ s.pc \notin MapStage
           bad == [NextWork(p) EXCEPT !.failed = TRUE]
<1>1. DOMAIN p = Fields
  BY DEF Shape
<1>2. UNCHANGED Others
  BY DEF Exporting, BeginWork, PickStat, PickMkdir, ReadRoot, ReadRecord, MetaTmp, DataTmp,
         OpenTmp, MetaRename, MetaFail, DataRename, DataFail, Crash, Others
<1>3. DOMAIN bad = Fields /\ bad.pc = "work" /\ DOMAIN NextWork(p) = Fields /\ NextWork(p).pc = "work"
  BY <1>1, FailedWorkFacts, NextWorkFacts
<1>5. \A pc : DOMAIN [p EXCEPT !.pc = pc] = Fields /\ [p EXCEPT !.pc = pc].pc = pc
  BY <1>1 DEF Fields
<1>6. \A good : DOMAIN AfterRecord(p, good) = Fields /\ AfterRecord(p, good).pc \in {"work", "record"}
  BY <1>1, AfterShape
<1> SUFFICES \E s : Good(s)
  BY <1>2
<1>7. CASE BeginWork(c)
  <2> DEFINE end == Done(p, IF p.failed THEN "error" ELSE "ok")
             go == [p EXCEPT !.pc = "stat", !.dir = <<Head(p.works).root, 0>>]
  <2>1. Step(c, end) \/ Step(c, bad) \/ Step(c, go)
    BY <1>7 DEF BeginWork
  <2>2. DOMAIN end = Fields /\ end.pc = "done" /\ DOMAIN go = Fields /\ go.pc = "stat"
    BY <1>1 DEF Done, Fields
  <2> HIDE DEF end, go, bad
  <2> QED
    BY <2>1, <2>2, <1>3 DEF MapStage
<1>8. CASE PickStat(c)
  <2> DEFINE next == [p EXCEPT !.dir[2] = @ + 1]
  <2>1. p.pc = "stat" /\ (\/ Step(c, [p EXCEPT !.pc = "mkdir"])
                          \/ Step(c, [p EXCEPT !.pc = "root"])
                          \/ Step(c, bad) \/ Step(c, next))
    BY <1>8 DEF PickStat, At
  <2>2. DOMAIN next = Fields /\ next.pc = "stat"
    BY <2>1, <1>1 DEF Fields
  <2> HIDE DEF next, bad
  <2>3. CASE Step(c, next) \/ Step(c, bad)
    BY <2>1, <2>2, <2>3, <1>3 DEF MapStage
  <2>4. CASE \E pc \in {"mkdir", "root"} : Step(c, [p EXCEPT !.pc = pc])
    BY <2>4, <1>5 DEF MapStage
  <2> QED
    BY <2>1, <2>3, <2>4
<1>9. CASE PickMkdir(c) \/ MetaTmp(c) \/ DataTmp(c) \/ MetaRename(c) \/ Crash(c)
  <2>1. \E pc \in {"root", "meta rename", "data rename", "data tmp", "crashed"} :
          Step(c, [p EXCEPT !.pc = pc])
    BY <1>9 DEF PickMkdir, MetaTmp, DataTmp, OpenTmp, MetaRename, Crash
  <2> QED
    BY <2>1, <1>5 DEF MapStage
<1>10. CASE ReadRoot(c)
  <2>1. \/ Step(c, bad)
        \/ \E todo, wanted :
             Step(c, [p EXCEPT !.pc = "record", !.todo = todo, !.wanted = wanted])
    BY <1>10 DEF ReadRoot
  <2>2. CASE Step(c, bad)
    <3> HIDE DEF bad
    <3> QED
      BY <2>2, <1>3 DEF MapStage
  <2>3. ASSUME NEW todo, NEW wanted,
               Step(c, [p EXCEPT !.pc = "record", !.todo = todo, !.wanted = wanted])
        PROVE  \E s : Good(s)
    <3> DEFINE go == [p EXCEPT !.pc = "record", !.todo = todo, !.wanted = wanted]
    <3>1. DOMAIN go = Fields /\ go.pc = "record" /\ Step(c, go)
      BY <2>3, <1>1 DEF Fields
    <3> HIDE DEF go
    <3> QED
      BY <3>1 DEF MapStage
  <2> QED
    BY <2>1, <2>2, <2>3
<1>11. CASE ReadRecord(c)
  <2> DEFINE skip == [p EXCEPT !.todo = Tail(@)]
  <2>1. p.pc = "record" /\ (\/ Step(c, NextWork(p)) \/ Step(c, AfterRecord(p, FALSE))
                            \/ Step(c, skip) \/ Step(c, [p EXCEPT !.pc = "meta tmp"]))
    BY <1>11 DEF ReadRecord, At
  <2>2. DOMAIN skip = Fields /\ skip.pc = "record"
    BY <2>1, <1>1 DEF Fields
  <2> HIDE DEF skip
  <2>3. CASE Step(c, NextWork(p)) \/ Step(c, skip)
    BY <2>2, <2>3, <1>3 DEF MapStage
  <2>4. CASE Step(c, AfterRecord(p, FALSE))
    BY <2>4, <1>6 DEF MapStage
  <2>5. CASE \E pc \in {"meta tmp"} : Step(c, [p EXCEPT !.pc = pc])
    BY <2>5, <1>5 DEF MapStage
  <2> QED
    BY <2>1, <2>3, <2>4, <2>5
<1>12. CASE MetaFail(c) \/ DataRename(c) \/ DataFail(c)
  <2>1. \E good : Step(c, AfterRecord(p, good))
    BY <1>12 DEF MetaFail, DataRename, DataFail
  <2> QED
    BY <2>1, <1>6 DEF MapStage
<1> QED
  BY <1>7, <1>8, <1>9, <1>10, <1>11, <1>12 DEF Exporting

(* The steps of `ls` itself: the map is renamed from a temporary file that *)
(* holds the whole listing.                                                *)
LEMMA MappingMap ==
  ASSUME MapInv, NEW c \in Cmds, Mapping(c)
  PROVE  MapInv'
<1> DEFINE p == cmd[c]
<1>1. /\ DOMAIN p = Fields /\ p.pc \in MapStage /\ p.ids \in listed /\ DOMAIN tmp = Cmds
      /\ \A o \in Cmds : cmd[o].pc \in MapStage => cmd[o].ids \in listed
      /\ \A o \in Cmds : cmd[o].pc = "map rename" => tmp[o] = cmd[o].ids
  BY DEF Mapping, MapTmp, MapWrite, MapRename, MapFail, At, MapInv, Shape, MapStage
<1>2. PICK s : /\ Step(c, s) /\ DOMAIN s = Fields /\ s.ids = p.ids
               /\ s.pc = "map rename" => tmp'[c] = p.ids
               /\ listed' = listed
               /\ DOMAIN tmp' = Cmds /\ \A o \in Cmds \ {c} : tmp'[o] = tmp[o]
               /\ ridmap' = ridmap \/ ridmap' = p.ids
  <2>1. \A pc : LET s == [p EXCEPT !.pc = pc]
                IN  DOMAIN s = Fields /\ s.pc = pc /\ s.ids = p.ids
    BY <1>1 DEF Fields
  <2>2. \A st : DOMAIN Done(p, st) = Fields /\ Done(p, st).pc = "done" /\ Done(p, st).ids = p.ids
    BY <1>1 DEF Done, Fields
  <2>3. CASE MapTmp(c)
    <3>1. /\ Step(c, [p EXCEPT !.pc = "map write"]) /\ tmp' = [tmp EXCEPT ![c] = <<>>]
          /\ UNCHANGED <<ridmap, listed>>
      BY <2>3 DEF MapTmp
    <3> QED
      BY <3>1, <2>1, <1>1, ZenonT(30)
  <2>4. CASE MapWrite(c)
    <3>1. /\ Step(c, [p EXCEPT !.pc = "map rename"]) /\ tmp' = [tmp EXCEPT ![c] = p.ids]
          /\ UNCHANGED <<ridmap, listed>>
      BY <2>4 DEF MapWrite
    <3> QED
      BY <3>1, <2>1, <1>1
  <2>5. CASE MapRename(c)
    <3>1. /\ Step(c, Done(p, "ok")) /\ tmp' = [tmp EXCEPT ![c] = None]
          /\ ridmap' = tmp[c] /\ p.pc = "map rename" /\ UNCHANGED listed
      BY <2>5 DEF MapRename, At
    <3>2. ridmap' = p.ids
      BY <3>1, <1>1
    <3> QED
      BY <3>1, <3>2, <2>2, <1>1
  <2>6. CASE MapFail(c)
    <3>1. /\ Step(c, Done(p, "error")) /\ tmp' = [tmp EXCEPT ![c] = None]
          /\ UNCHANGED <<ridmap, listed>>
      BY <2>6 DEF MapFail
    <3> QED
      BY <3>1, <2>2, <1>1
  <2> QED
    BY <2>3, <2>4, <2>5, <2>6 DEF Mapping
<1>3. Shape' /\ cmd'[c] = s /\ \A o \in Cmds \ {c} : cmd'[o] = cmd[o]
  BY <1>1, <1>2, StepFacts DEF MapInv
<1>4. MapIsListing'
  BY <1>1, <1>2 DEF MapInv, MapIsListing
<1>5. ASSUME NEW o \in Cmds
      PROVE  /\ cmd'[o].pc \in MapStage => cmd'[o].ids \in listed'
             /\ cmd'[o].pc = "map rename" => tmp'[o] = cmd'[o].ids
  BY <1>1, <1>2, <1>3
<1> QED
  BY <1>3, <1>4, <1>5 DEF MapInv

(* A process that is replacing the map holds a listing that was shown, and *)
(* its temporary file holds all of it before the rename.                   *)
THEOREM MapInvariance == Spec => []MapInv
<1>1. Init => MapInv
  <2> SUFFICES ASSUME Init PROVE MapInv
    OBVIOUS
  <2>1. /\ tmp = [c \in Cmds |-> None] /\ cmd = [c \in Cmds |-> Idle]
        /\ ridmap = None \/ ridmap \in listed
    BY DEF Init
  <2>2. \A c \in Cmds : cmd[c] = Idle /\ cmd[c].pc = "idle"
    BY <2>1, IdleFacts
  <2>3. Shape
    BY <2>1, IdleFacts DEF Shape
  <2> QED
    BY <2>1, <2>2, <2>3 DEF MapInv, MapIsListing, MapStage
<1>2. MapInv /\ ExportInv /\ [Next]_vars => MapInv'
  <2> SUFFICES ASSUME MapInv, ExportInv, [Next]_vars PROVE MapInv'
    OBVIOUS
  <2>1. CASE Record \/ UNCHANGED vars
    BY <2>1 DEF Record, vars, MapInv, Shape, MapIsListing
  <2>2. ASSUME NEW c \in Cmds, NEW o \in Outcomes, Invoke(c, o) PROVE MapInv'
    <3>1. /\ UNCHANGED <<ridmap, tmp>> /\ listed \subseteq listed'
          /\ \E s : /\ Step(c, s) /\ Plain(s)
                    /\ s.pc \in MapStage => s.pc = "map tmp" /\ s.ids \in listed'
      BY <2>2, InvokeStep
    <3> QED
      BY <3>1, MapFrame DEF Plain
  <2>3. ASSUME NEW c \in Cmds, Mapping(c) PROVE MapInv'
    BY <2>3, MappingMap
  <2>4. ASSUME NEW c \in Cmds, Selecting(c) PROVE MapInv'
    <3>1. Shape /\ TodoOK(cmd[c]) /\ WantedOK(cmd[c])
      BY DEF ExportInv
    <3>2. UNCHANGED Others /\ \E s : Step(c, s) /\ Plain(s) /\ s.pc \notin MapStage
      BY <2>4, <3>1, SelectingStep
    <3> QED
      BY <3>2, MapFrame DEF Plain, Others
  <2>5. ASSUME NEW c \in Cmds, Exporting(c) PROVE MapInv'
    <3>1. UNCHANGED Others /\ \E s : Step(c, s) /\ DOMAIN s = Fields /\ s.pc \notin MapStage
      BY <2>5, ExportingStep DEF MapInv
    <3> QED
      BY <3>1, MapFrame DEF Others
  <2> QED
    BY <2>1, <2>2, <2>3, <2>4, <2>5 DEF Next, Mapping, Selecting, Exporting
<1> QED
  BY <1>1, <1>2, ExportInvariance, PTL DEF Spec

(* The RIDMAP file is always one whole listing that an `ls` has shown,     *)
(* whatever crashes, fails or runs at the same time.                       *)
THEOREM MapStaysWhole == Spec => []MapIsListing
<1>1. MapInv => MapIsListing
  BY DEF MapInv
<1> QED
  BY <1>1, MapInvariance, PTL

-----------------------------------------------------------------------------
(* get-result: what a report holds and what it says it leaves out.         *)

(* A set of naturals that is not empty has a least member. *)
LEMMA LeastOf ==
  ASSUME NEW T, T \subseteq Nat, T # {}
  PROVE  \E x \in T : \A y \in T : x <= y
<1>1. \E x \in T : \A y \in T : ~(<<y, x>> \in OpToRel(<, Nat))
  BY NatLessThanWellFounded, WFMin
<1>2. \E x \in T : \A y \in T : ~(y < x)
  BY <1>1 DEF OpToRel
<1> QED
  BY <1>2

(* The root that derive_to leads to is a task that can be read. *)
LEMMA RootFacts ==
  ASSUME NEW id, FollowDerive(id) # None
  PROVE  FollowDerive(id) \in TaskIds /\ Readable(FollowDerive(id))
<1> DEFINE chain == CHOOSE g : g = [n \in 0..DeriveMaxHops |->
                      IF n = 0 THEN id
                      ELSE IF g[n - 1] \in TaskIds /\ Readable(g[n - 1])
                           THEN Attr[g[n - 1]].derive ELSE None]
           entry == {n \in 0..DeriveMaxHops :
                       /\ chain[n] \in TaskIds /\ Readable(chain[n])
                       /\ Attr[chain[n]].derive = None}
           least == CHOOSE n \in entry : \A m \in entry : n <= m
<1>1. FollowDerive(id) = IF entry = {} THEN None ELSE chain[least]
  BY DEF FollowDerive
<1> HIDE DEF chain
<1>2. entry # {} /\ entry \subseteq Nat
  BY <1>1
<1>3. \E n \in entry : \A m \in entry : n <= m
  BY <1>2, LeastOf
<1>4. least \in entry
  BY <1>3
<1> QED
  BY <1>1, <1>2, <1>4

(* The logical tasks of a selection: members by subrank, and a task that   *)
(* is no capsule is its own member, which can be read.                     *)
TaskOK(t) ==
  /\ DOMAIN t = {"root", "ref", "capsule", "members", "readable"}
  /\ \E n \in Nat : DOMAIN t.members = 1..n /\ Len(t.members) = n
  /\ t.readable \subseteq DOMAIN t.members
  /\ ~t.capsule => t.readable = DOMAIN t.members

LEMMA LogicalFacts ==
  ASSUME StoreOK, NEW root, NEW ref, Readable(root)
  PROVE  TaskOK(Logical(root, ref))
<1> DEFINE ms == IF ConfirmCapsule(root) THEN ReadCapsuleMembers(root) ELSE <<root>>
           t == Logical(root, ref)
<1>1. t = [root |-> root, ref |-> ref, capsule |-> ConfirmCapsule(root), members |-> ms,
           readable |-> {m \in DOMAIN ms : Readable(ms[m])}]
  BY DEF Logical
<1>2. \E n \in Nat : DOMAIN ms = 1..n /\ Len(ms) = n
  <2>1. CASE ConfirmCapsule(root) /\ root \in DOMAIN member
    <3>1. ms = member[root] /\ ms \in Seq(TaskIds)
      BY <2>1 DEF ReadCapsuleMembers, StoreOK, MemberList
    <3> HIDE DEF ms
    <3>2. Len(ms) \in Nat /\ DOMAIN ms = 1..Len(ms)
      BY <3>1
    <3> QED
      BY <3>2
  <2>2. CASE ConfirmCapsule(root) /\ root \notin DOMAIN member
    <3>1. ms = <<>>
      BY <2>2 DEF ReadCapsuleMembers
    <3> QED
      BY <3>1
  <2>3. CASE ~ConfirmCapsule(root)
    BY <2>3
  <2> QED
    BY <2>1, <2>2, <2>3
<1>3. ~ConfirmCapsule(root) => {m \in DOMAIN ms : Readable(ms[m])} = DOMAIN ms
  BY DEF Readable
<1> HIDE DEF ms
<1> QED
  BY <1>1, <1>2, <1>3 DEF TaskOK

LEMMA BuildFacts ==
  ASSUME StoreOK, NEW ids, NEW refs, BuildLogicalTasks(ids, refs) # None
  PROVE  \A i \in DOMAIN BuildLogicalTasks(ids, refs) : TaskOK(BuildLogicalTasks(ids, refs)[i])
<1> DEFINE roots == [i \in DOMAIN ids |-> FollowDerive(ids[i])]
           first == {i \in DOMAIN ids : \A j \in 1..(i - 1) : roots[j] # roots[i]}
           place(i) == Cardinality({j \in first : j <= i})
           at(n) == CHOOSE i \in first : place(i) = n
           tasks == [n \in {place(i) : i \in first} |-> Logical(roots[at(n)], refs[at(n)])]
<1>1. BuildLogicalTasks(ids, refs) = tasks /\ None \notin Range(roots)
  BY DEF BuildLogicalTasks
<1>2. ASSUME NEW n \in DOMAIN tasks PROVE TaskOK(tasks[n])
  <2>1. PICK i \in first : place(i) = n
    OBVIOUS
  <2>2. at(n) \in first
    BY <2>1
  <2>3. at(n) \in DOMAIN ids
    BY <2>2
  <2>4. roots[at(n)] # None /\ roots[at(n)] = FollowDerive(ids[at(n)])
    BY <2>3, <1>1 DEF Range
  <2>5. Readable(roots[at(n)])
    BY <2>4, RootFacts
  <2>6. tasks[n] = Logical(roots[at(n)], refs[at(n)])
    OBVIOUS
  <2> HIDE DEF roots, at
  <2> QED
    BY <2>5, <2>6, LogicalFacts
<1> QED
  BY <1>1, <1>2
-----------------------------------------------------------------------------
(* What the fold over the subranks 1..n gives.                             *)

(* Iterate is the fold of Pool on the sets of subranks up to n. *)
Iterate(t, name, n, g) ==
  g = [s \in SUBSET (1..n) |->
         IF s = {} THEN NoSamples
         ELSE CollectSamplesMember(t, name, g[s \ {Max(s)}], Max(s))]

(* Each member adds itself, or nothing. *)
LEMMA IterateStep ==
  ASSUME NEW t, NEW name, NEW n \in Nat, NEW g, Iterate(t, name, n, g)
  PROVE  \E h : Iterate(t, name, n + 1, h)
<1> DEFINE C(acc, m) == CollectSamplesMember(t, name, acc, m)
           h == [s \in SUBSET (1..(n + 1)) |->
                   IF n + 1 \in s THEN C(g[s \ {n + 1}], n + 1) ELSE g[s]]
<1> HIDE DEF C
<1>0. \A s \in SUBSET (1..n) : g[s] = IF s = {} THEN NoSamples ELSE C(g[s \ {Max(s)}], Max(s))
  BY DEF Iterate, C
<1>1. ASSUME NEW s \in SUBSET (1..(n + 1))
      PROVE  h[s] = IF s = {} THEN NoSamples ELSE C(h[s \ {Max(s)}], Max(s))
  <2>1. CASE n + 1 \in s
    <3>1. Max(s) = n + 1
      <4>1. \A y \in s : n + 1 >= y
        OBVIOUS
      <4>2. \A x \in s : (\A y \in s : x >= y) => x = n + 1
        BY <4>1, <2>1
      <4> QED
        BY <4>1, <4>2, <2>1 DEF Max
    <3>2. s \ {n + 1} \in SUBSET (1..n) /\ s \ {n + 1} \in SUBSET (1..(n + 1))
      OBVIOUS
    <3>3. h[s \ {n + 1}] = g[s \ {n + 1}]
      BY <3>2
    <3> QED
      BY <2>1, <3>1, <3>3
  <2>2. CASE n + 1 \notin s
    <3>1. s \in SUBSET (1..n) /\ h[s] = g[s]
      BY <2>2
    <3>2. s \ {Max(s)} \in SUBSET (1..(n + 1)) /\ n + 1 \notin s \ {Max(s)}
      BY <2>2
    <3>3. h[s \ {Max(s)}] = g[s \ {Max(s)}]
      BY <3>2
    <3> QED
      BY <3>1, <3>3, <1>0
  <2> QED
    BY <2>1, <2>2
<1>2. h = [s \in SUBSET (1..(n + 1)) |->
             IF s = {} THEN NoSamples ELSE C(h[s \ {Max(s)}], Max(s))]
  BY <1>1
<1>3. Iterate(t, name, n + 1, h)
  BY <1>2 DEF Iterate, C
<1> QED
  BY <1>3

LEMMA IterateExists ==
  ASSUME NEW t, NEW name, NEW n \in Nat
  PROVE  \E g : Iterate(t, name, n, g)
<1> DEFINE Bad == {k \in Nat : ~\E g : Iterate(t, name, k, g)}
<1>1. 0 \notin Bad
  <2> DEFINE g == [s \in SUBSET (1..0) |-> NoSamples]
  <2>1. \A s \in SUBSET (1..0) : s = {}
    OBVIOUS
  <2>2. Iterate(t, name, 0, g)
    BY <2>1 DEF Iterate
  <2> QED
    BY <2>2
<1>2. ASSUME Bad # {} PROVE FALSE
  <2>1. PICK k \in Bad : \A j \in Bad : k <= j
    BY <1>2, LeastOf
  <2>2. k - 1 \in Nat /\ k - 1 \notin Bad /\ (k - 1) + 1 = k
    BY <2>1, <1>1
  <2>3. PICK g : Iterate(t, name, k - 1, g)
    BY <2>2
  <2>4. \E h : Iterate(t, name, (k - 1) + 1, h)
    BY <2>2, <2>3, IterateStep
  <2> QED
    BY <2>1, <2>2, <2>4
<1> QED
  BY <1>2

(* What was collected from some members: all of them readable and of the   *)
(* unit of the row, and a refusal names its reason.                        *)
Collected(t, name, acc) ==
  /\ DOMAIN acc = {"used", "type", "unit", "mixed", "flat", "warned"}
  /\ acc.used \subseteq t.readable
  /\ acc.warned \subseteq {"duplicate", "unit"}
  /\ \A m \in acc.used : Output(t.members[m], name).unit = acc.unit

LEMMA CollectStep ==
  ASSUME NEW t, NEW name, NEW acc, Collected(t, name, acc), NEW m
  PROVE  Collected(t, name, CollectSamplesMember(t, name, acc, m))
<1> DEFINE id == t.members[m]
           o == Output(id, name)
           dup == [acc EXCEPT !.warned = @ \cup {"duplicate"}]
           one == [acc EXCEPT !.used = {m}, !.type = o.type, !.unit = o.unit,
                              !.flat = o.ndim > 1]
           bad == [acc EXCEPT !.warned = @ \cup {"unit"}]
           more == [acc EXCEPT !.used = @ \cup {m}, !.flat = @ \/ o.ndim > 1,
                               !.mixed = @ \/ o.type # acc.type]
           r == CollectSamplesMember(t, name, acc, m)
<1>1. \/ r = acc \/ r = dup \/ r = bad
      \/ m \in t.readable /\ r = one
      \/ m \in t.readable /\ r = more /\ o.unit = acc.unit
  BY DEF CollectSamplesMember
<1>2. Collected(t, name, dup) /\ Collected(t, name, bad)
  BY DEF Collected
<1>3. m \in t.readable => Collected(t, name, one)
  BY DEF Collected
<1>4. m \in t.readable /\ o.unit = acc.unit => Collected(t, name, more)
  BY DEF Collected
<1> HIDE DEF dup, one, bad, more, r
<1>5. Collected(t, name, r)
  BY <1>1, <1>2, <1>3, <1>4
<1> QED
  BY <1>5 DEF r

LEMMA IterateCollects ==
  ASSUME NEW t, NEW name, NEW n \in Nat, NEW g, Iterate(t, name, n, g)
  PROVE  Collected(t, name, g[1..n])
<1> DEFINE Bad == {k \in 0..n : ~Collected(t, name, g[1..k])}
<1>1. \A k \in 0..n : 1..k \in SUBSET (1..n)
  OBVIOUS
<1>2. 0 \notin Bad
  <2>1. 1..0 = {} /\ {} \in SUBSET (1..n)
    OBVIOUS
  <2>2. g[{}] = NoSamples
    BY <2>1 DEF Iterate
  <2>3. Collected(t, name, NoSamples)
    BY DEF Collected, NoSamples
  <2> QED
    BY <2>1, <2>2, <2>3
<1>3. ASSUME Bad # {} PROVE FALSE
  <2>0. Bad \subseteq Nat
    OBVIOUS
  <2>1. PICK k \in Bad : \A j \in Bad : k <= j
    BY <1>3, <2>0, LeastOf
  <2>2. k \in 1..n /\ k - 1 \in 0..n /\ k - 1 \notin Bad
    BY <2>1, <1>2
  <2>3. 1..k # {} /\ (1..k) \ {k} = 1..(k - 1) /\ k \in 1..k
    BY <2>2
  <2>4. Max(1..k) = k
    <3>1. \A y \in 1..k : k >= y
      BY <2>2
    <3>2. \A x \in 1..k : (\A y \in 1..k : x >= y) => x = k
      BY <2>2, <2>3, <3>1
    <3> QED
      BY <2>3, <3>1, <3>2 DEF Max
  <2>5. g[1..k] = CollectSamplesMember(t, name, g[1..(k - 1)], k)
    BY <2>2, <2>3, <2>4, <1>1 DEF Iterate
  <2>6. Collected(t, name, g[1..(k - 1)])
    BY <2>2
  <2> QED
    BY <2>1, <2>5, <2>6, CollectStep
<1>4. n \in 0..n /\ n \notin Bad
  BY <1>3
<1> QED
  BY <1>4

LEMMA PoolFacts ==
  ASSUME NEW t, TaskOK(t), NEW name
  PROVE  Collected(t, name, Pool(t, name, Subranks(t)))
<1>1. PICK n \in Nat : DOMAIN t.members = 1..n
  BY DEF TaskOK
<1> DEFINE ms == Subranks(t)
           iter == CHOOSE g : g = [s \in SUBSET (DOMAIN ms) |->
                     IF s = {} THEN NoSamples
                     ELSE CollectSamplesMember(t, name, g[s \ {Max(s)}], ms[Max(s)])]
<1>2. Pool(t, name, ms) = iter[DOMAIN ms]
  BY DEF Pool, FoldLeft, MapThenFoldSet
<1>3. DOMAIN ms = 1..n /\ ms = [m \in 1..n |-> m]
  BY <1>1 DEF Subranks
<1>4. ASSUME NEW s \in SUBSET (1..n), s # {} PROVE Max(s) \in 1..n
  <2> DEFINE far == {n - x : x \in s}
  <2>0. \A x \in s : x \in 1..n /\ n - x \in Nat
    OBVIOUS
  <2>1. far \subseteq Nat /\ far # {}
    BY <1>4, <2>0
  <2>2. PICK d \in far : \A e \in far : d <= e
    BY <2>1, LeastOf
  <2>3. PICK x \in s : d = n - x
    BY <2>2
  <2>4. \A y \in s : n - y \in far /\ x \in Int /\ y \in Int
    OBVIOUS
  <2>5. \A y \in s : x >= y
    BY <2>2, <2>3, <2>4
  <2>6. Max(s) \in s
    BY <2>5 DEF Max
  <2> QED
    BY <2>6
<1>5. ASSUME NEW g
      PROVE  [s \in SUBSET (DOMAIN ms) |->
                IF s = {} THEN NoSamples
                ELSE CollectSamplesMember(t, name, g[s \ {Max(s)}], ms[Max(s)])]
             = [s \in SUBSET (1..n) |->
                  IF s = {} THEN NoSamples
                  ELSE CollectSamplesMember(t, name, g[s \ {Max(s)}], Max(s))]
  <2>1. \A s \in SUBSET (1..n) : s # {} => ms[Max(s)] = Max(s)
    BY <1>3, <1>4
  <2> HIDE DEF ms
  <2> QED
    BY <1>3, <2>1
<1> HIDE DEF ms
<1>6. \E g : Iterate(t, name, n, g)
  BY IterateExists
<1>7. \E g : g = [s \in SUBSET (DOMAIN ms) |->
                    IF s = {} THEN NoSamples
                    ELSE CollectSamplesMember(t, name, g[s \ {Max(s)}], ms[Max(s)])]
  <2>1. PICK g : Iterate(t, name, n, g)
    BY <1>6
  <2>2. g = [s \in SUBSET (1..n) |->
               IF s = {} THEN NoSamples
               ELSE CollectSamplesMember(t, name, g[s \ {Max(s)}], Max(s))]
    BY <2>1 DEF Iterate
  <2>3. g = [s \in SUBSET (DOMAIN ms) |->
               IF s = {} THEN NoSamples
               ELSE CollectSamplesMember(t, name, g[s \ {Max(s)}], ms[Max(s)])]
    BY <2>2, <1>5
  <2> QED
    BY <2>3
<1>8. iter = [s \in SUBSET (DOMAIN ms) |->
                IF s = {} THEN NoSamples
                ELSE CollectSamplesMember(t, name, iter[s \ {Max(s)}], ms[Max(s)])]
  BY <1>7
<1> HIDE DEF iter
<1>9. Iterate(t, name, n, iter)
  BY <1>5, <1>8 DEF Iterate
<1>10. Collected(t, name, iter[1..n])
  BY <1>9, IterateCollects
<1> QED
  BY <1>2, <1>3, <1>10 DEF ms
-----------------------------------------------------------------------------
(* One report.                                                             *)

(* A warning of one of those kinds, that counts no more members than there *)
(* are.                                                                    *)
Warned(r, i, name, kinds) ==
  \E w \in r.warns : /\ w.task = i /\ w.name = name /\ w.kind \in kinds
                     /\ w.used # 0 => w.used < w.of

RowSays(r, row) ==
  LET t == r.tasks[row.task]
  IN  /\ \A m \in row.used : Output(t.members[m], row.name).unit = row.unit
      /\ row.used = {} => \/ Warned(r, row.task, row.name, {"missing"})
                          \/ Warned(r, None, row.name, {"unit", "duplicate"})
      /\ row.used # {} /\ t.readable # row.used => Warned(r, row.task, row.name, {"used"})
      /\ t.readable # DOMAIN t.members => Warned(r, row.task, None, {"meta"})

NamesSay(r) ==
  r.names # None =>
    \A i \in DOMAIN r.tasks : \A name \in DOMAIN r.names.private[i] :
      LET g == r.names.private[i][name]
      IN  g.runs # {} /\ g.shown =>
            UNION {run[1]..run[2] : run \in g.runs} = Presence(r.tasks[i], name)

Honest(r) == (\A row \in r.rows : row.subrank = 0 => RowSays(r, row)) /\ NamesSay(r)

(* The members that can be read are finitely many. *)
LEMMA ReadableFacts ==
  ASSUME NEW t, TaskOK(t), NEW S, S \subseteq t.readable
  PROVE  /\ IsFiniteSet(S) /\ Cardinality(S) \in Nat /\ Cardinality(t.readable) \in Nat
         /\ S # t.readable => Cardinality(S) < Cardinality(t.readable)
         /\ Len(t.members) \in Nat
         /\ t.readable # DOMAIN t.members => Cardinality(t.readable) < Len(t.members)
<1>1. PICK n \in Nat : DOMAIN t.members = 1..n /\ Len(t.members) = n
  BY DEF TaskOK
<1>2. IsFiniteSet(1..n) /\ Cardinality(1..n) = n
  BY <1>1, FS_Interval
<1>3. t.readable \in SUBSET (1..n)
  BY <1>1 DEF TaskOK
<1>4. /\ IsFiniteSet(t.readable)
      /\ t.readable # 1..n => Cardinality(t.readable) < n
  <2>1. IsFiniteSet(t.readable) /\ Cardinality(t.readable) <= Cardinality(1..n)
    BY <1>2, <1>3, FS_Subset
  <2>2. Cardinality(t.readable) = Cardinality(1..n) => t.readable = 1..n
    BY <1>2, <1>3, FS_Subset
  <2>3. Cardinality(t.readable) \in Nat
    BY <2>1, FS_CardinalityType
  <2> QED
    BY <1>2, <2>1, <2>2, <2>3
<1>5. Cardinality(t.readable) \in Nat
  BY <1>4, FS_CardinalityType
<1>6. /\ IsFiniteSet(S)
      /\ S # t.readable => Cardinality(S) < Cardinality(t.readable)
  <2>0. S \in SUBSET t.readable
    OBVIOUS
  <2>1. IsFiniteSet(S) /\ Cardinality(S) <= Cardinality(t.readable)
    BY <1>4, <2>0, FS_Subset
  <2>2. Cardinality(S) = Cardinality(t.readable) => S = t.readable
    BY <1>4, <2>0, FS_Subset
  <2>3. Cardinality(S) \in Nat
    BY <2>1, FS_CardinalityType
  <2> QED
    BY <1>5, <2>1, <2>2, <2>3
<1>7. Cardinality(S) \in Nat
  BY <1>6, FS_CardinalityType
<1> QED
  BY <1>1, <1>4, <1>5, <1>6, <1>7

(* A pooled row and its warnings. *)
LEMMA PooledSays ==
  ASSUME NEW i, NEW t, TaskOK(t), NEW name, NEW r, r.tasks[i] = t,
         RowWarnings(i, t, name) \subseteq r.warns,
         t.readable # DOMAIN t.members => Warned(r, i, None, {"meta"})
  PROVE  RowSays(r, PooledRow(i, t, name))
<1> DEFINE s == Pool(t, name, Subranks(t))
           n == Cardinality(t.readable)
           row == PooledRow(i, t, name)
           warn(k) == [kind |-> k, task |-> i, name |-> name,
                       used |-> Cardinality(s.used), of |-> n]
<1>1. Collected(t, name, s)
  BY PoolFacts
<1>2. /\ row.task = i /\ row.name = name /\ row.used = s.used /\ row.unit = s.unit
  BY DEF PooledRow
<1>3. /\ \A k \in s.warned : MemberWarning(k, name) \in r.warns
      /\ s.used = {} /\ s.warned = {} => warn("missing") \in r.warns
      /\ s.used # {} /\ Cardinality(s.used) < n => warn("used") \in r.warns
  BY DEF RowWarnings, ReadableMembers
<1> HIDE DEF s
<1>4. /\ Cardinality(s.used) \in Nat /\ n \in Nat
      /\ s.used # t.readable => Cardinality(s.used) < n
  BY <1>1, ReadableFacts DEF Collected
<1>5. s.used = {} => Cardinality(s.used) = 0
  BY FS_EmptySet
<1>6. \A k : /\ warn(k).task = i /\ warn(k).name = name /\ warn(k).kind = k
             /\ warn(k).used = Cardinality(s.used) /\ warn(k).of = n
  OBVIOUS
<1> HIDE DEF warn, n, row
<1>7. s.used = {} => \/ Warned(r, i, name, {"missing"})
                     \/ Warned(r, None, name, {"unit", "duplicate"})
  <2> SUFFICES ASSUME s.used = {}
               PROVE  \/ Warned(r, i, name, {"missing"})
                      \/ Warned(r, None, name, {"unit", "duplicate"})
    OBVIOUS
  <2>1. CASE s.warned = {}
    BY <2>1, <1>3, <1>5, <1>6 DEF Warned
  <2>2. CASE s.warned # {}
    <3>1. PICK k \in s.warned : k \in {"unit", "duplicate"}
      BY <2>2, <1>1 DEF Collected
    <3> DEFINE w == MemberWarning(k, name)
    <3>2. w.kind = k /\ w.task = None /\ w.name = name /\ w.used = 0
      BY DEF MemberWarning
    <3>3. w \in r.warns
      BY <1>3
    <3> HIDE DEF w
    <3> QED
      BY <3>1, <3>2, <3>3 DEF Warned
  <2> QED
    BY <2>1, <2>2
<1>8. s.used # {} /\ t.readable # s.used => Warned(r, i, name, {"used"})
  BY <1>3, <1>4, <1>6 DEF Warned
<1>9. \A m \in s.used : Output(t.members[m], name).unit = s.unit
  BY <1>1 DEF Collected
<1>10. RowSays(r, row)
  BY <1>2, <1>7, <1>8, <1>9 DEF RowSays
<1> QED
  BY <1>10 DEF row

(* The ranges of a name, before they are printed, are the members that     *)
(* hold it.                                                                *)
LEMMA RunsFacts ==
  ASSUME NEW t, TaskOK(t), NEW name, SubrankRuns(t, name) # {}
  PROVE  UNION {run[1]..run[2] : run \in SubrankRuns(t, name)} = Presence(t, name)
<1> DEFINE here == Presence(t, name)
           ends(m) == CHOOSE e \in here : /\ e >= m /\ m..e \subseteq here
                                          /\ e + 1 \notin here
           starts == {h \in here : h - 1 \notin here}
<1>1. PICK n \in Nat : DOMAIN t.members = 1..n
  BY DEF TaskOK
<1>2. here \subseteq 1..n
  BY <1>1 DEF Presence, ReadableMembers, TaskOK
<1>3. SubrankRuns(t, name) = {<<m, ends(m)>> : m \in starts}
  BY DEF SubrankRuns
<1> HIDE DEF here
<1>4. ASSUME NEW m \in here
      PROVE  ends(m) \in here /\ ends(m) >= m /\ m..ends(m) \subseteq here
                /\ ends(m) + 1 \notin here
  <2> DEFINE stop == {e \in m..n : e + 1 \notin here}
  <2>1. m \in 1..n /\ n \in stop
    BY <1>2
  <2>2. stop \subseteq Nat
    BY <2>1
  <2>3. PICK e \in stop : \A x \in stop : e <= x
    BY <2>1, <2>2, LeastOf
  <2>4. ASSUME NEW x \in m..e PROVE x \in here
    <3> DEFINE gap == {y \in m..e : y \notin here}
    <3>1. ASSUME gap # {} PROVE FALSE
      <4>0. gap \subseteq Nat
        BY <2>1
      <4>1. PICK y \in gap : \A z \in gap : y <= z
        BY <3>1, <4>0, LeastOf
      <4>2. y \in Nat /\ y # m /\ y > m /\ y <= e /\ e \in Nat /\ m \in Nat /\ e <= n
        BY <4>1, <2>1, <2>3
      <4>3. y - 1 \in m..n /\ (y - 1) + 1 = y
        BY <4>2
      <4>4. y - 1 \in stop
        BY <4>1, <4>3
      <4> QED
        BY <4>2, <4>4, <2>3
    <3> QED
      BY <3>1
  <2>5. e \in here /\ e >= m /\ m..e \subseteq here /\ e + 1 \notin here
    BY <2>1, <2>3, <2>4
  <2> QED
    BY <2>5
<1>5. ASSUME NEW x \in here PROVE \E m \in starts : x \in m..ends(m)
  <2> DEFINE back == {m \in 1..x : m..x \subseteq here}
  <2>1. x \in 1..n /\ x \in back
    BY <1>2
  <2>2. PICK m \in back : \A y \in back : m <= y
    <3>1. back \subseteq Nat
      OBVIOUS
    <3> QED
      BY <2>1, <3>1, LeastOf
  <2>3. m \in Nat /\ m >= 1 /\ m <= x /\ x \in Nat /\ m \in here
    BY <2>1, <2>2
  <2>4. m - 1 \notin here
    <3> SUFFICES ASSUME m - 1 \in here PROVE FALSE
      OBVIOUS
    <3>1. m - 1 \in 1..x
      BY <1>2, <2>3
    <3>2. (m - 1)..x \subseteq here
      <4>1. \A y \in (m - 1)..x : y = m - 1 \/ y \in m..x
        BY <2>3
      <4> QED
        BY <4>1, <2>2
    <3> QED
      BY <3>1, <3>2, <2>2, <2>3
  <2>5. /\ ends(m) \in Nat /\ ends(m) + 1 \notin here /\ ends(m) >= m
    <3>1. ends(m) \in here /\ ends(m) >= m /\ ends(m) + 1 \notin here
      BY <1>4, <2>3
    <3>2. \A e \in here : e \in Nat
      BY <1>2
    <3> HIDE DEF ends
    <3>3. ends(m) \in Nat
      BY <3>1, <3>2
    <3> QED
      BY <3>1, <3>3
  <2> HIDE DEF ends
  <2>6. x <= ends(m)
    <3> SUFFICES ASSUME x > ends(m) PROVE FALSE
      BY <2>3, <2>5
    <3>1. ends(m) + 1 \in m..x
      BY <2>3, <2>5
    <3> QED
      BY <3>1, <2>2, <2>5
  <2> QED
    BY <2>3, <2>4, <2>5, <2>6
<1>6. ASSUME NEW x PROVE (\E m \in starts : x \in m..ends(m)) => x \in here
  BY <1>4
<1> HIDE DEF ends, starts
<1>7. UNION {run[1]..run[2] : run \in {<<m, ends(m)>> : m \in starts}} = here
  <2>1. \A x : x \in UNION {run[1]..run[2] : run \in {<<m, ends(m)>> : m \in starts}}
                 <=> \E m \in starts : x \in m..ends(m)
    <3>1. \A m : <<m, ends(m)>>[1] = m /\ <<m, ends(m)>>[2] = ends(m)
      OBVIOUS
    <3> QED
      BY <3>1, Zenon
  <2> QED
    BY <2>1, <1>5, <1>6
<1> QED
  BY <1>3, <1>7 DEF here

(* The warning of a task with members that cannot be read. *)
LEMMA MetaSays ==
  ASSUME NEW tasks, NEW i \in DOMAIN tasks, TaskOK(tasks[i]), NEW r,
         MetaWarnings(tasks) \subseteq r.warns,
         tasks[i].readable # DOMAIN tasks[i].members
  PROVE  Warned(r, i, None, {"meta"})
<1> DEFINE t == tasks[i]
           w == [kind |-> "meta", task |-> i, name |-> None,
                 used |-> Cardinality(t.readable), of |-> Len(t.members)]
<1>1. t.capsule
  BY DEF TaskOK
<1>2. w \in MetaWarnings(tasks)
  BY <1>1 DEF MetaWarnings, ReadableMembers
<1>3. w.used < w.of
  BY ReadableFacts
<1>4. w.task = i /\ w.name = None /\ w.kind = "meta"
  OBVIOUS
<1> HIDE DEF w
<1> QED
  BY <1>2, <1>3, <1>4 DEF Warned

(* What get-result prints for logical tasks of that kind. *)
LEMMA ResultHonest ==
  ASSUME NEW tasks, NEW opts, tasks # None => \A i \in DOMAIN tasks : TaskOK(tasks[i])
  PROVE  Honest(GetResult(tasks, opts))
<1> DEFINE r == GetResult(tasks, opts)
           cols == DataColumns(tasks, opts)
           rows == DataRows(tasks, cols, opts.each)
           meta == MetaRows(tasks, MetaColumns(opts), opts.each)
           dead == \A i \in DOMAIN tasks : ReadableMembers(tasks[i]) = {}
           no == NoReport("error")
           gone == [no EXCEPT !.warns = AvailabilityWarnings(tasks)]
           help == [NoReport("ok") EXCEPT !.tasks = tasks, !.names = NameReport(tasks)]
           full == [status |-> IF rows # {} /\ \A x \in rows : x.used = {}
                               THEN "metric missing" ELSE "ok",
                    tasks  |-> tasks,
                    meta   |-> meta,
                    rows   |-> rows,
                    warns  |-> AvailabilityWarnings(tasks) \cup MetaWarnings(tasks)
                                 \cup CellWarnings(meta) \cup
                               UNION {IF opts.each
                                      THEN EachWarnings(tasks[i], cols[c])
                                      ELSE RowWarnings(i, tasks[i], cols[c]) :
                                      i \in DOMAIN tasks, c \in DOMAIN cols},
                    names  |-> None]
<1>1. \/ r = no \/ r = gone
      \/ tasks # None /\ r = help
      \/ tasks # None /\ r = full
  <2>1. r = IF tasks = None THEN no ELSE IF dead THEN gone
            ELSE IF opts.help THEN help ELSE full
    BY DEF GetResult, Tables
  <2> HIDE DEF r, no, gone, help, full, dead
  <2> QED
    BY <2>1
<1>2. Honest(no) /\ Honest(gone)
  BY DEF Honest, NamesSay, NoReport
<1>3. tasks # None => Honest(help)
  <2> SUFFICES ASSUME tasks # None PROVE Honest(help)
    OBVIOUS
  <2>1. help.rows = {} /\ help.tasks = tasks /\ help.names = NameReport(tasks)
    BY DEF NoReport
  <2> HIDE DEF help
  <2>2. ASSUME NEW i \in DOMAIN tasks, NEW name \in DOMAIN NameReport(tasks).private[i]
        PROVE  NameReport(tasks).private[i][name].runs = SubrankRuns(tasks[i], name)
    <3>1. NameReport(tasks).private[i][name] = SubrankPresence(tasks[i], name)
      BY <2>2 DEF NameReport
    <3> QED
      BY <3>1 DEF SubrankPresence
  <2>3. ASSUME NEW i \in DOMAIN tasks, NEW name \in DOMAIN NameReport(tasks).private[i],
               NameReport(tasks).private[i][name].runs # {}
        PROVE  UNION {run[1]..run[2] : run \in NameReport(tasks).private[i][name].runs}
                 = Presence(tasks[i], name)
    <3>1. NameReport(tasks).private[i][name].runs = SubrankRuns(tasks[i], name)
      BY <2>2
    <3>2. TaskOK(tasks[i]) /\ SubrankRuns(tasks[i], name) # {}
      BY <2>3, <3>1
    <3> QED
      BY <3>1, <3>2, RunsFacts
  <2>4. NamesSay(help)
    BY <2>1, <2>3 DEF NamesSay
  <2> QED
    BY <2>1, <2>4 DEF Honest
<1>4. ASSUME tasks # None PROVE Honest(full)
  <2>1. full.rows = rows /\ full.tasks = tasks /\ full.names = None
    OBVIOUS
  <2>2. MetaWarnings(tasks) \subseteq full.warns
    OBVIOUS
  <2>3. ASSUME ~opts.each, NEW i \in DOMAIN tasks, NEW c \in DOMAIN cols
        PROVE  RowWarnings(i, tasks[i], cols[c]) \subseteq full.warns
    BY <2>3
  <2> HIDE DEF full
  <2>4. ASSUME NEW row \in rows, row.subrank = 0 PROVE RowSays(full, row)
    <3>1. PICK i \in DOMAIN tasks, c \in DOMAIN cols :
            row \in IF opts.each
                    THEN {EachRow(i, tasks[i], cols[c], m) : m \in DOMAIN tasks[i].members}
                    ELSE {PooledRow(i, tasks[i], cols[c])}
      BY <2>4 DEF DataRows
    <3>2. TaskOK(tasks[i])
      BY <1>4
    <3>3. ~opts.each /\ row = PooledRow(i, tasks[i], cols[c])
      <4>1. ASSUME opts.each PROVE FALSE
        <5>1. PICK m \in DOMAIN tasks[i].members : row = EachRow(i, tasks[i], cols[c], m)
          BY <3>1, <4>1
        <5>2. row.subrank = m
          BY <5>1 DEF EachRow
        <5>3. 0 \notin DOMAIN tasks[i].members
          BY <3>2 DEF TaskOK
        <5> QED
          BY <5>1, <5>2, <5>3, <2>4
      <4> QED
        BY <3>1, <4>1
    <3>4. tasks[i].readable # DOMAIN tasks[i].members => Warned(full, i, None, {"meta"})
      BY <3>2, <2>2, MetaSays
    <3>5. RowWarnings(i, tasks[i], cols[c]) \subseteq full.warns
      BY <3>3, <2>3
    <3> HIDE DEF cols
    <3>6. RowSays(full, PooledRow(i, tasks[i], cols[c]))
      BY <3>2, <3>4, <3>5, <2>1, PooledSays
    <3> QED
      BY <3>3, <3>6
  <2>5. NamesSay(full)
    BY <2>1 DEF NamesSay
  <2> HIDE DEF rows
  <2> QED
    BY <2>1, <2>4, <2>5 DEF Honest
<1> HIDE DEF no, gone, help, full, r
<1>5. Honest(r)
  BY <1>1, <1>2, <1>3, <1>4
<1> QED
  BY <1>5 DEF r

-----------------------------------------------------------------------------
(* A report is made in one step and kept.                                  *)

ReportsHonest == \A c \in Cmds : cmd[c].report # None => Honest(cmd[c].report)

LEMMA KeepReports ==
  ASSUME ReportsHonest, Shape, NEW c \in Cmds, NEW s, Step(c, s),
         s.report # None => s.report = cmd[c].report \/ Honest(s.report)
  PROVE  ReportsHonest'
<1>1. cmd'[c] = s /\ \A o \in Cmds \ {c} : cmd'[o] = cmd[o]
  BY DEF Step, Shape
<1> QED
  BY <1>1 DEF ReportsHonest

LEMMA ReportStep ==
  ASSUME ReportsHonest, Shape, StoreOK, NEW c \in Cmds, Report(c)
  PROVE  ReportsHonest'
<1> DEFINE p == cmd[c]
           refs == [i \in DOMAIN p.ids |-> IF p.opts.sel.kind = "rid" THEN <<"r", p.rids[i]>>
                                           ELSE <<"i", i - 1>>]
           tasks == BuildLogicalTasks(p.ids, refs)
           r == GetResult(tasks, p.opts)
           s == [Done(p, r.status) EXCEPT !.report = r]
<1>1. Step(c, s)
  BY DEF Report
<1>2. s.report = r
  BY DEF Shape, Fields, Done
<1> HIDE DEF s, refs
<1>3. tasks # None => \A i \in DOMAIN tasks : TaskOK(tasks[i])
  BY BuildFacts
<1> HIDE DEF tasks
<1>4. Honest(r)
  BY <1>3, ResultHonest
<1> QED
  BY <1>1, <1>2, <1>4, KeepReports

(* No other step of a command touches its report. *)
LEMMA OtherStep ==
  ASSUME Shape, NEW c \in Cmds,
         \/ \E o : Invoke(c, o)
         \/ Mapping(c) \/ ParseRids(c) \/ IndexMap(c) \/ ReadMap(c) \/ ResolvePrefixes(c)
         \/ BuildWorks(c) \/ Exporting(c)
  PROVE  \E s : Step(c, s) /\ (s.report = None \/ s.report = cmd[c].report)
<1> DEFINE p == cmd[c]
           Good(s) == Step(c, s) /\ (s.report = None \/ s.report = p.report)
<1>1. DOMAIN p = Fields
  BY DEF Shape
<1>2. \A q : DOMAIN q = Fields =>
        /\ \A pc : LET s == [q EXCEPT !.pc = pc]
                   IN  s.report = q.report /\ DOMAIN s = Fields
        /\ \A st : Done(q, st).report = q.report /\ DOMAIN Done(q, st) = Fields
        /\ NextWork(q).report = q.report /\ DOMAIN NextWork(q) = Fields
        /\ [NextWork(q) EXCEPT !.failed = TRUE].report = q.report
  BY DEF Fields, Done, NextWork
<1>3. /\ \A st : Done(p, st).report = p.report
      /\ \A pc : [p EXCEPT !.pc = pc].report = p.report
      /\ NextWork(p).report = p.report /\ [NextWork(p) EXCEPT !.failed = TRUE].report = p.report
  BY <1>1, <1>2
<1> SUFFICES \E s : Good(s)
  OBVIOUS
<1>4. \A s : Step(c, s) /\ s.report = p.report => Good(s)
  OBVIOUS
<1>5. \A good : AfterRecord(p, good).report = p.report
  BY <1>1 DEF AfterRecord, NextWork, Fields
<1>6. CASE \E o : Invoke(c, o)
  <2>1. PICK o : Invoke(c, o)
    BY <1>6
  <2> DEFINE i == [Idle EXCEPT !.op = "ls"]
             j == [Idle EXCEPT !.op = o.op]
             run == [Idle EXCEPT !.op = "ls", !.pc = "map tmp", !.ids = Listing(o.opts)]
             go == [Idle EXCEPT !.op = o.op, !.opts = o.opts,
                      !.pc = CASE o.opts.sel.kind = "rid" -> "parse rids"
                               [] o.opts.sel.kind = "id"  -> "resolve ids"
                               [] OTHER                   -> "read map"]
  <2>2. /\ Idle.report = None /\ i.report = None /\ j.report = None /\ run.report = None
        /\ go.report = None
        /\ DOMAIN Idle = Fields /\ DOMAIN i = Fields /\ DOMAIN j = Fields
    BY DEF Idle, Fields
  <2>3. \/ Step(c, Done(Idle, "help")) \/ Step(c, Done(Idle, "error"))
        \/ Step(c, Done(i, "ok")) \/ Step(c, run) \/ Step(c, Done(j, "error")) \/ Step(c, go)
    BY <2>1 DEF Invoke, StartLs, Start
  <2> HIDE DEF i, j, run, go
  <2> QED
    BY <2>2, <2>3, <1>2
<1>7. CASE Mapping(c)
  <2>1. \/ \E pc : Step(c, [p EXCEPT !.pc = pc])
        \/ \E st : Step(c, Done(p, st))
    BY <1>7 DEF Mapping, MapTmp, MapWrite, MapRename, MapFail
  <2> HIDE DEF Good, p
  <2> QED
    BY <2>1, <1>3, <1>4
<1>8. CASE ParseRids(c) \/ IndexMap(c) \/ ReadMap(c) \/ ResolvePrefixes(c)
  <2>1. \/ \E st : Step(c, Done(p, st))
        \/ \E rids, seen : Step(c, [p EXCEPT !.pc = "index map", !.rids = rids, !.seen = seen])
        \/ \E ids : Step(c, [p EXCEPT !.pc = "selected", !.ids = ids, !.seen = <<>>])
        \/ \E ids : Step(c, [p EXCEPT !.pc = "selected", !.ids = ids])
    BY <1>8 DEF ParseRids, IndexMap, ReadMap, ResolvePrefixes
  <2>2. /\ \A rids, seen : [p EXCEPT !.pc = "index map", !.rids = rids, !.seen = seen].report
                             = p.report
        /\ \A ids : [p EXCEPT !.pc = "selected", !.ids = ids, !.seen = <<>>].report = p.report
        /\ \A ids : [p EXCEPT !.pc = "selected", !.ids = ids].report = p.report
    BY <1>1 DEF Fields
  <2> HIDE DEF Good, p
  <2> QED
    BY <2>1, <2>2, <1>3, <1>4
<1>9. CASE BuildWorks(c)
  <2>1. \/ Step(c, Done(p, "error"))
        \/ \E works : Step(c, [p EXCEPT !.pc = "work", !.works = works])
    BY <1>9 DEF BuildWorks
  <2>2. \A works : [p EXCEPT !.pc = "work", !.works = works].report = p.report
    BY <1>1 DEF Fields
  <2> HIDE DEF Good, p
  <2> QED
    BY <2>1, <2>2, <1>3, <1>4
<1>10. CASE Exporting(c)
  <2> DEFINE bad == [NextWork(p) EXCEPT !.failed = TRUE]
             dir == <<Head(p.works).root, 0>>
             start == [p EXCEPT !.pc = "stat", !.dir = dir]
             next == [p EXCEPT !.dir[2] = @ + 1]
             skip == [p EXCEPT !.todo = Tail(@)]
  <2>1. \/ \E pc : Step(c, [p EXCEPT !.pc = pc])
        \/ \E st : Step(c, Done(p, st))
        \/ \E good : Step(c, AfterRecord(p, good))
        \/ \E todo, wanted :
             Step(c, [p EXCEPT !.pc = "record", !.todo = todo, !.wanted = wanted])
        \/ Step(c, NextWork(p)) \/ Step(c, bad) \/ Step(c, start) \/ Step(c, next)
        \/ Step(c, skip)
    <3>1. CASE BeginWork(c)
      BY <3>1 DEF BeginWork
    <3>2. CASE PickStat(c)
      BY <3>2 DEF PickStat
    <3>3. CASE PickMkdir(c) \/ MetaTmp(c) \/ DataTmp(c) \/ MetaRename(c) \/ Crash(c)
      BY <3>3 DEF PickMkdir, MetaTmp, DataTmp, OpenTmp, MetaRename, Crash
    <3>4. CASE ReadRoot(c)
      BY <3>4 DEF ReadRoot
    <3>5. CASE ReadRecord(c)
      BY <3>5 DEF ReadRecord
    <3>6. CASE MetaFail(c) \/ DataRename(c) \/ DataFail(c)
      BY <3>6 DEF MetaFail, DataRename, DataFail
    <3> QED
      BY <1>10, <3>1, <3>2, <3>3, <3>4, <3>5, <3>6 DEF Exporting
  <2>2. /\ start.report = p.report /\ next.report = p.report /\ skip.report = p.report
        /\ \A todo, wanted :
             [p EXCEPT !.pc = "record", !.todo = todo, !.wanted = wanted].report = p.report
    BY <1>1 DEF Fields
  <2>3. bad.report = p.report
    BY <1>1, <1>2
  <2> HIDE DEF bad, start, next, skip
  <2> HIDE DEF Good, p
  <2> QED
    BY <2>1, <2>2, <2>3, <1>5, <1>3, <1>4
<1> QED
  BY <1>6, <1>7, <1>8, <1>9, <1>10

(* get-result says what it leaves out: samples of one unit in a pooled     *)
(* row, a warning that counts every member left out of it or that could    *)
(* not be read, a warning for a row without samples, and ranges that, when *)
(* their text fits its buffer, name the members that hold a name, no more  *)
(* and no fewer.                                                           *)
THEOREM ReportsSayWhatTheyLeaveOut == Spec => []SaysWhatItLeavesOut
<1>1. Init => ReportsHonest
  <2>1. Idle.report = None
    BY DEF Idle
  <2> QED
    BY <2>1 DEF Init, ReportsHonest
<1>2. ReportsHonest /\ ExportInv /\ [Next]_vars => ReportsHonest'
  <2> SUFFICES ASSUME ReportsHonest, ExportInv, [Next]_vars PROVE ReportsHonest'
    OBVIOUS
  <2>0. Shape /\ StoreOK
    BY DEF ExportInv
  <2>1. CASE Record \/ UNCHANGED vars
    BY <2>1 DEF Record, vars, ReportsHonest
  <2>2. ASSUME NEW c \in Cmds, Report(c) PROVE ReportsHonest'
    BY <2>0, <2>2, ReportStep
  <2>3. ASSUME NEW c \in Cmds,
               \/ \E o : Invoke(c, o)
               \/ Mapping(c) \/ ParseRids(c) \/ IndexMap(c) \/ ReadMap(c)
               \/ ResolvePrefixes(c) \/ BuildWorks(c) \/ Exporting(c)
        PROVE  ReportsHonest'
    <3>1. \E s : Step(c, s) /\ (s.report = None \/ s.report = cmd[c].report)
      BY <2>0, <2>3, OtherStep
    <3> QED
      BY <2>0, <3>1, KeepReports
  <2> QED
    BY <2>1, <2>2, <2>3 DEF Next, Mapping, Exporting
<1>3. ReportsHonest => SaysWhatItLeavesOut
  <2> SUFFICES ASSUME ReportsHonest, NEW c \in Cmds, cmd[c].report # None
               PROVE  LET r == cmd[c].report
                          warned(i, name, kinds) ==
                            \E w \in r.warns :
                              /\ w.task = i /\ w.name = name /\ w.kind \in kinds
                              /\ w.used # 0 => w.used < w.of
                      IN  /\ \A row \in {x \in r.rows : x.subrank = 0} :
                               LET t == r.tasks[row.task]
                               IN  /\ \A m \in row.used :
                                        Output(t.members[m], row.name).unit = row.unit
                                   /\ row.used = {} =>
                                        \/ warned(row.task, row.name, {"missing"})
                                        \/ warned(None, row.name, {"unit", "duplicate"})
                                   /\ row.used # {} /\ t.readable # row.used =>
                                        warned(row.task, row.name, {"used"})
                                   /\ t.readable # DOMAIN t.members =>
                                        warned(row.task, None, {"meta"})
                          /\ r.names # None =>
                               \A i \in DOMAIN r.tasks :
                                 \A name \in DOMAIN r.names.private[i] :
                                   LET g == r.names.private[i][name]
                                   IN  g.runs # {} /\ g.shown =>
                                         UNION {run[1]..run[2] : run \in g.runs} =
                                           {m \in r.tasks[i].readable :
                                              Cardinality(OutputsNamed(
                                                r.tasks[i].members[m], name)) = 1}
    BY DEF SaysWhatItLeavesOut
  <2>1. Honest(cmd[c].report)
    BY DEF ReportsHonest
  <2> QED
    BY <2>1 DEF Honest, RowSays, NamesSay, Warned, Presence, ReadableMembers
<1> QED
  BY <1>1, <1>2, <1>3, ExportInvariance, PTL DEF Spec
=============================================================================
