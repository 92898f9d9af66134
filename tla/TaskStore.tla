----------------------------- MODULE TaskStore -----------------------------
(***************************************************************************)
(* The task domain of a rafdb workspace as the commands of `tpbcli task`   *)
(* read it: one record file per task, the rows of task.tpbe, the RIDMAP    *)
(* file that `task ls` leaves for the later commands, and how a selection  *)
(* (rids of the last listing, ID prefixes) is turned into tasks.           *)
(*                                                                         *)
(* The fixed part of a record is the constant Attr; what the recorders     *)
(* change while commands run (which files and rows exist, the members of a *)
(* capsule) is state.                                                      *)
(***************************************************************************)
EXTENDS TaskOptions

CONSTANTS
  TaskIds,        \* the task record IDs
  Attr,           \* TaskIds -> the fixed attributes of the record
  Damaged,        \* the records whose file the reader refuses
  DeriveMaxHops,  \* TPBCLI_TASK_DERIVE_MAX_HOPS
  Joiners         \* capsule -> the members that join it while commands run

VARIABLES
  files,          \* the IDs whose .tpbr file exists
  index,          \* task.tpbe: IDs in the order of the rows
  member          \* capsule -> its TaskID list, by subrank

storeVars == <<files, index, member>>

ASSUME DeriveMaxAssumption == DeriveMaxHops \in Nat /\ Damaged \subseteq TaskIds

-----------------------------------------------------------------------------
(* The recorders: a record file is written before its row is appended, and *)
(* a member is linked into the capsule after both.                         *)

WriteRecord(id) ==
  /\ id \notin files
  /\ files' = files \cup {id}
  /\ UNCHANGED <<index, member>>

AppendRow(id) ==
  /\ id \in files /\ id \notin Range(index)
  /\ index' = Append(index, id)
  /\ UNCHANGED <<files, member>>

JoinCapsule(k) ==
  \E i \in DOMAIN Joiners[k] :
    /\ k \in files /\ Joiners[k][i] \in Range(index) \ Range(member[k])
    /\ \A j \in 1..(i - 1) : Joiners[k][j] \in Range(member[k])
    /\ member' = [member EXCEPT ![k] = Append(@, Joiners[k][i])]
    /\ UNCHANGED <<files, index>>

Recorder == \/ \E id \in TaskIds : WriteRecord(id) \/ AppendRow(id)
            \/ \E k \in DOMAIN Joiners : JoinCapsule(k)

-----------------------------------------------------------------------------
(* The headers of a record are read whole. *)
ReadHeaders(id) == id \notin Damaged

(* tpb_raf_record_read_task succeeds. *)
Readable(id) == id \in files /\ ReadHeaders(id)

(* A record is shown as a capsule only when its whole shape says so. *)
ConfirmCapsule(id) ==
  /\ Attr[id].inheritAll /\ Attr[id].derive = None
  /\ Attr[id].ins = <<>> /\ Attr[id].outs = <<>>
  /\ Attr[id].link

ReadCapsuleMembers(id) == IF id \in DOMAIN member THEN member[id] ELSE <<>>

(* Follow derive_to to the entry task, over at most DeriveMaxHops hops; None *)
(* when a record on the way cannot be read, the chain is longer or a cycle. *)
FollowDerive(id) ==
  LET chain[n \in 0..DeriveMaxHops] ==
        IF n = 0 THEN id
        ELSE IF chain[n - 1] \in TaskIds /\ Readable(chain[n - 1])
             THEN Attr[chain[n - 1]].derive ELSE None
      entry == {n \in 0..DeriveMaxHops :
                  /\ chain[n] \in TaskIds /\ Readable(chain[n])
                  /\ Attr[chain[n]].derive = None}
  IN  IF entry = {} THEN None
      ELSE chain[CHOOSE n \in entry : \A m \in entry : n <= m]

(* The record files whose ID begins with a prefix: exactly one must match. *)
ResolveIdPrefix(prefix) ==
  LET matches == {id \in files : prefix \in Attr[id].prefixes}
  IN  IF \E id \in matches : matches = {id}
      THEN CHOOSE id \in matches : TRUE ELSE None

-----------------------------------------------------------------------------
(* task ls: the rows of entry tasks, oldest first, ties in index order. *)

EntryRows == SelectSeq(index, LAMBDA id : Attr[id].derive = None)

(* By start time, ties in the order of the rows: each row goes behind those  *)
(* that precede it.                                                          *)
SortRows(rows) ==
  LET before(i, j) == \/ Earlier(Attr[rows[i]].utc, Attr[rows[j]].utc)
                      \/ Attr[rows[i]].utc = Attr[rows[j]].utc /\ i < j
      place(i) == 1 + Cardinality({j \in DOMAIN rows : before(j, i)})
  IN  [n \in DOMAIN rows |-> rows[CHOOSE i \in DOMAIN rows : place(i) = n]]

MatchTime(bits, op, b) ==
  CASE op = "="  -> bits = b
    [] op = ">"  -> Earlier(b, bits)
    [] op = ">=" -> ~Earlier(bits, b)
    [] op = "<"  -> Earlier(bits, b)
    [] op = "<=" -> ~Earlier(b, bits)

MatchOne(id, f) ==
  CASE f.key = "kernel_id"   -> f.hex \in Attr[id].kernelPrefixes
    [] f.key = "kernel_name" -> f.text = Attr[id].kernel
    [] f.key = "tbatch_id"   -> f.hex \in Attr[id].batchPrefixes
    [] f.key = "exit_code"   -> f.num = Attr[id].exit
    [] f.key = "datetime"    -> MatchTime(Attr[id].utc, f.op, f.bits)

MatchFilters(id, filters) == \A i \in DOMAIN filters : MatchOne(id, filters[i])

(* The rows shown: all that match, or the first `count` from the newest    *)
(* (from the oldest with -N), in the order shown.                          *)
Listing(opts) ==
  LET matched == SelectSeq(SortRows(EntryRows),
                           LAMBDA id : MatchFilters(id, opts.filters))
      ordered == IF opts.oldest THEN matched ELSE Reverse(matched)
  IN  IF opts.count = 0 \/ opts.count >= Len(ordered) THEN ordered
      ELSE SubSeq(ordered, 1, opts.count)

-----------------------------------------------------------------------------
(* Selections. *)

(* "0,2-3": the rids of a specification, None when one is out of the map,  *)
(* a range is refused or nothing is left. Rids count from 0.               *)
ParseRidList(text, map) ==
  LET ranges == ParseRanges([i \in DOMAIN Pieces(text) |-> Trim(Pieces(text)[i])])
  IN  IF map = <<>> \/ ranges = None \/ ranges = <<>> THEN None
      ELSE IF \E r \in Range(ranges) : r[2] >= Len(map) THEN None
      ELSE Unique(FlattenSeq([i \in DOMAIN ranges |->
                    [j \in 1..(ranges[i][2] - ranges[i][1] + 1) |->
                       ranges[i][1] + j - 1]]))

(* One ID per prefix, in the order given; a prefix that is not of lo to hi *)
(* digits or does not name exactly one task refuses the whole selection.   *)
ResolveIds(text, lo, hi) ==
  LET list == ParseIdList(text)
      ids  == [i \in DOMAIN list |->
                 IF HexPrefixValid(list[i], lo, hi) THEN ResolveIdPrefix(list[i][1])
                 ELSE None]
  IN  IF ids = <<>> \/ None \in Range(ids) THEN None ELSE ids
=============================================================================
