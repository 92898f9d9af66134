------------------------------ MODULE EntryLog ------------------------------
(***************************************************************************)
(* What a rafdb index (.tpbe file) promises to its users, with files,      *)
(* locks and processes left out: an append-only list of rows, one per      *)
(* record, in which a row's derive_to link may later be filled in, and     *)
(* then only with the link that belongs to that row.                       *)
(***************************************************************************)
EXTENDS Naturals, Sequences

CONSTANTS Id,     \* record identifiers (the 20-byte SHA-1 values)
          NoId    \* the all-zero identifier: no link

VARIABLE log      \* the rows, oldest first

Row == [id : Id, derive : Id \cup {NoId}]

(* The rows of a list that belong to record i. *)
RowsOf(rows, i) == {k \in DOMAIN rows : rows[k].id = i}

Init == log = <<>>

(* A record enters the index once, at the end, without a link. *)
Add(i) ==
    /\ RowsOf(log, i) = {}
    /\ log' = Append(log, [id |-> i, derive |-> NoId])

(* The row of record i gets its link; every other row stays as it is. *)
Link(i) ==
    \E k \in RowsOf(log, i) : log' = [log EXCEPT ![k].derive = i]

Next == \E i \in Id : Add(i) \/ Link(i)

Spec == Init /\ [][Next]_log
=============================================================================
