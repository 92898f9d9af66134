------------------------------ MODULE TaskCsv ------------------------------
(***************************************************************************)
(* The texts `tpbcli task export` writes: the environment snapshot that a  *)
(* run captured into three headers of its task record, its decoding into   *)
(* two columns, the column layout of the data file and the cell syntax:    *)
(* ",," separates cells, and the writer puts blanks between the commas of  *)
(* a cell (not between all of them: a run of three shows two adjacent).    *)
(* A text is a sequence of characters; a segment is the part of a value    *)
(* between two colons.                                                     *)
(***************************************************************************)
EXTENDS Naturals, SequencesExt

CONSTANTS
  CellMax,        \* longest value that fits the cell buffer (4095 in the code)
  KeyMax,         \* longest key of a snapshot (255 in the code)
  Refused         \* the writer gave up

ASSUME CellMaxAssumption == CellMax \in Nat /\ KeyMax \in Nat

Comma == ","
Colon == ":"
Blank == " "
Newline == "\n"
Return == "\r"
FileSep == "0x1C"   \* the byte that stands for a single comma
Backslash == "\\"

-----------------------------------------------------------------------------
(* tpb_rtenv_capture_environ_snapshot: keys, a number of segments per key  *)
(* and all the segments in one list. Empty segments are dropped.           *)

CountColonSegments(val) ==
  LET scan == FoldLeft(LAMBDA acc, c :
                IF c = Colon THEN [n |-> acc.n + acc.in, in |-> 0]
                ELSE [acc EXCEPT !.in = 1],
                [n |-> 0, in |-> 0], val)
  IN  scan.n + scan.in

(* A non-empty segment goes to the end of the list. *)
AppendSegment(segs, seg) == IF seg = <<>> THEN segs ELSE Append(segs, seg)

Segments(val) ==
  LET scan == FoldLeft(LAMBDA acc, c :
                IF c = Colon
                THEN [segs |-> AppendSegment(acc.segs, acc.cur), cur |-> <<>>]
                ELSE [acc EXCEPT !.cur = Append(@, c)],
                [segs |-> <<>>, cur |-> <<>>], val)
  IN  AppendSegment(scan.segs, scan.cur)

Cut(text, n) == IF Len(text) <= n THEN text ELSE SubSeq(text, 1, n)

SnapshotAppendKey(snap, var) ==
  [keys   |-> Append(snap.keys, Cut(var.key, KeyMax)),
   counts |-> Append(snap.counts, CountColonSegments(var.val)),
   segs   |-> snap.segs \o Segments(var.val)]

Capture(env) ==
  FoldLeft(SnapshotAppendKey, [keys |-> <<>>, counts |-> <<>>, segs |-> <<>>], env)

(* A key with a colon fails the capture, and with it the start of the run: *)
(* no record has such an environment.                                      *)
Capturable(env) == \A i \in DOMAIN env : Colon \notin Range(Cut(env[i].key, KeyMax))

-----------------------------------------------------------------------------
(* The decoding in tpbcli-task-export.c. *)

SumUpTo(counts, n) == FoldLeft(LAMBDA a, b : a + b, 0, SubSeq(counts, 1, n))

EnvValidate(snap) ==
  /\ Len(snap.counts) = Len(snap.keys)
  /\ SumUpTo(snap.counts, Len(snap.counts)) = Len(snap.segs)

JoinColon(segs) ==
  FoldLeft(LAMBDA out, seg : IF out = <<>> THEN seg ELSE out \o <<Colon>> \o seg,
           <<>>, segs)

(* Skip the segments of the earlier keys and join those of key k. *)
EnvValue(snap, k) ==
  LET skip == SumUpTo(snap.counts, k - 1)
  IN  JoinColon(SubSeq(snap.segs, skip + 1, skip + snap.counts[k]))

-----------------------------------------------------------------------------
(* Cells. *)

(* Two commas are written apart and a comma at the end is followed by a    *)
(* blank; backslashes and line ends are escaped.                           *)
EscapeText(text) ==
  LET step(acc, i) ==
        IF acc.skip THEN [acc EXCEPT !.skip = FALSE]
        ELSE CASE text[i] = Backslash ->
                    [acc EXCEPT !.out = @ \o <<Backslash, Backslash>>]
               [] text[i] = Return -> [acc EXCEPT !.out = @ \o <<Backslash, "r">>]
               [] text[i] = Newline -> [acc EXCEPT !.out = @ \o <<Backslash, "n">>]
               [] text[i] = Comma /\ i < Len(text) /\ text[i + 1] = Comma ->
                    [out |-> acc.out \o <<Comma, Blank, Comma>>, skip |-> TRUE]
               [] OTHER -> [acc EXCEPT !.out = Append(@, text[i])]
      body == FoldLeft(step, [out |-> <<>>, skip |-> FALSE],
                       [i \in DOMAIN text |-> i]).out
  IN  IF text # <<>> /\ text[Len(text)] = Comma THEN Append(body, Blank) ELSE body

(* Mutant of WriteRow: no blank is put after a comma at the end of a cell, *)
(* so that it runs into the separator.                                     *)
WriteRowNoBlank(cells) ==
  FoldLeft(LAMBDA out, i :
             LET esc == EscapeText(cells[i])
                 raw == IF cells[i] # <<>> /\ cells[i][Len(cells[i])] = Comma
                        THEN SubSeq(esc, 1, Len(esc) - 1) ELSE esc
             IN  IF i = 1 THEN raw ELSE out \o <<Comma, Comma>> \o raw,
           <<>>, [i \in DOMAIN cells |-> i])

WriteRow(cells) ==
  FoldLeft(LAMBDA out, i :
             IF i = 1 THEN EscapeText(cells[i])
             ELSE out \o <<Comma, Comma>> \o EscapeText(cells[i]),
           <<>>, [i \in DOMAIN cells |-> i])

-----------------------------------------------------------------------------
(* The data file of a record with columns cols (each a name, a type and a  *)
(* sequence of values) followed by an environment snapshot. Columns        *)
(* shorter than the longest are filled with empty cells.                   *)

Longest(cols, nkeys) ==
  CHOOSE n \in {Len(cols[i].vals) : i \in DOMAIN cols} \cup {nkeys} :
    n >= nkeys /\ \A i \in DOMAIN cols : n >= Len(cols[i].vals)

(* A string is cut to the cell; a single character is shown as its code,   *)
(* but a comma as the separator byte.                                      *)
FormatElem(type, val) ==
  IF type = "string" THEN Cut(val, CellMax)
  ELSE IF val = <<Comma>> THEN <<FileSep>> ELSE <<"0x">> \o val

CellAtRow(col, r) == IF r <= Len(col.vals) THEN FormatElem(col.type, col.vals[r]) ELSE <<>>

Titles(rec) == [i \in DOMAIN rec.cols |-> rec.cols[i].name] \o <<<<"key">>, <<"value">>>>

DataCells(rec, r) ==
  LET snap == Capture(rec.env)
  IN  [i \in DOMAIN rec.cols |-> CellAtRow(rec.cols[i], r)]
      \o (IF r <= Len(snap.keys) THEN <<snap.keys[r], EnvValue(snap, r)>>
          ELSE <<<<>>, <<>>>>)

(* A row of titles, then the values. Refused when the snapshot does not    *)
(* add up or a value of it is too long.                                    *)
WriteData(rec) ==
  LET snap == Capture(rec.env)
  IN  IF ~EnvValidate(snap) \/
         \E k \in DOMAIN snap.keys : Len(EnvValue(snap, k)) > CellMax
      THEN Refused
      ELSE <<WriteRow(Titles(rec))>>
           \o [r \in 1..Longest(rec.cols, Len(snap.keys)) |->
                 WriteRow(DataCells(rec, r))]

(* A header of the record: its texts, and the names of its dimensions      *)
(* joined with commas, the unused ones as empty names.                     *)
JoinComma(parts) ==
  FoldLeft(LAMBDA out, i : IF i = 1 THEN parts[i] ELSE out \o <<Comma>> \o parts[i],
           <<>>, [i \in DOMAIN parts |-> i])

HeaderTexts(h) ==
  <<[key |-> <<"name">>, val |-> h.name], [key |-> <<"tag">>, val |-> h.tag],
    [key |-> <<"note">>, val |-> h.note],
    [key |-> <<"dimnames">>, val |-> JoinComma(h.dimnames)]>>

MetaFields(rec) ==
  rec.fields \o FlattenSeq([i \in DOMAIN rec.headers |-> HeaderTexts(rec.headers[i])])

MetaKv(field) == WriteRow(<<field.key, field.val>>)

(* The meta file: a row of titles, then one row per field. *)
WriteMeta(rec) ==
  <<MetaKv([key |-> <<"f">>, val |-> <<"v">>])>>
  \o [i \in DOMAIN MetaFields(rec) |-> MetaKv(MetaFields(rec)[i])]

-----------------------------------------------------------------------------
(* The reader the file format is designed for: split at ",,", the leftmost *)
(* first, then undo the escapes.                                           *)

SplitRow(row) ==
  LET step(acc, c) ==
        IF c = Comma /\ acc.pending
        THEN [cells |-> Append(acc.cells, acc.cur), cur |-> <<>>, pending |-> FALSE]
        ELSE IF c = Comma THEN [acc EXCEPT !.pending = TRUE]
        ELSE [acc EXCEPT !.cur = @ \o (IF acc.pending THEN <<Comma, c>> ELSE <<c>>),
                         !.pending = FALSE]
      end == FoldLeft(step, [cells |-> <<>>, cur |-> <<>>, pending |-> FALSE], row)
  IN  Append(end.cells, end.cur \o (IF end.pending THEN <<Comma>> ELSE <<>>))

Unescape(text) ==
  LET step(acc, c) ==
        IF acc.esc
        THEN [out |-> Append(acc.out, CASE c = "n" -> Newline [] c = "r" -> Return
                                        [] OTHER -> c), esc |-> FALSE]
        ELSE IF c = Backslash THEN [acc EXCEPT !.esc = TRUE]
        ELSE [acc EXCEPT !.out = Append(@, c)]
  IN  FoldLeft(step, [out |-> <<>>, esc |-> FALSE], text).out

(* The writer may add blanks next to commas: texts agree apart from them. *)
Squeeze(text) == SelectSeq(text, LAMBDA c : c # Blank)

ReadBack(row) ==
  [i \in DOMAIN SplitRow(row) |-> Squeeze(Unescape(SplitRow(row)[i]))]

(* What the environment value should read as: its segments, without the    *)
(* empty ones; said by positions, not by scanning.                         *)
WithoutEmptySegments(val) ==
  LET keep == {i \in DOMAIN val :
                 \/ val[i] # Colon
                 \/ /\ i > 1 /\ val[i - 1] # Colon
                    /\ \E j \in (i + 1)..Len(val) : val[j] # Colon}
      order == SetToSortSeq(keep, <)
  IN  [i \in DOMAIN order |-> val[order[i]]]

(* Three commas in a row are written as ", ,," and split there. *)
Crowded(text) == \E i \in 1..(Len(text) - 2) : \A j \in i..(i + 2) : text[j] = Comma

(* Every row of the data file of rec reads back as the cells it was made   *)
(* from, and the environment columns as the values that were captured;     *)
(* every row of the meta file as the field and its value. Said of texts    *)
(* that are not crowded: what happens to the others is TwoColumns.         *)
ReadsBack(rec) ==
  LET rows == WriteData(rec)
      meta == Tail(WriteMeta(rec))
      fields == MetaFields(rec)
      values(r) == [i \in DOMAIN rec.cols |-> CellAtRow(rec.cols[i], r)] \o
                   (IF r <= Len(rec.env)
                    THEN <<Cut(rec.env[r].key, KeyMax), WithoutEmptySegments(rec.env[r].val)>>
                    ELSE <<<<>>, <<>>>>)
      same(row, cells) == (\A i \in DOMAIN cells : ~Crowded(cells[i])) =>
                            ReadBack(row) = [i \in DOMAIN cells |-> Squeeze(cells[i])]
  IN  rows = Refused \/
      /\ same(rows[1], Titles(rec))
      /\ \A r \in 1..(Len(rows) - 1) : same(rows[r + 1], values(r))
      /\ Len(meta) = Len(fields)
      /\ \A i \in DOMAIN meta : same(meta[i], <<fields[i].key, fields[i].val>>)

(* Every row of the meta file of rec has two cells. *)
TwoColumns(rec) == \A i \in DOMAIN WriteMeta(rec) : Len(SplitRow(WriteMeta(rec)[i])) = 2
=============================================================================
