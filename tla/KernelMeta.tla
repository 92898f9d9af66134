----------------------------- MODULE KernelMeta -----------------------------
(***************************************************************************)
(* The metadata of a kernel record (rafdb-l2-kernel-meta-build,            *)
(* rafdb-l3-kernel-kvmeta, rafdb-l3-kernel-patch): string sections of      *)
(* key=value lines, laid end to end in the data of the record, each found  *)
(* by adding up the data_size of the headers before it.                    *)
(*                                                                         *)
(* A line is one cell of the data and the NUL that ends a section is one   *)
(* cell.  What lies behind the data is Junk: update_meta_key copies from   *)
(* there, and nothing is known of the bytes it finds.                      *)
(***************************************************************************)
EXTENDS Naturals, Sequences, SequencesExt, FiniteSetsExt

CONSTANTS Nul, Junk,      \* the end of a string; what lies behind the data
          Section         \* section names, in the order of the headers

ASSUME MetaAssumption == Nul # Junk /\ Section \in Seq(STRING)

CellAt(data, i) == IF i \in DOMAIN data THEN data[i] ELSE Junk

(* Where section s begins, by the sizes in the headers. *)
Off(size, s) == FoldLeft(LAMBDA a, b : a + b, 0, SubSeq(size, 1, s - 1))

(* tpb_raf_kernel_get_header_payload: the C string at the section's start. *)
Payload(m, s) ==
    LET from == Off(m.size, s) + 1
        ends == {i \in from..Len(m.data) : m.data[i] = Nul} IN
    SubSeq(m.data, from, IF ends = {} THEN Len(m.data) ELSE Min(ends) - 1)

Hits(lines, key) == {i \in DOMAIN lines : lines[i] # Junk /\ lines[i][1] = key}

(* tpb_raf_kernel_meta_kv_get: the first line with the key, or Junk. *)
KvGet(lines, key) ==
    IF Hits(lines, key) = {} THEN Junk ELSE lines[Min(Hits(lines, key))][2]

(* Mutant of KvSet: a key that is not there is not added. *)
KvSetReplaceOnly(lines, key, value) ==
    [i \in DOMAIN lines |->
        IF i \in Hits(lines, key) THEN <<key, value>> ELSE lines[i]]

(* tpb_raf_kernel_meta_kv_set: the first line with the key is replaced,    *)
(* the others are dropped; a new key goes to the end.                      *)
KvSet(lines, key, value) ==
    LET hits == Hits(lines, key)
        marked == [i \in DOMAIN lines |->
                     CASE i \notin hits -> lines[i]
                       [] hits # {} /\ i = Min(hits) -> <<key, value>>
                       [] OTHER -> Nul] IN
    IF hits = {} THEN Append(lines, <<key, value>>)
                 ELSE SelectSeq(marked, LAMBDA c : c # Nul)

(* _sf_init_meta_payload: what a section holds at first, here the line     *)
(* that names it; the variation also holds the line active=1.              *)
FirstLines(s) ==
    <<<<"section", Section[s]>>>> \o (IF s = 1 THEN <<<<"active", "1">>>> ELSE <<>>)

(* tpb_raf_kernel_build_registered_attr *)
Registered ==
    [size |-> [s \in DOMAIN Section |-> Len(FirstLines(s)) + 1],
     data |-> FlattenSeq([s \in DOMAIN Section |-> Append(FirstLines(s), Nul)])]

(* tpb_raf_kernel_update_meta_key.  The header of the section gets its new *)
(* size first; the other sections are then copied from the places in the   *)
(* old data that the sizes, the new one among them, add up to.             *)
UpdateMetaKey(m, s, key, value) ==
    LET text == Append(KvSet(Payload(m, s), key, value), Nul)
        size == [m.size EXCEPT ![s] = Len(text)]
        Part(i) == IF i = s THEN text
                   ELSE [j \in 1..size[i] |-> CellAt(m.data, Off(size, i) + j)] IN
    [size |-> size, data |-> FlattenSeq([i \in DOMAIN size |-> Part(i)])]

(* The value of a key, as a reader of the record gets it. *)
Value(m, s, key) == KvGet(Payload(m, s), key)
=============================================================================
