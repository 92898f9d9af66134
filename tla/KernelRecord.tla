---------------------------- MODULE KernelRecord ----------------------------
(***************************************************************************)
(* Kernels, their shared objects and their records: tpbcli kernel build,   *)
(* set, backup-inactive and get, and the scan every command that loads     *)
(* kernels begins with (tpb-dynloader.c, rafdb-l2-kernel, rafdb-l3-kernel- *)
(* patch, tpbcli/kernel).                                                  *)
(*                                                                         *)
(* A KernelID is the hash of a shared object, so it stands for the object. *)
(* The files follow RafEntry: a list fails while another process is inside *)
(* an append to kernel.tpbe.  A command is a sequence of small operations  *)
(* on the workspace, one step each; an operation may put others in front   *)
(* of those still to do.                                                   *)
(***************************************************************************)
EXTENDS KernelMeta

CONSTANTS Proc, NoProc,   \* processes; "nobody is appending"
          Id,             \* KernelIDs
          Name, NameOf,   \* kernel names, and the name of each object
          NoSo, Torn,     \* no shared object; one whose copy was cut short
          Pairs,          \* the --key arguments of kernel set
          MaxCmd,         \* bound: commands, where one that starts while
          OverlapCost,    \* another is under way counts OverlapCost times
          MaxFail         \* bound: I/O errors and kills

ASSUME KernelAssumption ==
    /\ NoProc \notin Proc /\ {NoSo, Torn} \cap Id = {}
    /\ NameOf \in [Id -> Name]
    /\ Pairs \in Seq([sec : DOMAIN Section, key : STRING, val : STRING])
    /\ MaxCmd \in Nat /\ OverlapCost \in Nat \ {0} /\ MaxFail \in Nat

VARIABLES
    so,       \* lib/libtpbk_<name>.so
    bak,      \* the objects under lib/inactive
    rows,     \* the rows of kernel.tpbe
    rec,      \* the kernel records
    writer,   \* who is inside an append to kernel.tpbe, or NoProc
    broken,   \* kernel.tpbe has lost its end magic
    run,      \* what each process still has to do, and for whom
    fault,    \* what has disturbed the kernels of a name: commands on it
              \* that overlapped; or one that failed, or an object put in
              \* place behind the records, since the last command that repairs
    cmds,     \* commands so far
    fails     \* I/O errors and kills so far

vars == <<so, bak, rows, rec, writer, broken, run, fault, cmds, fails>>

NoRecord == [live |-> FALSE, whole |-> FALSE, active |-> 0,
             meta |-> [size |-> <<>>, data |-> <<>>], told |-> FALSE]

Idle == [cmd |-> "none", name |-> CHOOSE n \in Name : TRUE, override |-> FALSE,
         todo |-> <<>>]

(* One operation: what it does, to which object, with which argument. *)
Op(op, id, arg) == [op |-> op, id |-> id, arg |-> arg]

Init ==
    /\ so \in {f \in [Name -> Id] : \A n \in Name : NameOf[f[n]] = n}
    /\ bak = {} /\ rows = <<>> /\ rec = [i \in Id |-> NoRecord]
    /\ writer = NoProc /\ broken = FALSE
    /\ run = [p \in Proc |-> Idle]
    /\ fault = [n \in Name |-> "none"]
    /\ cmds = 0 /\ fails = 0

Busy(p) == run[p].todo # <<>>
At(p, op) == Busy(p) /\ Head(run[p].todo).op = op
Arg(p) == Head(run[p].todo).arg
TheId(p) == Head(run[p].todo).id
TheName(p) == run[p].name

(* p goes on with these operations, then with what it still had to do; a   *)
(* process with nothing left to do has ended its command.                  *)
Continue(p, todo) ==
    run' = [run EXCEPT ![p] = IF todo = <<>> THEN Idle ELSE [@ EXCEPT !.todo = todo]]

Then(p, first) == Continue(p, first \o Tail(run[p].todo))

(* An error in resolving a KernelID ends only that: the loader goes on, and *)
(* so does kernel set, which has its own operation behind.                 *)
AfterResolve(p) ==
    LET rest == Tail(run[p].todo)
        sets == {k \in DOMAIN rest : rest[k].op = "set_keys"} IN
    IF sets = {} THEN <<>> ELSE SubSeq(rest, Min(sets), Len(rest))

Others(p) == {q \in Proc \ {p} : Busy(q)}

Disturb(n, what) == fault' = [fault EXCEPT ![n] = IF @ = "overlap" THEN @ ELSE what]

Fail(n) == fails < MaxFail /\ fails' = fails + 1 /\ Disturb(n, "failed")

RowsOf(n) == {k \in DOMAIN rows : rows[k].name = n}
HasRow(i) == \E k \in DOMAIN rows : rows[k].id = i
FirstRow(i) == Min({k \in DOMAIN rows : rows[k].id = i})
ActiveRows(n) == {k \in RowsOf(n) : rows[k].active = 1}

(* tpb_raf_entry_list_kernel *)
ListOk == writer = NoProc /\ ~broken

(* _sf_pick_latest_entry: the row kernel get shows for a name. *)
KernelGet(n) == Max(IF ActiveRows(n) # {} THEN ActiveRows(n) ELSE RowsOf(n))

-----------------------------------------------------------------------------
(* The commands *)

(* What puts the records right: a build, and the scan of an object that is *)
(* not listed, or of any object with TPB_K_OVERRIDE.                       *)
Repairs(cmd, n, override) ==
    \/ cmd = "build"
    \/ cmd \in {"scan", "set"} /\ so[n] \in Id /\ (override \/ ~HasRow(so[n]))

Start(p, cmd, n, override, todo) ==
    /\ ~Busy(p)
    /\ cmds' = cmds + (IF Others(p) = {} THEN 1 ELSE OverlapCost)
    /\ cmds' <= MaxCmd
    /\ run' = [run EXCEPT ![p] = [cmd |-> cmd, name |-> n, override |-> override,
                                  todo |-> todo]]
    /\ fault' = [fault EXCEPT ![n] =
                    IF \E q \in Others(p) : TheName(q) = n THEN "overlap"
                    ELSE IF @ # "overlap" /\ Repairs(cmd, n, override) THEN "none" ELSE @]
    /\ UNCHANGED <<so, bak, rows, rec, writer, broken, fails>>

(* _sf_scan_kernel_internal: dlopen fails on what is no shared object. *)
Scan(p, n, override) ==
    /\ so[n] \in Id
    /\ Start(p, "scan", n, override, <<Op("resolve", so[n], 0)>>)

(* _sf_build_one_kernel, once cmake has built the object. *)
Build(p, i, override) ==
    Start(p, "build", NameOf[i], override,
          <<Op("backup", i, 0), Op("copy_open", i, 0), Op("activate", i, 0),
            Op("set", i, 0)>>)

BackupInactive(p, n) ==
    /\ so[n] # NoSo
    /\ Start(p, "backup", n, FALSE, <<Op("backup", so[n], 0)>>)

KernelSet(p, n, override) ==
    /\ so[n] # NoSo
    /\ Start(p, "set", n, override, <<Op("set", so[n], 0)>>)

(* cmake --install, which puts an object in place and leaves the records   *)
(* as they are.                                                            *)
Install(i) ==
    LET n == NameOf[i] IN
    /\ cmds < MaxCmd /\ cmds' = cmds + 1
    /\ \A p \in Proc : Busy(p) => TheName(p) # n
    /\ so' = [so EXCEPT ![n] = i]
    /\ Disturb(n, "replaced")
    /\ UNCHANGED <<bak, rows, rec, writer, broken, run, fails>>

-----------------------------------------------------------------------------
(* lib/ *)

(* tpbcli_kernel_backup_inactive: rename, then active=0 in row and record. *)
Backup(p) ==
    LET n == TheName(p) IN
    /\ At(p, "backup")
    /\ IF so[n] = NoSo
         THEN Then(p, <<>>) /\ UNCHANGED <<so, bak>>
         ELSE /\ so' = [so EXCEPT ![n] = NoSo]
              /\ bak' = bak \cup {so[n]}
              /\ Then(p, <<Op("row", so[n], 0), Op("record", so[n], 0)>>)
    /\ UNCHANGED <<rows, rec, writer, broken, fault, cmds, fails>>

(* build ignores that the old object could not be moved. *)
BackupFail(p) ==
    /\ At(p, "backup") /\ Fail(TheName(p)) /\ Then(p, <<>>)
    /\ UNCHANGED <<so, bak, rows, rec, writer, broken, cmds>>

(* _sf_copy_file *)
CopyOpen(p) ==
    /\ At(p, "copy_open")
    /\ so' = [so EXCEPT ![TheName(p)] = Torn]
    /\ Then(p, <<Op("copy", TheId(p), 0)>>)
    /\ UNCHANGED <<bak, rows, rec, writer, broken, fault, cmds, fails>>

Copy(p) ==
    /\ At(p, "copy")
    /\ so' = [so EXCEPT ![TheName(p)] = TheId(p)]
    /\ Then(p, <<>>)
    /\ UNCHANGED <<bak, rows, rec, writer, broken, fault, cmds, fails>>

CopyFail(p) ==
    /\ Busy(p) /\ Head(run[p].todo).op \in {"copy_open", "copy"}
    /\ Fail(TheName(p)) /\ Continue(p, <<>>)
    /\ UNCHANGED <<so, bak, rows, rec, writer, broken, cmds>>

(* Mutant of Activate: only the new kernel is switched on. *)
ActivateOnly(p) ==
    LET i == so[TheName(p)] IN
    /\ At(p, "activate")
    /\ IF i = NoSo THEN Continue(p, <<>>)
                   ELSE Then(p, <<Op("row", i, 1), Op("record", i, 1)>>)
    /\ UNCHANGED <<so, bak, rows, rec, writer, broken, fault, cmds, fails>>

(* _sf_activate_installed_kernel: of whatever is installed by now.  A      *)
(* KernelID without a row or record is registered later, by kernel set.    *)
Activate(p) ==
    LET i == so[TheName(p)] IN
    /\ At(p, "activate")
    /\ IF i = NoSo
         THEN Continue(p, <<>>)
         ELSE Then(p, <<Op("deactivate", i, 0), Op("row", i, 1), Op("record", i, 1)>>)
    /\ UNCHANGED <<so, bak, rows, rec, writer, broken, fault, cmds, fails>>

-----------------------------------------------------------------------------
(* The index and the records *)

(* A list that fails while another process appends. *)
Raced(p) == ~broken /\ writer # NoProc /\ Disturb(TheName(p), "overlap")
Listed(p) == ListOk /\ UNCHANGED fault
ListLost(p) == Raced(p) \/ (broken /\ UNCHANGED fault)

(* tpb_raf_entry_patch_kernel_active: the first row with the KernelID.     *)
(* Every caller ignores that there is none.                                *)
PatchRow(p) ==
    /\ At(p, "row") /\ Listed(p)
    /\ rows' = IF HasRow(TheId(p))
               THEN [rows EXCEPT ![FirstRow(TheId(p))].active = Arg(p)] ELSE rows
    /\ Then(p, <<>>)
    /\ UNCHANGED <<so, bak, rec, writer, broken, cmds, fails>>

(* tpb_raf_entry_patch_kernel_utc *)
PatchUtc(p) ==
    /\ At(p, "utc") /\ Listed(p)
    /\ rows' = IF HasRow(TheId(p))
               THEN [rows EXCEPT ![FirstRow(TheId(p))].utc = "override"] ELSE rows
    /\ Then(p, <<>>)
    /\ UNCHANGED <<so, bak, rec, writer, broken, cmds, fails>>

PatchListFail(p) ==
    /\ Busy(p) /\ Head(run[p].todo).op \in {"row", "utc", "deactivate"}
    /\ ListLost(p) /\ Then(p, <<>>)
    /\ UNCHANGED <<so, bak, rows, rec, writer, broken, cmds, fails>>

(* tpb_raf_record_patch_kernel_active: without a lock, and lost in a file  *)
(* that another process is writing.                                        *)
PatchRecord(p) ==
    LET i == TheId(p) IN
    /\ At(p, "record")
    /\ rec' = IF i \in Id /\ rec[i].whole THEN [rec EXCEPT ![i].active = Arg(p)] ELSE rec
    /\ Then(p, <<>>)
    /\ UNCHANGED <<so, bak, rows, writer, broken, fault, cmds, fails>>

(* tpb_raf_kernel_deactivate_same_name: the rows of a list, one by one.    *)
(* Rows keep their place, kernel and name, so the list is known by its     *)
(* length.                                                                 *)
Deactivate(p) ==
    /\ At(p, "deactivate") /\ Listed(p)
    /\ Then(p, <<Op("off", TheId(p), [from |-> 1, to |-> Len(rows)])>>)
    /\ UNCHANGED <<so, bak, rows, rec, writer, broken, cmds, fails>>

(* The next row of the name that is not skipped, then its record. *)
SwitchOff(p) ==
    LET hits == {k \in Arg(p).from..Arg(p).to :
                    rows[k].name = TheName(p) /\ rows[k].id # TheId(p)}
        other == rows[Min(hits)].id IN
    /\ At(p, "off")
    /\ Then(p, IF hits = {} THEN <<>>
               ELSE <<Op("row", other, 0), Op("record", other, 0),
                      Op("off", TheId(p), [Arg(p) EXCEPT !.from = Min(hits) + 1])>>)
    /\ UNCHANGED <<so, bak, rows, rec, writer, broken, fault, cmds, fails>>

(* tpb_raf_record_write_kernel: fopen("wb"), then the contents. *)
WriteOpen(p) ==
    /\ At(p, "write_open")
    /\ rec' = [rec EXCEPT ![TheId(p)].live = TRUE, ![TheId(p)].whole = FALSE]
    /\ Then(p, <<Op("write", TheId(p), Arg(p))>>)
    /\ UNCHANGED <<so, bak, rows, writer, broken, fault, cmds, fails>>

Write(p) ==
    /\ At(p, "write")
    /\ rec' = [rec EXCEPT ![TheId(p)] = Arg(p)]
    /\ Then(p, <<>>)
    /\ UNCHANGED <<so, bak, rows, writer, broken, fault, cmds, fails>>

WriteFail(p) ==
    /\ Busy(p) /\ Head(run[p].todo).op \in {"write_open", "write"}
    /\ Fail(TheName(p))
    /\ Continue(p, AfterResolve(p))
    /\ UNCHANGED <<so, bak, rows, rec, writer, broken, cmds>>

(* tpb_raf_entry_append_kernel, in two halves; flock keeps appends apart.  *)
AppendBegin(p) ==
    /\ At(p, "append") /\ writer = NoProc /\ ~broken
    /\ writer' = p
    /\ Then(p, <<Op("append_end", TheId(p), 0)>>)
    /\ UNCHANGED <<so, bak, rows, rec, broken, fault, cmds, fails>>

AppendRefuse(p) ==
    /\ At(p, "append") /\ broken
    /\ Continue(p, AfterResolve(p))
    /\ UNCHANGED <<so, bak, rows, rec, writer, broken, fault, cmds, fails>>

AppendEnd(p) ==
    /\ At(p, "append_end")
    /\ rows' = Append(rows, [id |-> TheId(p), name |-> TheName(p), active |-> 1,
                             utc |-> "new"])
    /\ writer' = NoProc
    /\ Then(p, <<>>)
    /\ UNCHANGED <<so, bak, rec, broken, fault, cmds, fails>>

-----------------------------------------------------------------------------
(* _sf_resolve_kernel_id_for_workspace *)

FreshRecord == [live |-> TRUE, whole |-> TRUE, active |-> 1, meta |-> Registered,
                told |-> FALSE]

RegisterNew(i) ==
    <<Op("write_open", i, FreshRecord), Op("append", i, 0), Op("deactivate", i, 0)>>

Reregister(i) ==
    <<Op("write_open", i, FreshRecord), Op("deactivate", i, 0), Op("row", i, 1),
      Op("record", i, 1), Op("utc", i, 0)>>

(* Mutant of Resolve: the old kernels go before the new one is there. *)
ResolveOldFirst(p) ==
    LET i == TheId(p) IN
    /\ At(p, "resolve") /\ Listed(p)
    /\ Then(p, IF ~HasRow(i) THEN <<Op("deactivate", i, 0), Op("write_open", i, FreshRecord),
                                   Op("append", i, 0)>>
               ELSE IF run[p].override THEN Reregister(i) ELSE <<>>)
    /\ UNCHANGED <<so, bak, rows, rec, writer, broken, cmds, fails>>

(* A KernelID that is listed is left as it is, active or not, unless       *)
(* TPB_K_OVERRIDE asks for a new record.                                   *)
Resolve(p) ==
    LET i == TheId(p) IN
    /\ At(p, "resolve") /\ Listed(p)
    /\ Then(p, IF ~HasRow(i) THEN RegisterNew(i)
               ELSE IF run[p].override THEN Reregister(i) ELSE <<>>)
    /\ UNCHANGED <<so, bak, rows, rec, writer, broken, cmds, fails>>

(* An index that cannot be read counts as empty. *)
ResolveBlind(p) ==
    /\ At(p, "resolve") /\ ListLost(p)
    /\ Then(p, RegisterNew(TheId(p)))
    /\ UNCHANGED <<so, bak, rows, rec, writer, broken, cmds, fails>>

-----------------------------------------------------------------------------
(* tpbcli_kernel_set *)

(* The KernelID is looked up before the loader registers it. *)
SetBegin(p) ==
    LET i == so[TheName(p)]
        existed == ListOk /\ HasRow(i) IN
    /\ At(p, "set")
    /\ IF ListOk THEN UNCHANGED fault ELSE ListLost(p)
    /\ IF i \in Id
         THEN Then(p, <<Op("resolve", i, 0), Op("set_keys", i, existed)>>)
         ELSE Continue(p, <<>>)
    /\ UNCHANGED <<so, bak, rows, rec, writer, broken, cmds, fails>>

SetKeys(p) ==
    LET i == TheId(p) IN
    /\ At(p, "set_keys")
    /\ Then(p, IF Arg(p) /\ ~run[p].override THEN <<>>
               ELSE [k \in DOMAIN Pairs |-> Op("set_key", i, k)])
    /\ UNCHANGED <<so, bak, rows, rec, writer, broken, fault, cmds, fails>>

(* tpb_raf_kernel_update_meta_key reads the whole record, attributes too.  *)
SetKey(p) ==
    LET i == TheId(p)
        pair == Pairs[Arg(p)]
        new == [rec[i] EXCEPT !.meta = UpdateMetaKey(@, pair.sec, pair.key, pair.val),
                              !.told = Arg(p) = Len(Pairs)] IN
    /\ At(p, "set_key")
    /\ IF rec[i].whole THEN Then(p, <<Op("write_open", i, new)>>)
                       ELSE Continue(p, <<>>)
    /\ UNCHANGED <<so, bak, rows, rec, writer, broken, fault, cmds, fails>>

-----------------------------------------------------------------------------
(* The process is killed; inside an append it leaves the index torn. *)
Crash(p) ==
    /\ Busy(p) /\ Fail(TheName(p))
    /\ run' = [run EXCEPT ![p] = Idle]
    /\ writer' = IF writer = p THEN NoProc ELSE writer
    /\ broken' = (broken \/ writer = p)
    /\ UNCHANGED <<so, bak, rows, rec, cmds>>

Step(p) ==
    \/ Backup(p) \/ CopyOpen(p) \/ Copy(p) \/ Activate(p)
    \/ PatchRow(p) \/ PatchUtc(p) \/ PatchListFail(p) \/ PatchRecord(p) \/ Deactivate(p)
    \/ SwitchOff(p)
    \/ WriteOpen(p) \/ Write(p) \/ AppendBegin(p) \/ AppendRefuse(p) \/ AppendEnd(p)
    \/ Resolve(p) \/ ResolveBlind(p) \/ SetBegin(p) \/ SetKeys(p) \/ SetKey(p)

Next ==
    \/ \E i \in Id : Install(i)
    \/ \E p \in Proc :
        \/ \E n \in Name, override \in BOOLEAN : Scan(p, n, override)
        \/ \E i \in Id, override \in BOOLEAN : Build(p, i, override)
        \/ \E n \in Name : BackupInactive(p, n)
        \/ \E n \in Name, override \in BOOLEAN : KernelSet(p, n, override)
        \/ Step(p)
        \/ BackupFail(p) \/ CopyFail(p) \/ WriteFail(p) \/ Crash(p)

Spec == Init /\ [][Next]_vars

-----------------------------------------------------------------------------
(* Properties *)

(* No command on the name is under way, its commands were undisturbed and  *)
(* the index can be read.                                                  *)
Settled(n) ==
    fault[n] = "none" /\ ~broken /\ \A p \in Proc : Busy(p) => TheName(p) # n

(* Builds, rebuilds of an older variant, backups and scans, in any order,  *)
(* and one that repairs after a command that failed half way or an object  *)
(* put in place by hand: of the kernels of a name the installed one alone  *)
(* is active, and kernel get shows it. Its row and its record, patched one *)
(* after the other, and written back by kernel set, carry the same flag.   *)
InstalledIsActive ==
    \A n \in Name : Settled(n) =>
        /\ \A k \in ActiveRows(n) : rows[k].id = so[n]
        /\ HasRow(so[n]) => /\ ActiveRows(n) = {FirstRow(so[n])}
                            /\ KernelGet(n) = FirstRow(so[n])
        /\ \A k \in RowsOf(n) :
            rec[rows[k].id].whole => rec[rows[k].id].active = rows[k].active

(* What kernel set has written, kernel get reads back: all the keys of a   *)
(* command whose keys come in the order of the sections, as those of       *)
(* _sf_register_compile_meta do.                                           *)
SetReadsBack ==
    \A i \in Id : Settled(NameOf[i]) /\ rec[i].whole /\ rec[i].told =>
        \A k \in DOMAIN Pairs :
            Value(rec[i].meta, Pairs[k].sec, Pairs[k].key) = Pairs[k].val

(* "Update one metadata key on an existing kernel .tpbr record": the line  *)
(* that names a section is where it was, whatever keys were set.           *)
OneKeyUpdated ==
    \A i \in Id : rec[i].whole =>
        \A s \in DOMAIN Section : Value(rec[i].meta, s, "section") = Section[s]

(* As long as only scans and kernel set, without override, are at work on  *)
(* a name it keeps an active kernel, wherever they are killed, and also    *)
(* when they find what a failed build has left: a new kernel is listed     *)
(* before the old ones are switched off.                                   *)
KeepsActive ==
    [][\A n \in Name :
         /\ ActiveRows(n) # {} /\ fault[n] # "overlap"
         /\ \A p \in Proc : Busy(p) /\ TheName(p) = n =>
                run[p].cmd \in {"scan", "set"} /\ ~run[p].override
         => ActiveRows(n)' # {}]_vars
=============================================================================
