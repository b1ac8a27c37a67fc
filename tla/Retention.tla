------------------------------ MODULE Retention ------------------------------
(***************************************************************************)
(* What the live node writes and what the daily maintenance process takes  *)
(* away again: the rows of an archived report table (sqlite_store.py,      *)
(* persistence_service.py) and the lines of a JSONL stream                 *)
(* (jsonl_store.py).                                                       *)
(*                                                                         *)
(* The maintenance is a process of its own beside the running node         *)
(* (maintenance/retention.py); its systemd unit takes a lock, so that one  *)
(* runs at a time.  It exports the rows older than a cutoff to a gzip file *)
(* of its own and deletes them only if every one of them still is what it  *)
(* exported; then it compresses the rotated JSONL files that are old       *)
(* enough and deletes the archives that have expired.  It can be killed    *)
(* between any two of its steps, and so can the node between writing a     *)
(* line and rotating the file.                                             *)
(*                                                                         *)
(* The clock is a day.  Temporary files and what is left of them after a   *)
(* crash are not modelled: nobody reads them, and the next job on the same *)
(* name removes them.                                                      *)
(***************************************************************************)
EXTENDS Integers, FiniteSets, FiniteSetsExt, Functions

CONSTANTS
  Ids,          \* the ids a row of the table can have
  none,         \* the id has no row
  HotDays,      \* TableRetentionPolicy.hot_days, jsonl_hot_days
  ArchiveDays,  \* jsonl_archive_days
  MaxFileLines, \* max_file_bytes: a file with more lines is rotated
  MaxDay,       \* bound: days
  MaxWrites,    \* bound: writes of rows
  MaxLines,     \* bound: lines written
  MaxJobs       \* bound: runs of the maintenance

(* A rotated file is named after its day: it must not be compressed, which *)
(* frees the name, on the day it was rotated.                              *)
ASSUME RetentionAssumption ==
  /\ none \notin [rev : Nat, open : BOOLEAN, at : Nat]
  /\ HotDays \in Nat \ {0}
  /\ ArchiveDays \in Nat
  /\ MaxFileLines \in Nat /\ MaxWrites \in Nat /\ MaxDay \in Nat

VARIABLES
  day,       \* today
  rows,      \* the live table: the row of each id
  writes,    \* rows written: a write's number is the content it gave its row
  archives,  \* the archive of each job that left one: the rows it holds
  gone,      \* history: the rows as they were when they were deleted
  stage,     \* where the maintenance process stands
  job,       \* the number of its run: the timestamp in the archive's name
  snap,      \* _retention_archived_rows: the rows it exported
  active,    \* the lines of <stream>.jsonl
  rotated,   \* <stream>_<day>_<sequence>.jsonl: its lines
  packed,    \* <stream>_<day>_<sequence>.jsonl.gz: its lines
  packing,   \* the name whose archive is in place and whose file is not yet gone
  written,   \* history: lines written
  expired    \* history: lines of the archives that were deleted by age

tableVars == <<rows, writes, archives, gone>>
fileVars == <<active, rotated, packed, written, expired>>
jobVars == <<stage, job, snap, packing>>
vars == <<day, tableVars, fileVars, jobVars>>

Row == [rev : 1..MaxWrites, open : BOOLEAN, at : 0..MaxDay]
Name == (0..MaxDay) \X (Nat \ {0})
Stages == {"idle", "export", "publish", "delete", "files"}

Init ==
  /\ day = 0
  /\ rows = [i \in Ids |-> none] /\ writes = 0
  /\ archives = <<>> /\ gone = {}
  /\ stage = "idle" /\ job = 0 /\ snap = {} /\ packing = none
  /\ active = {} /\ rotated = <<>> /\ packed = <<>>
  /\ written = 0 /\ expired = {}

-----------------------------------------------------------------------------
(* The live node.                                                          *)

(* It writes the row of an id: a projection of an event of any day so far, *)
(* open or closed.                                                         *)
WriteRow(i) ==
  /\ writes < MaxWrites
  /\ writes' = writes + 1
  /\ \E open \in BOOLEAN, at \in 0..day :
       rows' = [rows EXCEPT ![i] = [rev |-> writes', open |-> open, at |-> at]]
  /\ UNCHANGED <<day, archives, gone, fileVars, jobVars>>

(* `_rotate`: the next sequence of the day, one above those still there.   *)
NextName ==
  LET taken == {name[2] : name \in {n \in DOMAIN rotated : n[1] = day}}
  IN <<day, Max(taken \cup {0}) + 1>>

(* A file under a name: what was under it is replaced.                     *)
Put(files, name, lines) ==
  [n \in DOMAIN files \cup {name} |-> IF n = name THEN lines ELSE files[n]]

Without(files, names) == Restrict(files, DOMAIN files \ names)

(* `append`: the line, and the rotation it makes due.  The node may stop   *)
(* between the two; the next append rotates then.                          *)
Append ==
  LET lines == active \cup {written + 1}
  IN /\ written < MaxLines
     /\ written' = written + 1
     /\ \/ /\ Cardinality(lines) > MaxFileLines
           /\ rotated' = Put(rotated, NextName, lines)
           /\ active' = {}
        \/ active' = lines /\ UNCHANGED rotated
     /\ UNCHANGED <<day, tableVars, packed, expired, jobVars>>

NextDay ==
  /\ day < MaxDay
  /\ day' = day + 1
  /\ UNCHANGED <<tableVars, fileVars, jobVars>>

-----------------------------------------------------------------------------
(* The maintenance process.                                                *)

(* A table is retained only above the soft limit; the files always.        *)
StartMaintenance ==
  /\ stage = "idle" /\ job < MaxJobs
  /\ job' = job + 1
  /\ stage' \in {"export", "files"}
  /\ UNCHANGED <<day, tableVars, fileVars, snap, packing>>

(* The rows a job takes: older than the cutoff, in no preserved status.    *)
Due(row) == row.at + HotDays <= day /\ ~row.open
Cold == {<<i, rows[i]>> : i \in {j \in Ids : rows[j] # none /\ Due(rows[j])}}

(* The export is a snapshot of one read; without a row there is no archive.*)
Export ==
  /\ stage = "export"
  /\ snap' = Cold
  /\ stage' = IF Cold = {} THEN "files" ELSE "publish"
  /\ UNCHANGED <<day, tableVars, fileVars, job, packing>>

Publish ==
  /\ stage = "publish"
  /\ archives' = Put(archives, job, snap)
  /\ stage' = "delete"
  /\ UNCHANGED <<day, rows, writes, gone, fileVars, job, snap, packing>>

(* Fault: a row under every exported id is enough.                         *)
StillThere == \A p \in snap : rows[p[1]] # none

(* Every exported row is in the table as it was exported.                  *)
Unchanged == \A p \in snap : rows[p[1]] = p[2]

Exported == {p[1] : p \in snap}

(* One transaction, which the node cannot enter.                           *)
Delete ==
  /\ stage = "delete" /\ Unchanged
  /\ gone' = gone \cup {<<i, rows[i]>> : i \in Exported}
  /\ rows' = [i \in Ids |-> IF i \in Exported THEN none ELSE rows[i]]
  /\ snap' = {}
  /\ stage' = "files"
  /\ UNCHANGED <<day, writes, archives, fileVars, job, packing>>

(* A row was changed, or the store stays locked: the archive is withdrawn, *)
(* and the error ends the run with its files undone.                       *)
Withdraw ==
  /\ stage = "delete"
  /\ archives' = Without(archives, {job})
  /\ snap' = {}
  /\ stage' = "idle"
  /\ UNCHANGED <<day, rows, writes, gone, fileVars, job, packing>>

(* `_compress_and_archive_old_files`: the archive is put in place under    *)
(* the name, then the file is removed.                                     *)
Compress(name) ==
  /\ stage = "files" /\ packing = none
  /\ name[1] + HotDays <= day
  /\ packed' = Put(packed, name, rotated[name])
  /\ packing' = name
  /\ UNCHANGED <<day, tableVars, active, rotated, written, expired, stage, job, snap>>

Unlink ==
  /\ stage = "files" /\ packing # none
  /\ rotated' = Without(rotated, {packing})
  /\ packing' = none
  /\ UNCHANGED <<day, tableVars, active, packed, written, expired, stage, job, snap>>

(* Every file that is old enough has its archive.                          *)
Compressed == packing = none /\ \A name \in DOMAIN rotated : name[1] + HotDays >= day

(* `cleanup_expired_archives`, by the time the archive inherited from its  *)
(* file.                                                                   *)
Expire(name) ==
  /\ stage = "files" /\ Compressed
  /\ name[1] + ArchiveDays <= day
  /\ expired' = expired \cup packed[name]
  /\ packed' = Without(packed, {name})
  /\ UNCHANGED <<day, tableVars, active, rotated, written, jobVars>>

Finish ==
  /\ stage = "files" /\ Compressed
  /\ \A name \in DOMAIN packed : name[1] + ArchiveDays >= day
  /\ stage' = "idle"
  /\ UNCHANGED <<day, tableVars, fileVars, job, snap, packing>>

(* The process is killed between two of its steps.  Its snapshot was a     *)
(* temporary table.                                                        *)
Crash ==
  /\ stage # "idle"
  /\ stage' = "idle" /\ snap' = {} /\ packing' = none
  /\ UNCHANGED <<day, tableVars, fileVars, job>>

Node == Append \/ \E i \in Ids : WriteRow(i)

Maintenance ==
  \/ StartMaintenance \/ Export \/ Publish \/ Delete \/ Withdraw
  \/ \E name \in DOMAIN rotated : Compress(name)
  \/ Unlink
  \/ \E name \in DOMAIN packed : Expire(name)
  \/ Finish \/ Crash

Next == Node \/ Maintenance \/ NextDay

Spec == Init /\ [][Next]_vars

-----------------------------------------------------------------------------
Lines(files) == UNION {files[name] : name \in DOMAIN files}

(* Types; the parts of the state are as the comments above say.            *)
TypeOK ==
  /\ day \in 0..MaxDay
  /\ rows \in [Ids -> Row \cup {none}] /\ writes \in 0..MaxWrites
  /\ stage \in Stages
  /\ job \in Nat
  /\ written \in Nat
  /\ DOMAIN archives \subseteq 1..job
  /\ DOMAIN rotated \cup DOMAIN packed \subseteq Name
  /\ packing \in DOMAIN rotated \cup {none}

(* A row that left the table was closed, and is in an archive that still   *)
(* exists as it was when it was deleted: an update of the node's between   *)
(* the export and the delete is neither deleted nor archived stale.        *)
RowsAreKept ==
  \A p \in gone : ~p[2].open /\ \E j \in DOMAIN archives : p \in archives[j]

(* Every line ever appended is in the stream, in a rotated file, in an     *)
(* archive, or was in one that expired: no file is removed before its      *)
(* archive is in place and no name is used for a second file.              *)
LinesAreKept ==
  1..written = active \cup Lines(rotated) \cup Lines(packed) \cup expired

(* Whatever the interleaving of the node and the maintenance and wherever  *)
(* either is killed, nothing that was recorded is lost.                    *)
NothingIsLost == RowsAreKept /\ LinesAreKept
=============================================================================
