------------------------------ MODULE Storage ------------------------------
(***************************************************************************)
(* How the history of a table leaves bitkub.db and comes back: retention   *)
(* writes a past day's rows to a csv file, notes that in the table         *)
(* retention_archive_runs and then deletes the rows (services/             *)
(* db_service.py); a backup takes a snapshot of the database, and a        *)
(* restore puts it back (services/backup_service.py).  The engine runs     *)
(* retention once a day, the Diagnostics page whenever asked, and the two  *)
(* processes share the files.  A step is one statement on the database or  *)
(* one operation on the file system.                                       *)
(*                                                                         *)
(* One of the archived tables stands for all: they are gone over one after *)
(* another, and nothing relates them.  An archive that is switched off     *)
(* finds no day, as one with a window longer than the table does.          *)
(***************************************************************************)
EXTENDS Naturals, FiniteSets

CONSTANTS
    Keepers,     \* the processes that run retention
    Engine,      \* the one that writes rows and runs retention every day
    Windows,     \* the hot_retention_days that the configuration takes
    BackupDays,  \* backup_retention_days
    None,
    MaxDay,      \* bound: days
    MaxRows,     \* bound: rows written
    Scopes       \* bound: what may happen in one behavior, and how often

\* The processes at work, and how many of them are killed or have a statement
\* fail, snapshots and restores there are.
Scope ==
    [keepers : SUBSET Keepers, days : 1..MaxDay, windows : SUBSET Windows,
     rows : 0..MaxRows, cuts : Nat, backups : Nat, restores : Nat]

ASSUME KeepersAssumption == Engine \in Keepers
ASSUME WindowsAssumption == Windows \subseteq Nat \ {0} /\ BackupDays \in Nat
ASSUME BoundsAssumption == MaxDay \in Nat \ {0} /\ MaxRows \in Nat /\ Scopes \subseteq Scope

VARIABLES
    today,
    db,         \* bitkub.db: the rows of the table, and the archive run of each day
    archive,    \* archive[d]: the rows in the archive file of day d, or None
    tmp,        \* tmp[d]: the rows in its .tmp file, or None
    keeper,     \* keeper[p]: how far the process is
    cleaned,    \* last_retention_cleanup_day of the engine
    draft,      \* the snapshot in the staging directory, or None
    bundles,    \* the backups
    written,    \* the rows that were ever written
    restored,   \* rows that a restore replaced by older ones: meant to be gone
    spoilt,     \* days whose archive file was cut off while it was written
    left        \* what is left of the member of Scopes for this behavior

storage == <<today, db, archive, tmp, keeper, cleaned, draft, bundles, written, restored, spoilt, left>>

backup == <<draft, bundles, restored>>
history == <<written, left>>

Days == 1..MaxDay
Rows == [day : Days, no : 1..MaxRows]
RunStates == {"none", "pending", "deleted"}
Databases == [rows : SUBSET Rows, run : [Days -> RunStates]]

ASSUME NoneAssumption == \A rows \in SUBSET Rows : rows # None

First(days) == CHOOSE d \in days : \A e \in days : d <= e
RowsOf(d) == {r \in db.rows : r.day = d}

\* open: where the process's file handle leads.
Idle == [pc |-> "idle", cleanup |-> FALSE, began |-> 0, days |-> {}, rows |-> {},
         run |-> "none", open |-> "no"]

Keeping ==
    [pc : {"idle", "run", "rows", "write", "replace", "copy", "tidy", "note", "runs", "delete"},
     cleanup : BOOLEAN, began : 0..MaxDay, days : SUBSET Days, rows : SUBSET Rows,
     run : RunStates, open : {"no", "tmp", "file", "gone"}]

StorageInit ==
    /\ today = 1
    /\ db = [rows |-> {}, run |-> [d \in Days |-> "none"]]
    /\ archive = [d \in Days |-> None]
    /\ tmp = [d \in Days |-> None]
    /\ keeper = [p \in Keepers |-> Idle]
    /\ cleaned = 0
    /\ draft = None
    /\ bundles = {}
    /\ written = {}
    /\ restored = {}
    /\ spoilt = {}
    /\ left \in Scopes

Midnight ==
    /\ today < left.days
    /\ today' = today + 1
    /\ UNCHANGED <<db, archive, tmp, keeper, cleaned, backup, spoilt, history>>

\* The engine's pass inserts a row, stamped with the time.
Write ==
    /\ keeper[Engine].pc = "idle"
    /\ Cardinality(written) < left.rows
    /\ LET r == [day |-> today, no |-> Cardinality(written) + 1] IN
        /\ written' = written \cup {r}
        /\ db' = [db EXCEPT !.rows = @ \cup {r}]
    /\ UNCHANGED <<today, archive, tmp, keeper, cleaned, backup, spoilt, left>>

-----------------------------------------------------------------------------
(* archive_sqlite_retention.  The day in hand is the first one left.       *)

Goto(p, from, to) ==
    /\ keeper[p].pc = from
    /\ keeper' = [keeper EXCEPT ![p].pc = to]

Day(p) == First(keeper[p].days)

\* The next day, or the end of the archive: a cleanup goes on to delete.
NextDay(p) ==
    LET days == keeper[p].days \ {Day(p)}  k == keeper[p] IN
    keeper' = [keeper EXCEPT ![p] =
        IF days # {} THEN [k EXCEPT !.pc = "run", !.days = days, !.rows = {}]
        ELSE IF k.cleanup THEN [Idle EXCEPT !.pc = "runs", !.cleanup = TRUE, !.began = k.began]
        ELSE Idle]

\* A fault for the checks: a day too many.
CandidatesToday(hot) == {d \in Days : d + hot <= today /\ RowsOf(d) # {}}

\* The days before the window that have rows.
Candidates(hot) == {d \in Days : d + hot < today /\ RowsOf(d) # {}}

\* A fault for the checks: today's rows are taken for the past's.
BeginAnyDay(p, cleanup, hot) ==
    /\ keeper[p].pc = "idle"
    /\ LET days == {d \in Days : RowsOf(d) # {}}  k == [Idle EXCEPT !.cleanup = cleanup, !.began = today] IN
        keeper' = [keeper EXCEPT ![p] =
            IF days # {} THEN [k EXCEPT !.pc = "run", !.days = days]
            ELSE IF cleanup THEN [k EXCEPT !.pc = "runs"] ELSE Idle]
    /\ UNCHANGED <<today, db, archive, tmp, cleaned, backup, spoilt, history>>

Begin(p, cleanup, hot) ==
    /\ keeper[p].pc = "idle"
    /\ LET days == Candidates(hot)  k == [Idle EXCEPT !.cleanup = cleanup, !.began = today] IN
        keeper' = [keeper EXCEPT ![p] =
            IF days # {} THEN [k EXCEPT !.pc = "run", !.days = days]
            ELSE IF cleanup THEN [k EXCEPT !.pc = "runs"] ELSE Idle]
    /\ UNCHANGED <<today, db, archive, tmp, cleaned, backup, spoilt, history>>

ReadRun(p) ==
    /\ keeper[p].pc = "run"
    /\ keeper' = [keeper EXCEPT ![p].pc = "rows", ![p].run = db.run[Day(p)]]
    /\ UNCHANGED <<today, db, archive, tmp, cleaned, backup, spoilt, history>>

\* The rows are read, and the file is looked for; only rows without a file are
\* written, and a day that has neither any more is skipped.
ReadRows(p) ==
    /\ keeper[p].pc = "rows"
    /\ LET rows == RowsOf(Day(p))  there == archive[Day(p)] # None IN
        \/ /\ rows = {} /\ ~there
           /\ NextDay(p)
           /\ UNCHANGED tmp
        \/ /\ there
           /\ keeper' = [keeper EXCEPT ![p].pc = "note", ![p].rows = rows]
           /\ UNCHANGED tmp
        \/ /\ rows # {} /\ ~there
           /\ keeper' = [keeper EXCEPT ![p].pc = "write", ![p].rows = rows, ![p].open = "tmp"]
           /\ tmp' = [tmp EXCEPT ![Day(p)] = {}]
    /\ UNCHANGED <<today, db, archive, cleaned, backup, spoilt, history>>

\* _write_csv_archive_file writes and closes what it has opened: the .tmp file,
\* or what has become of it meanwhile.
WriteFile(p) ==
    /\ keeper[p].pc = "write"
    /\ keeper' = [keeper EXCEPT ![p].pc = "replace", ![p].open = "no"]
    /\ tmp' = IF keeper[p].open = "tmp" THEN [tmp EXCEPT ![Day(p)] = keeper[p].rows] ELSE tmp
    /\ archive' = IF keeper[p].open = "file" THEN [archive EXCEPT ![Day(p)] = keeper[p].rows] ELSE archive
    /\ UNCHANGED <<today, db, cleaned, backup, spoilt, history>>

\* Handles on the .tmp file of p's day lead elsewhere.
Lead(p, to) ==
    [q \in Keepers |->
        IF q # p /\ keeper[q].open = "tmp" /\ Day(q) = Day(p)
        THEN [keeper[q] EXCEPT !.open = to] ELSE keeper[q]]

\* Another process reads the .tmp file of p's day for a copy: that is where a
\* rename can be refused, and a file that is open cannot be moved or removed.
Held(p) == \E q \in Keepers \ {p} : keeper[q].pc = "copy" /\ Day(q) = Day(p)

\* tmp_path.replace(path): also of a .tmp file that the other process has emptied,
\* to fill it where it is then, or has left empty when it was cut off.
MoveInPlace(p) ==
    /\ keeper[p].pc = "replace"
    /\ ~Held(p)
    /\ tmp[Day(p)] # None
    /\ archive' = [archive EXCEPT ![Day(p)] = tmp[Day(p)]]
    /\ tmp' = [tmp EXCEPT ![Day(p)] = None]
    /\ keeper' = [Lead(p, "file") EXCEPT ![p].pc = "tidy"]
    /\ spoilt' = IF tmp[Day(p)] = keeper[p].rows \/ Lead(p, "file") # keeper
                 THEN spoilt ELSE spoilt \cup {Day(p)}
    /\ UNCHANGED <<today, db, cleaned, backup, history>>

\* Ten times it was not permitted: shutil.copy2 empties the file ...
BeginCopy(p) ==
    /\ Goto(p, "replace", "copy")
    /\ tmp[Day(p)] # None
    /\ archive' = [archive EXCEPT ![Day(p)] = {}]
    /\ UNCHANGED <<today, db, tmp, cleaned, backup, spoilt, history>>

\* ... and fills it, with what the .tmp file has then.
Copy(p) ==
    /\ Goto(p, "copy", "tidy")
    /\ archive' = [archive EXCEPT ![Day(p)] = tmp[Day(p)]]
    /\ spoilt' = IF tmp[Day(p)] = keeper[p].rows THEN spoilt ELSE spoilt \cup {Day(p)}
    /\ UNCHANGED <<today, db, tmp, cleaned, backup, history>>

\* The .tmp file, whosever it is now, is removed; or it is held, and stays.
Tidy(p) ==
    /\ keeper[p].pc = "tidy"
    /\ \/ /\ ~Held(p)
          /\ tmp' = [tmp EXCEPT ![Day(p)] = None]
          /\ keeper' = [Lead(p, "gone") EXCEPT ![p].pc = "note"]
       \/ keeper' = [keeper EXCEPT ![p].pc = "note"] /\ UNCHANGED tmp
    /\ UNCHANGED <<today, db, archive, cleaned, backup, spoilt, history>>

\* _upsert_archive_run: the cleanup status is the one that was read.
Note(p) ==
    /\ keeper[p].pc = "note"
    /\ db' = [db EXCEPT !.run[Day(p)] = IF keeper[p].run = "none" THEN "pending" ELSE keeper[p].run]
    /\ NextDay(p)
    /\ UNCHANGED <<today, archive, tmp, cleaned, backup, spoilt, history>>

-----------------------------------------------------------------------------
(* cleanup_sqlite_retention after its archive.                             *)

\* A fault for the checks: the engine notes the day on which it ended.
EndCleanupToday(p) ==
    /\ keeper' = [keeper EXCEPT ![p] = Idle]
    /\ cleaned' = IF p = Engine THEN today ELSE cleaned

\* The end of a cleanup; the engine notes the day on which it began.
EndCleanup(p) ==
    /\ keeper' = [keeper EXCEPT ![p] = Idle]
    /\ cleaned' = IF p = Engine THEN keeper[p].began ELSE cleaned

\* _delete_archived_table_partitions fetches the runs that are not deleted.
ReadRuns(p) ==
    /\ keeper[p].pc = "runs"
    /\ LET days == {d \in Days : db.run[d] = "pending"} IN
        IF days = {} THEN EndCleanup(p)
        ELSE keeper' = [keeper EXCEPT ![p].pc = "delete", ![p].days = days] /\ UNCHANGED cleaned
    /\ UNCHANGED <<today, db, archive, tmp, backup, spoilt, history>>

\* A fault for the checks: a status that is none.
DeleteDone(p) ==
    /\ keeper[p].pc = "delete"
    /\ db' = [rows |-> db.rows \ RowsOf(Day(p)), run |-> [db.run EXCEPT ![Day(p)] = "done"]]
    /\ LET days == keeper[p].days \ {Day(p)} IN
        IF days = {} THEN EndCleanup(p)
        ELSE keeper' = [keeper EXCEPT ![p].days = days] /\ UNCHANGED cleaned
    /\ UNCHANGED <<today, archive, tmp, backup, spoilt, history>>

\* One transaction for each run: its rows go, and it is deleted.
Delete(p) ==
    /\ keeper[p].pc = "delete"
    /\ db' = [rows |-> db.rows \ RowsOf(Day(p)), run |-> [db.run EXCEPT ![Day(p)] = "deleted"]]
    /\ LET days == keeper[p].days \ {Day(p)} IN
        IF days = {} THEN EndCleanup(p)
        ELSE keeper' = [keeper EXCEPT ![p].days = days] /\ UNCHANGED cleaned
    /\ UNCHANGED <<today, archive, tmp, backup, spoilt, history>>

\* What is half written where the archive file is.
Spoils(p) ==
    IF keeper[p].pc = "copy" \/ keeper[p].open = "file" THEN {Day(p)} ELSE {}

\* The replace finds no .tmp file, for the other process has moved it in place:
\* retention fails, and the engine tries again in its next pass.
Loses(p) ==
    /\ keeper[p].pc = "replace"
    /\ tmp[Day(p)] = None
    /\ keeper' = [keeper EXCEPT ![p] = Idle]
    /\ UNCHANGED <<today, db, archive, tmp, cleaned, backup, spoilt, history>>

\* A statement or a write fails, or the process is killed; a new engine knows
\* of no cleanup.  The .tmp file is removed by an exception only.
Cut(p) ==
    /\ keeper[p].pc # "idle"
    /\ left.cuts > 0
    /\ left' = [left EXCEPT !.cuts = @ - 1]
    /\ spoilt' = spoilt \cup Spoils(p)
    /\ \/ /\ keeper[p].open # "no" \/ keeper[p].pc \in {"replace", "copy", "tidy"}
          /\ ~Held(p)
          /\ tmp' = [tmp EXCEPT ![Day(p)] = None]
          /\ keeper' = [Lead(p, "gone") EXCEPT ![p] = Idle]
          /\ UNCHANGED cleaned
       \/ /\ keeper' = [keeper EXCEPT ![p] = Idle]
          /\ cleaned' \in {cleaned, IF p = Engine THEN 0 ELSE cleaned}
          /\ UNCHANGED tmp
    /\ UNCHANGED <<today, db, archive, backup, written>>

-----------------------------------------------------------------------------
(* Backup and restore.                                                     *)

\* The backup API gives one state of the database.
Snapshot ==
    /\ draft = None
    /\ left.backups > 0
    /\ left' = [left EXCEPT !.backups = @ - 1]
    /\ draft' = db
    /\ UNCHANGED <<today, db, archive, tmp, keeper, cleaned, bundles, restored, spoilt, written>>

Bundle == [db : Databases, day : Days]

\* The bundle is moved in place, and the bundles that are too old are pruned; or
\* an asset is missing, the zip fails or the process is killed, and all is as it was.
Publish ==
    /\ draft # None
    /\ draft' = None
    /\ \/ bundles' = {b \in bundles : BackupDays = 0 \/ today <= b.day + BackupDays}
                     \cup {[db |-> draft, day |-> today]}
       \/ UNCHANGED bundles
    /\ UNCHANGED <<today, db, archive, tmp, keeper, cleaned, restored, spoilt, history>>

\* A fault for the checks: the rows are put back, the runs are not.
RestoreRows(b) ==
    /\ b \in bundles
    /\ left.restores > 0
    /\ left' = [left EXCEPT !.restores = @ - 1]
    /\ db' = [db EXCEPT !.rows = b.db.rows]
    /\ restored' = restored \cup (db.rows \ b.db.rows)
    /\ keeper' = [p \in Keepers |-> Idle]
    /\ spoilt' = spoilt \cup UNION {Spoils(p) : p \in Keepers}
    /\ cleaned' = 0
    /\ draft' = None
    /\ UNCHANGED <<today, archive, tmp, bundles, written>>

\* restore_runtime_backup, after the engine and Streamlit were stopped, with
\* --overwrite: the database is replaced as a whole.  The archive is in no bundle.
Restore(b) ==
    /\ b \in bundles
    /\ left.restores > 0
    /\ left' = [left EXCEPT !.restores = @ - 1]
    /\ db' = b.db
    /\ restored' = restored \cup (db.rows \ b.db.rows)
    /\ keeper' = [p \in Keepers |-> Idle]
    /\ spoilt' = spoilt \cup UNION {Spoils(p) : p \in Keepers}
    /\ cleaned' = 0
    /\ draft' = None
    /\ UNCHANGED <<today, archive, tmp, bundles, written>>

-----------------------------------------------------------------------------

Keep(p) ==
    \/ ReadRun(p) \/ ReadRows(p) \/ WriteFile(p) \/ MoveInPlace(p) \/ BeginCopy(p) \/ Copy(p)
    \/ Tidy(p) \/ Note(p) \/ ReadRuns(p) \/ Delete(p) \/ Loses(p)

\* The loop runs a cleanup on a day that has none; a start and a reload of the
\* configuration force one.
BeginDue == cleaned < today /\ \E hot \in left.windows : Begin(Engine, TRUE, hot)

StorageNext ==
    \/ Midnight \/ Write
    \/ \E p \in left.keepers, cleanup \in BOOLEAN, hot \in left.windows :
        (p = Engine => cleanup) /\ Begin(p, cleanup, hot)
    \/ \E p \in Keepers : Keep(p) \/ Cut(p)
    \/ Snapshot \/ Publish \/ \E b \in bundles : Restore(b)

StorageSpec == StorageInit /\ [][StorageNext]_storage

\* The engine's loop goes on.
StorageFairSpec == StorageSpec /\ WF_storage(BeginDue) /\ WF_storage(Keep(Engine))

-----------------------------------------------------------------------------

StorageTypeOK ==
    /\ today \in Days
    /\ db \in Databases
    /\ archive \in [Days -> {None} \cup SUBSET Rows]
    /\ tmp \in [Days -> {None} \cup SUBSET Rows]
    /\ keeper \in [Keepers -> Keeping]
    /\ cleaned \in 0..MaxDay
    /\ draft \in Databases \cup {None}
    /\ bundles \subseteq Bundle
    /\ written \subseteq Rows /\ restored \subseteq Rows /\ spoilt \subseteq Days /\ left \in Scope

Archived(r) == archive[r.day] # None /\ r \in archive[r.day]

\* A process is about to write the row where the archive file is.
InHand(r) == \E p \in Keepers : r \in keeper[p].rows /\ r.day \in Spoils(p)

\* Retention and restores lose no row: it is in the database or in its day's
\* archive file, whichever processes archive and delete at once and wherever
\* they are cut off; but for a file that was cut off while it was written in
\* place, which the next archive takes for whole.
NothingLost ==
    \A r \in written \ restored :
        r.day \notin spoilt => r \in db.rows \/ Archived(r) \/ InHand(r)

\* A day that counts as deleted has no rows, so that none is left for good: a
\* day is not deleted twice.  Restores keep it so.
DeletedIsEmpty == \A d \in Days : db.run[d] = "deleted" => RowsOf(d) = {}

\* Within the shortest window the table keeps its rows.
RecentRowsKept ==
    [][\A r \in db.rows \ db'.rows :
        (\E hot \in Windows : r.day + hot < today) \/ left'.restores # left.restores]_storage

\* The rows older than any window are gone in the end, through failed
\* cleanups, lost .tmp files, restarts, restores and midnights.  (Within MaxDay
\* days, the days that ever are.)
OldRowsGo ==
    \A d \in {e \in Days : \A hot \in Windows : e + hot < MaxDay} :
        (RowsOf(d) # {} /\ \A hot \in Windows : d + hot < today) ~> RowsOf(d) = {}
=============================================================================
