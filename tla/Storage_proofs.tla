--------------------------- MODULE Storage_proofs ---------------------------
(***************************************************************************)
(* Retention and restores lose no row, for any number of processes, days,  *)
(* rows, backups and restores, wherever a process is cut off.              *)
(*                                                                         *)
(* NothingLost is not inductive.  What makes a delete safe is that a run   *)
(* is noted only when the day has an archive file; and what makes the file *)
(* safe is that whoever writes it holds all rows of the day, which is over *)
(* and gets no more of them.  RetentionInv says so of the files, of each   *)
(* process, and of every copy of the database that may be put back.        *)
(***************************************************************************)
EXTENDS Storage, FiniteSetTheorems, WellFoundedInduction, NaturalsInduction, TLAPS

-----------------------------------------------------------------------------
(* The invariant.                                                          *)

\* The rows of a day that are to be kept, and whether the day is over for some
\* window.
Kept(d) == {r \in written \ restored : r.day = d}
Old(d) == \E hot \in Windows : d + hot < today

\* Without an archive file a day has its rows in the database.  A file is of a day
\* that is over, and has all of its rows, unless it was or is being spoilt.
FileOK(d) ==
    /\ archive[d] = None => Kept(d) \subseteq db.rows
    /\ archive[d] # None => Old(d)
    /\ archive[d] # None /\ d \notin spoilt =>
           Kept(d) \subseteq archive[d] \/ \E p \in Keepers : d \in Spoils(p)

\* A process works on days that are over; it holds all rows of the day that it
\* archives, it notes and deletes days that have a file, and a run that it has read
\* as deleted still has no rows.
KeeperOK(p) ==
    LET k == keeper[p] IN
    /\ k.pc \notin {"idle", "runs"} => k.days # {}
    /\ \A d \in k.days : Old(d)
    /\ k.open # "no" => k.pc = "write"
    /\ k.pc \in {"write", "replace", "copy"} => Kept(Day(p)) \subseteq k.rows
    /\ k.open = "file" \/ k.pc \in {"copy", "tidy", "note"} => archive[Day(p)] # None
    /\ k.pc = "copy" => tmp[Day(p)] # None
    /\ k.pc = "delete" => \A d \in k.days : archive[d] # None
    /\ k.pc \in {"rows", "write", "replace", "copy", "tidy", "note"} /\ k.run = "deleted" =>
           RowsOf(Day(p)) = {}

\* A database that is in use, or may be put back, knows only runs of days with a
\* file, and has no rows of a day that it says is deleted.
DatabaseOK(D) ==
    \A d \in Days :
        /\ D.run[d] # "none" => archive[d] # None
        /\ D.run[d] = "deleted" => \A r \in D.rows : r.day # d

DatabasesOK ==
    /\ DatabaseOK(db)
    /\ draft # None => DatabaseOK(draft)
    /\ \A b \in bundles : DatabaseOK(b.db)

RetentionInv ==
    /\ StorageTypeOK /\ IsFiniteSet(written)
    /\ \A d \in Days : FileOK(d)
    /\ \A p \in Keepers : KeeperOK(p)
    /\ DatabasesOK

-----------------------------------------------------------------------------
(* What the steps share.                                                   *)

LEMMA FirstIsLeast ==
    ASSUME NEW S \in SUBSET Nat, S # {}
    PROVE  First(S) \in S
<1>1. PICK x \in S : \A y \in S : ~(<<y, x>> \in OpToRel(<, Nat))
  BY NatLessThanWellFounded, WFMin
<1>2. \A y \in S : x <= y
  <2>. SUFFICES ASSUME NEW y \in S, ~(x <= y) PROVE FALSE
    OBVIOUS
  <2>1. x \in Nat /\ y \in Nat /\ y < x
    OBVIOUS
  <2>2. <<y, x>> \in OpToRel(<, Nat)
    BY <2>1 DEF OpToRel
  <2>. QED BY <1>1, <2>2
<1>. QED BY <1>2 DEF First

LEMMA PutOne ==
    ASSUME NEW S, NEW T, NEW f \in [S -> T], NEW d, NEW e \in T
    PROVE  [f EXCEPT ![d] = e] \in [S -> T]
  OBVIOUS

\* The day in hand is one of those left to the process, and is over.
LEMMA DayInHand ==
    ASSUME StorageTypeOK, NEW p \in Keepers, KeeperOK(p), keeper[p].pc \notin {"idle", "runs"}
    PROVE  Day(p) \in keeper[p].days /\ Day(p) \in Days /\ Old(Day(p))
<1>1. keeper[p].days \subseteq Days /\ Days \subseteq Nat
  BY DEF StorageTypeOK, Keeping, Days
<1>2. keeper[p].days # {}
  BY DEF KeeperOK
<1>3. Day(p) \in keeper[p].days
  BY <1>1, <1>2, FirstIsLeast DEF Day
<1>. QED BY <1>1, <1>3 DEF KeeperOK

\* A day that is over stays so.
LEMMA OldStays ==
    ASSUME today \in Nat, today' \in Nat, today <= today', NEW d \in Nat, Old(d)
    PROVE  Old(d)'
  BY WindowsAssumption DEF Old

\* A step of p leaves the other processes where they are, but for where their
\* handles on the .tmp file lead.
Others(p) ==
    \A q \in Keepers \ {p} :
        /\ keeper'[q].pc = keeper[q].pc /\ keeper'[q].days = keeper[q].days
        /\ keeper'[q].rows = keeper[q].rows /\ keeper'[q].run = keeper[q].run
        /\ \/ keeper'[q].open = keeper[q].open
           \/ keeper[q].open = "tmp" /\ keeper'[q].open = "gone"
           \/ keeper[q].open = "tmp" /\ keeper'[q].open = "file" /\ archive'[Day(q)] # None

\* What p leaves alone with the day it has in hand.
Harmless(p) ==
    /\ Others(p)
    /\ UNCHANGED <<today, written, restored, draft, bundles>>
    /\ db'.rows \subseteq db.rows
    /\ \A d \in Days : archive[d] # None => archive'[d] # None
    /\ \A q \in Keepers \ {p} : keeper[q].pc = "copy" => tmp'[Day(q)] # None

LEMMA OthersKeep ==
    ASSUME RetentionInv, NEW p \in Keepers, Harmless(p), NEW q \in Keepers \ {p}
    PROVE  KeeperOK(q)' /\ Spoils(q) \subseteq Spoils(q)'
<1>1. StorageTypeOK /\ KeeperOK(q)
  BY DEF RetentionInv
<1>2. /\ keeper'[q].pc = keeper[q].pc /\ keeper'[q].days = keeper[q].days
      /\ keeper'[q].rows = keeper[q].rows /\ keeper'[q].run = keeper[q].run
      /\ keeper'[q].open = keeper[q].open \/ keeper[q].open = "tmp"
      /\ keeper'[q].open = "file" => keeper[q].open = "file" \/ archive'[Day(q)] # None
      /\ keeper'[q].open = "no" => keeper[q].open = "no"
  BY DEF Harmless, Others
<1>3. Day(q)' = Day(q)
  BY <1>2 DEF Day
<1>4. \A d : Kept(d)' = Kept(d) /\ (Old(d)' <=> Old(d)) /\ RowsOf(d)' \subseteq RowsOf(d)
  BY DEF Harmless, Kept, Old, RowsOf
<1>5. keeper[q].pc \notin {"idle", "runs"} => Day(q) \in Days
  BY <1>1, DayInHand
<1>6. \A d \in keeper[q].days : d \in Days
  BY <1>1 DEF StorageTypeOK, Keeping
<1>7. KeeperOK(q)'
  <2>1. keeper'[q].open = "file" \/ keeper'[q].pc \in {"copy", "tidy", "note"} => archive'[Day(q)] # None
    BY <1>1, <1>2, <1>5 DEF KeeperOK, Harmless
  <2>2. keeper'[q].pc = "copy" => tmp'[Day(q)] # None
    BY <1>2 DEF Harmless
  <2>3. keeper'[q].pc = "delete" => \A d \in keeper'[q].days : archive'[d] # None
    BY <1>1, <1>2, <1>6 DEF KeeperOK, Harmless
  <2>4. keeper'[q].pc \in {"rows", "write", "replace", "copy", "tidy", "note"} /\ keeper'[q].run = "deleted" =>
           RowsOf(Day(q))' = {}
    BY <1>1, <1>2, <1>3, <1>4 DEF KeeperOK
  <2>5. /\ keeper'[q].pc \notin {"idle", "runs"} => keeper'[q].days # {}
        /\ \A d \in keeper'[q].days : Old(d)'
        /\ keeper'[q].open # "no" => keeper'[q].pc = "write"
        /\ keeper'[q].pc \in {"write", "replace", "copy"} => Kept(Day(q))' \subseteq keeper'[q].rows
    BY <1>1, <1>2, <1>3, <1>4 DEF KeeperOK
  <2>. QED BY <1>3, <2>1, <2>2, <2>3, <2>4, <2>5 DEF KeeperOK
<1>8. Spoils(q) \subseteq Spoils(q)'
  BY <1>2, <1>3 DEF Spoils
<1>. QED BY <1>7, <1>8

\* What is left to show of a step of p.
LEMMA StepOf ==
    ASSUME RetentionInv, NEW p \in Keepers, Harmless(p), StorageTypeOK', KeeperOK(p)',
           \A d \in Days : FileOK(d)', DatabaseOK(db)'
    PROVE  RetentionInv'
<1>1. \A q \in Keepers : KeeperOK(q)'
  BY OthersKeep
<1>2. ASSUME NEW D, DatabaseOK(D) PROVE \A d \in Days : D.run[d] # "none" => archive'[d] # None
  BY <1>2 DEF DatabaseOK, Harmless
<1>3. DatabasesOK'
  <2>1. UNCHANGED <<draft, bundles>>
    BY DEF Harmless
  <2>2. draft # None => DatabaseOK(draft)'
    BY <1>2, <2>1 DEF RetentionInv, DatabasesOK, DatabaseOK
  <2>3. \A b \in bundles : DatabaseOK(b.db)'
    BY <1>2, <2>1 DEF RetentionInv, DatabasesOK, DatabaseOK
  <2>. QED BY <2>1, <2>2, <2>3 DEF DatabasesOK
<1>4. IsFiniteSet(written')
  BY DEF RetentionInv, Harmless
<1>. QED BY <1>1, <1>3, <1>4 DEF RetentionInv

\* The files, where a step leaves their contents and the rows alone.
LEMMA FilesStay ==
    ASSUME RetentionInv, NEW p \in Keepers, Harmless(p), NEW d \in Days, archive'[d] = archive[d],
           archive[d] = None => db'.rows = db.rows,
           d \in spoilt => d \in spoilt', d \in Spoils(p) => d \in Spoils(p)' \cup spoilt'
    PROVE  FileOK(d)'
<1>1. FileOK(d)
  BY DEF RetentionInv
<1>2. Kept(d)' = Kept(d) /\ (Old(d)' <=> Old(d))
  BY DEF Harmless, Kept, Old
<1>3. ASSUME NEW q \in Keepers, d \in Spoils(q), d \notin spoilt' PROVE d \in Spoils(q)'
  BY <1>3, OthersKeep
<1>. QED BY <1>1, <1>2, <1>3 DEF FileOK

-----------------------------------------------------------------------------
(* The steps of a process.                                                 *)

\* A process goes on, and neither rows nor files change.
LEMMA QuietStep ==
    ASSUME RetentionInv, NEW p \in Keepers, NEW k \in Keeping, keeper' = [keeper EXCEPT ![p] = k],
           UNCHANGED <<today, db, archive, tmp, backup, spoilt, history>>, cleaned' \in 0..MaxDay,
           keeper[p].open # "file", keeper[p].pc # "copy", KeeperOK(p)'
    PROVE  RetentionInv'
<1>0. StorageTypeOK
  BY DEF RetentionInv
<1>1. /\ keeper'[p] = k /\ \A q \in Keepers \ {p} : keeper'[q] = keeper[q]
      /\ keeper' \in [Keepers -> Keeping]
  BY <1>0 DEF StorageTypeOK
<1>2. UNCHANGED <<today, db, archive, tmp, draft, bundles, restored, spoilt, written, left>>
  BY DEF backup, history
<1>3. StorageTypeOK'
  BY <1>0, <1>1, <1>2 DEF StorageTypeOK
<1>4. Others(p)
  BY <1>1 DEF Others
<1>5. \A q \in Keepers \ {p} : keeper[q].pc = "copy" => tmp'[Day(q)] # None
  BY <1>2 DEF RetentionInv, KeeperOK
<1>6. Harmless(p)
  BY <1>2, <1>4, <1>5 DEF Harmless
<1>7. \A d \in Days : FileOK(d)'
  <2>1. Spoils(p) = {}
    BY DEF Spoils
  <2>. QED BY <1>2, <1>6, <2>1, FilesStay
<1>8. DatabaseOK(db)'
  BY <1>2 DEF RetentionInv, DatabasesOK, DatabaseOK
<1>. QED BY <1>3, <1>6, <1>7, <1>8, StepOf

\* A process without anything in hand is as it should be.
LEMMA IdleOK ==
    ASSUME NEW p \in Keepers, keeper'[p].pc \in {"idle", "runs"}, keeper'[p].days = {}, keeper'[p].open = "no"
    PROVE  KeeperOK(p)'
  BY DEF KeeperOK

LEMMA IdleKeeps == Idle \in Keeping /\ Idle.pc = "idle" /\ Idle.days = {} /\ Idle.open = "no"
  BY BoundsAssumption DEF Idle, Keeping, RunStates

LEMMA BeginStep ==
    ASSUME RetentionInv, NEW p \in Keepers, NEW cleanup \in BOOLEAN, NEW hot \in Windows, Begin(p, cleanup, hot)
    PROVE  RetentionInv'
<1>0. StorageTypeOK /\ keeper[p].pc = "idle" /\ KeeperOK(p)
  BY DEF RetentionInv, Begin
<1>1. Candidates(hot) \subseteq Days /\ \A d \in Candidates(hot) : Old(d)
  BY DEF Candidates, Old
<1>2. keeper[p].open # "file"
  BY <1>0 DEF KeeperOK, StorageTypeOK, Keeping
<1>. DEFINE k0 == [Idle EXCEPT !.cleanup = cleanup, !.began = today]
            k == IF Candidates(hot) # {} THEN [k0 EXCEPT !.pc = "run", !.days = Candidates(hot)]
                 ELSE IF cleanup THEN [k0 EXCEPT !.pc = "runs"] ELSE Idle
<1>3. keeper' = [keeper EXCEPT ![p] = k]
  BY DEF Begin
<1>4. k \in Keeping /\ k.open = "no"
      /\ \/ k.pc = "run" /\ k.days = Candidates(hot) /\ k.days # {}
         \/ k.pc \in {"idle", "runs"} /\ k.days = {}
  <2>1. /\ k0 \in Keeping /\ k0.open = "no" /\ k0.days = {} /\ k0.pc = "idle"
        /\ Idle \in Keeping /\ Idle.open = "no" /\ Idle.days = {} /\ Idle.pc = "idle"
    <3>1. Idle \in Keeping /\ Idle.open = "no" /\ Idle.days = {} /\ Idle.pc = "idle"
      BY IdleKeeps
    <3>2. today \in 0..MaxDay
      BY <1>0, BoundsAssumption DEF StorageTypeOK, Days
    <3>. QED BY <3>1, <3>2 DEF Keeping
  <2>. HIDE DEF k0
  <2>. QED BY <1>1, <2>1 DEF Keeping
<1>. HIDE DEF k
<1>5. keeper'[p] = k
  BY <1>0, <1>3 DEF StorageTypeOK
<1>6. UNCHANGED <<today, db, archive, tmp, backup, spoilt, history, cleaned>>
  BY DEF Begin
<1>7. KeeperOK(p)'
  <2>1. \A d \in Days : Old(d)' <=> Old(d)
    BY <1>6 DEF Old
  <2>. QED BY <1>1, <1>4, <1>5, <2>1 DEF KeeperOK
<1>8. cleaned' \in 0..MaxDay
  BY <1>0, <1>6 DEF StorageTypeOK
<1>. QED BY <1>0, <1>2, <1>3, <1>4, <1>6, <1>7, <1>8, QuietStep

LEMMA ReadRunStep ==
    ASSUME RetentionInv, NEW p \in Keepers, ReadRun(p)
    PROVE  RetentionInv'
<1>0. StorageTypeOK /\ keeper[p].pc = "run" /\ KeeperOK(p) /\ DatabaseOK(db)
  BY DEF RetentionInv, ReadRun, DatabasesOK
<1>1. Day(p) \in keeper[p].days /\ Day(p) \in Days
  BY <1>0, DayInHand
<1>2. keeper[p].open = "no" /\ keeper[p] \in Keeping /\ db.run[Day(p)] \in RunStates
  BY <1>0, <1>1 DEF KeeperOK, StorageTypeOK, Databases
<1>. DEFINE k == [keeper[p] EXCEPT !.pc = "rows", !.run = db.run[Day(p)]]
<1>3. keeper' = [keeper EXCEPT ![p] = k]
  BY DEF ReadRun
<1>4. k \in Keeping /\ k.open = "no" /\ k.pc = "rows" /\ k.days = keeper[p].days /\ k.run = db.run[Day(p)]
  BY <1>2 DEF Keeping
<1>. HIDE DEF k
<1>5. keeper'[p] = k
  BY <1>0, <1>3 DEF StorageTypeOK
<1>6. UNCHANGED <<today, db, archive, tmp, backup, spoilt, history, cleaned>>
  BY DEF ReadRun
<1>7. Day(p)' = Day(p)
  BY <1>4, <1>5 DEF Day
<1>8. KeeperOK(p)'
  <2>1. \A d \in Days : Old(d)' <=> Old(d)
    BY <1>6 DEF Old
  <2>2. keeper[p].days \subseteq Days
    BY <1>2 DEF Keeping
  <2>3. db.run[Day(p)] = "deleted" => RowsOf(Day(p))' = {}
    BY <1>0, <1>1, <1>6, <1>7 DEF DatabaseOK, RowsOf
  <2>. QED BY <1>0, <1>4, <1>5, <1>7, <2>1, <2>2, <2>3 DEF KeeperOK
<1>9. cleaned' \in 0..MaxDay
  BY <1>0, <1>6 DEF StorageTypeOK
<1>. QED BY <1>0, <1>2, <1>3, <1>4, <1>6, <1>8, <1>9, QuietStep

\* The process is at the end of its archive or of its cleanup, or gives up.
LEMMA RestStep ==
    ASSUME RetentionInv, NEW p \in Keepers, Loses(p) \/ ReadRuns(p)
    PROVE  RetentionInv'
<1>0. StorageTypeOK /\ KeeperOK(p) /\ keeper[p].pc \in {"replace", "runs"} /\ DatabaseOK(db)
  BY DEF RetentionInv, DatabasesOK, Loses, ReadRuns
<1>1. keeper[p].open = "no" /\ keeper[p] \in Keeping
  BY <1>0 DEF KeeperOK, StorageTypeOK
<1>2. Idle \in Keeping /\ Idle.pc = "idle" /\ Idle.days = {} /\ Idle.open = "no"
  BY IdleKeeps
<1>3. UNCHANGED <<today, db, archive, tmp, backup, spoilt, history>>
  BY DEF Loses, ReadRuns
<1>4. cleaned' \in 0..MaxDay
  BY <1>0, <1>1 DEF Loses, ReadRuns, EndCleanup, StorageTypeOK, Keeping
<1>5. CASE keeper' = [keeper EXCEPT ![p] = Idle]
  <2>1. keeper'[p] = Idle
    BY <1>0, <1>5 DEF StorageTypeOK
  <2>2. KeeperOK(p)'
    BY <1>2, <2>1, IdleOK
  <2>. QED BY <1>0, <1>1, <1>2, <1>3, <1>4, <1>5, <2>2, QuietStep
<1>6. CASE ~(keeper' = [keeper EXCEPT ![p] = Idle])
  <2>. DEFINE days == {d \in Days : db.run[d] = "pending"}
              k == [keeper[p] EXCEPT !.pc = "delete", !.days = days]
  <2>1. days # {} /\ keeper' = [keeper EXCEPT ![p] = k]
    BY <1>6 DEF Loses, ReadRuns, EndCleanup
  <2>2. k \in Keeping /\ k.open = "no" /\ k.pc = "delete" /\ k.days = days
    BY <1>1 DEF Keeping
  <2>. HIDE DEF k
  <2>3. keeper'[p] = k
    BY <1>0, <2>1 DEF StorageTypeOK
  <2>4. \A d \in days : d \in Days /\ archive'[d] # None /\ Old(d)'
    BY <1>0, <1>3 DEF DatabaseOK, RetentionInv, FileOK, Old
  <2>5. KeeperOK(p)'
    BY <2>1, <2>2, <2>3, <2>4 DEF KeeperOK
  <2>. QED BY <1>0, <1>1, <1>3, <1>4, <2>1, <2>2, <2>5, QuietStep
<1>. QED BY <1>5, <1>6

\* A process goes on to its next day, to its deletes, or ends.
LEMMA NextDayOK ==
    ASSUME StorageTypeOK, NEW p \in Keepers, KeeperOK(p), NextDay(p), keeper[p].open = "no", today' = today
    PROVE  /\ KeeperOK(p)'
           /\ \E k \in Keeping : keeper' = [keeper EXCEPT ![p] = k]
<1>. DEFINE days == keeper[p].days \ {Day(p)}
            k == IF days # {} THEN [keeper[p] EXCEPT !.pc = "run", !.days = days, !.rows = {}]
                 ELSE IF keeper[p].cleanup THEN [Idle EXCEPT !.pc = "runs", !.cleanup = TRUE, !.began = keeper[p].began]
                 ELSE Idle
<1>1. keeper' = [keeper EXCEPT ![p] = k]
  BY DEF NextDay
<1>2. keeper[p] \in Keeping /\ days \subseteq Days /\ \A d \in days : Old(d)
  BY DEF StorageTypeOK, Keeping, KeeperOK
<1>3. CASE days # {}
  <2>1. k = [keeper[p] EXCEPT !.pc = "run", !.days = days, !.rows = {}]
    BY <1>3
  <2>. HIDE DEF k, days
  <2>2. k \in Keeping /\ k.pc = "run" /\ k.days = days /\ k.open = "no"
    BY <1>2, <2>1 DEF Keeping
  <2>3. keeper'[p] = k
    BY <1>1 DEF StorageTypeOK
  <2>4. \A d \in days : Old(d)'
    BY <1>2 DEF Old
  <2>5. KeeperOK(p)'
    BY <1>3, <2>2, <2>3, <2>4 DEF KeeperOK
  <2>. QED BY <1>1, <2>2, <2>5
<1>4. CASE days = {}
  <2>1. k = IF keeper[p].cleanup THEN [Idle EXCEPT !.pc = "runs", !.cleanup = TRUE, !.began = keeper[p].began]
            ELSE Idle
    BY <1>4
  <2>. HIDE DEF k, days
  <2>2. k \in Keeping /\ k.pc \in {"idle", "runs"} /\ k.days = {} /\ k.open = "no"
    BY <1>2, <2>1, IdleKeeps DEF Keeping
  <2>3. keeper'[p] = k
    BY <1>1 DEF StorageTypeOK
  <2>4. KeeperOK(p)'
    BY <2>2, <2>3, IdleOK
  <2>. QED BY <1>1, <2>2, <2>4
<1>. QED BY <1>3, <1>4

\* The rows of the day that are to be kept are read with its rows, for the day has
\* no archive file; or its file is found.
LEMMA ReadRowsStep ==
    ASSUME RetentionInv, NEW p \in Keepers, ReadRows(p)
    PROVE  RetentionInv'
<1>0. StorageTypeOK /\ keeper[p].pc = "rows" /\ KeeperOK(p)
  BY DEF RetentionInv, ReadRows
<1>1. Day(p) \in keeper[p].days /\ Day(p) \in Days
  BY <1>0, DayInHand
<1>2. keeper[p].open = "no" /\ keeper[p] \in Keeping
  BY <1>0 DEF KeeperOK, StorageTypeOK
<1>3. UNCHANGED <<today, db, archive, cleaned, draft, bundles, restored, spoilt, written, left>>
  BY DEF ReadRows, backup, history
<1>4. RowsOf(Day(p)) \subseteq Rows /\ (archive[Day(p)] = None => Kept(Day(p)) \subseteq RowsOf(Day(p)))
  BY <1>0, <1>1 DEF RetentionInv, FileOK, RowsOf, Kept, StorageTypeOK, Databases
<1>5. \A d : Kept(d)' = Kept(d) /\ RowsOf(d)' = RowsOf(d) /\ (Old(d)' <=> Old(d))
  BY <1>3 DEF Kept, RowsOf, Old
<1>6. CASE NextDay(p) /\ UNCHANGED tmp
  <2>1. KeeperOK(p)' /\ \E k \in Keeping : keeper' = [keeper EXCEPT ![p] = k]
    BY <1>0, <1>2, <1>3, <1>6, NextDayOK
  <2>2. cleaned' \in 0..MaxDay
    BY <1>0, <1>3 DEF StorageTypeOK
  <2>. QED BY <1>0, <1>2, <1>3, <1>6, <2>1, <2>2, QuietStep DEF backup, history
<1>7. CASE archive[Day(p)] # None /\ UNCHANGED tmp
           /\ keeper' = [keeper EXCEPT ![p].pc = "note", ![p].rows = RowsOf(Day(p))]
  <2>. DEFINE k == [keeper[p] EXCEPT !.pc = "note", !.rows = RowsOf(Day(p))]
  <2>1. keeper' = [keeper EXCEPT ![p] = k]
    BY <1>7
  <2>2. k \in Keeping /\ k.pc = "note" /\ k.open = "no" /\ k.days = keeper[p].days /\ k.run = keeper[p].run
    BY <1>2, <1>4 DEF Keeping
  <2>. HIDE DEF k
  <2>3. keeper'[p] = k /\ Day(p)' = Day(p)
    BY <1>0, <2>1, <2>2 DEF StorageTypeOK, Day
  <2>4. KeeperOK(p)'
    BY <1>0, <1>3, <1>5, <1>7, <2>2, <2>3 DEF KeeperOK
  <2>5. cleaned' \in 0..MaxDay
    BY <1>0, <1>3 DEF StorageTypeOK
  <2>. QED BY <1>0, <1>2, <1>3, <1>7, <2>1, <2>2, <2>4, <2>5, QuietStep DEF backup, history
<1>8. CASE archive[Day(p)] = None /\ tmp' = [tmp EXCEPT ![Day(p)] = {}]
           /\ keeper' = [keeper EXCEPT ![p].pc = "write", ![p].rows = RowsOf(Day(p)), ![p].open = "tmp"]
  <2>. DEFINE k == [keeper[p] EXCEPT !.pc = "write", !.rows = RowsOf(Day(p)), !.open = "tmp"]
  <2>1. keeper' = [keeper EXCEPT ![p] = k]
    BY <1>8
  <2>2. k \in Keeping /\ k.pc = "write" /\ k.open = "tmp" /\ k.days = keeper[p].days /\ k.run = keeper[p].run
        /\ k.rows = RowsOf(Day(p))
    BY <1>2, <1>4 DEF Keeping
  <2>. HIDE DEF k
  <2>3. /\ keeper'[p] = k /\ Day(p)' = Day(p) /\ keeper' \in [Keepers -> Keeping]
        /\ \A q \in Keepers \ {p} : keeper'[q] = keeper[q]
    BY <1>0, <2>1, <2>2 DEF StorageTypeOK, Day
  <2>4. KeeperOK(p)'
    BY <1>0, <1>4, <1>5, <1>8, <2>2, <2>3 DEF KeeperOK
  <2>5. tmp' \in [Days -> {None} \cup SUBSET Rows]
    BY <1>0, <1>8 DEF StorageTypeOK
  <2>6. StorageTypeOK'
    BY <1>0, <1>3, <2>3, <2>5 DEF StorageTypeOK
  <2>7. \A q \in Keepers \ {p} : keeper[q].pc = "copy" => tmp'[Day(q)] # None
    <3>1. \A q \in Keepers : keeper[q].pc = "copy" => Day(q) \in Days /\ tmp[Day(q)] # None
      BY <1>0, DayInHand DEF RetentionInv, KeeperOK
    <3>. QED BY <1>0, <1>8, <3>1, NoneAssumption DEF StorageTypeOK
  <2>8. Harmless(p)
    BY <1>3, <2>3, <2>7 DEF Harmless, Others
  <2>9. \A d \in Days : FileOK(d)'
    <3>1. Spoils(p) = {}
      BY <1>0, <1>2 DEF Spoils
    <3>. QED BY <1>3, <2>8, <3>1, FilesStay
  <2>10. DatabaseOK(db)'
    BY <1>3 DEF RetentionInv, DatabasesOK, DatabaseOK
  <2>. QED BY <2>4, <2>6, <2>8, <2>9, <2>10, StepOf
<1>. QED BY <1>6, <1>7, <1>8 DEF ReadRows

\* All rows that p holds are in the file: the .tmp file, or the archive file that
\* it has become.
LEMMA WriteFileStep ==
    ASSUME RetentionInv, NEW p \in Keepers, WriteFile(p)
    PROVE  RetentionInv'
<1>0. StorageTypeOK /\ keeper[p].pc = "write" /\ KeeperOK(p)
  BY DEF RetentionInv, WriteFile
<1>1. Day(p) \in keeper[p].days /\ Day(p) \in Days
  BY <1>0, DayInHand
<1>2. keeper[p] \in Keeping /\ keeper[p].rows \subseteq Rows /\ Kept(Day(p)) \subseteq keeper[p].rows
  BY <1>0 DEF KeeperOK, StorageTypeOK, Keeping
<1>3. UNCHANGED <<today, db, cleaned, draft, bundles, restored, spoilt, written, left>>
  BY DEF WriteFile, backup, history
<1>5. \A d : Kept(d)' = Kept(d) /\ RowsOf(d)' = RowsOf(d) /\ (Old(d)' <=> Old(d))
  BY <1>3 DEF Kept, RowsOf, Old
<1>. DEFINE k == [keeper[p] EXCEPT !.pc = "replace", !.open = "no"]
<1>6. keeper' = [keeper EXCEPT ![p] = k]
  BY DEF WriteFile
<1>7. k \in Keeping /\ k.pc = "replace" /\ k.open = "no" /\ k.days = keeper[p].days /\ k.run = keeper[p].run
      /\ k.rows = keeper[p].rows
  BY <1>2 DEF Keeping
<1>. HIDE DEF k
<1>8. /\ keeper'[p] = k /\ Day(p)' = Day(p) /\ keeper' \in [Keepers -> Keeping]
      /\ \A q \in Keepers \ {p} : keeper'[q] = keeper[q]
  BY <1>0, <1>6, <1>7 DEF StorageTypeOK, Day
<1>9. KeeperOK(p)'
  BY <1>0, <1>2, <1>5, <1>7, <1>8 DEF KeeperOK
<1>10. tmp' = tmp \/ tmp' = [tmp EXCEPT ![Day(p)] = keeper[p].rows]
  BY DEF WriteFile
<1>11. \/ archive' = archive /\ keeper[p].open # "file"
       \/ archive' = [archive EXCEPT ![Day(p)] = keeper[p].rows] /\ keeper[p].open = "file"
  BY DEF WriteFile
<1>12. tmp' \in [Days -> {None} \cup SUBSET Rows] /\ archive' \in [Days -> {None} \cup SUBSET Rows]
  BY <1>0, <1>2, <1>10, <1>11 DEF StorageTypeOK
<1>13. StorageTypeOK'
  BY <1>0, <1>3, <1>8, <1>12 DEF StorageTypeOK
<1>14. \A q \in Keepers \ {p} : keeper[q].pc = "copy" => tmp'[Day(q)] # None
  <2>1. \A q \in Keepers : keeper[q].pc = "copy" => Day(q) \in Days /\ tmp[Day(q)] # None
    BY <1>0, DayInHand DEF RetentionInv, KeeperOK
  <2>. QED BY <1>0, <1>2, <1>10, <2>1, NoneAssumption DEF StorageTypeOK
<1>15. \A d \in Days : archive[d] # None => archive'[d] # None
  BY <1>0, <1>2, <1>11, NoneAssumption DEF StorageTypeOK
<1>16. Harmless(p)
  BY <1>3, <1>8, <1>14, <1>15 DEF Harmless, Others
<1>17. ASSUME NEW d \in Days PROVE FileOK(d)'
  <2>1. CASE archive' = archive /\ keeper[p].open # "file"
    <3>1. Spoils(p) = {}
      BY <1>0, <2>1 DEF Spoils
    <3>. QED BY <1>3, <1>16, <2>1, <3>1, FilesStay
  <2>2. CASE archive' = [archive EXCEPT ![Day(p)] = keeper[p].rows] /\ keeper[p].open = "file" /\ d # Day(p)
    <3>1. archive'[d] = archive[d] /\ d \notin Spoils(p)
      BY <1>0, <2>2 DEF StorageTypeOK, Spoils
    <3>. QED BY <1>3, <1>16, <3>1, FilesStay
  <2>3. CASE archive' = [archive EXCEPT ![Day(p)] = keeper[p].rows] /\ keeper[p].open = "file" /\ d = Day(p)
    <3>1. archive'[d] = keeper[p].rows /\ archive[d] # None
      BY <1>0, <1>1, <2>3 DEF StorageTypeOK, KeeperOK
    <3>2. Old(d)'
      BY <1>5, <3>1 DEF RetentionInv, FileOK
    <3>. QED BY <1>2, <1>5, <1>15, <2>3, <3>1, <3>2 DEF FileOK
  <2>. QED BY <1>11, <2>1, <2>2, <2>3
<1>18. DatabaseOK(db)'
  BY <1>3, <1>15 DEF RetentionInv, DatabasesOK, DatabaseOK
<1>. QED BY <1>9, <1>13, <1>16, <1>17, <1>18, StepOf

\* A step with the files of the day in hand.
LEMMA FileStep ==
    ASSUME RetentionInv, NEW p \in Keepers, keeper[p].pc \notin {"idle", "runs"}, Others(p),
           UNCHANGED <<today, db, draft, bundles, restored, written>>,
           keeper' \in [Keepers -> Keeping], cleaned' \in 0..MaxDay, left' \in Scope,
           tmp' \in [Days -> {None} \cup SUBSET Rows], archive' \in [Days -> {None} \cup SUBSET Rows],
           spoilt \subseteq spoilt', spoilt' \subseteq Days,
           \A e \in Days \ {Day(p)} : archive'[e] = archive[e],
           archive[Day(p)] # None => archive'[Day(p)] # None,
           \A q \in Keepers \ {p} : keeper[q].pc = "copy" => tmp'[Day(q)] # None,
           KeeperOK(p)', NEW hand \in Days, hand = Day(p), FileOK(hand)'
    PROVE  RetentionInv'
<1>1. StorageTypeOK /\ KeeperOK(p)
  BY DEF RetentionInv
<1>2. StorageTypeOK'
  BY <1>1 DEF StorageTypeOK
<1>3. \A d \in Days : archive[d] # None => archive'[d] # None
  OBVIOUS
<1>4. Harmless(p)
  BY <1>3 DEF Harmless
<1>5. ASSUME NEW d \in Days, d # Day(p) PROVE FileOK(d)'
  <2>1. d \notin Spoils(p)
    BY <1>5 DEF Spoils
  <2>2. archive'[d] = archive[d]
    BY <1>5
  <2>3. (archive[d] = None => db'.rows = db.rows) /\ (d \in spoilt => d \in spoilt')
    OBVIOUS
  <2>4. d \in Spoils(p) => d \in Spoils(p)' \cup spoilt'
    BY <2>1
  <2>. QED BY <1>4, <2>2, <2>3, <2>4, FilesStay
<1>6. DatabaseOK(db)'
  BY <1>3 DEF RetentionInv, DatabasesOK, DatabaseOK
<1>7. \A d \in Days : FileOK(d)'
  BY <1>5
<1>. QED BY <1>2, <1>4, <1>6, <1>7, StepOf

\* Where handles lead when the .tmp file of p's day goes.
LEMMA LeadShape ==
    ASSUME StorageTypeOK, NEW p \in Keepers, NEW to \in {"file", "gone"}, NEW k \in Keeping,
           keeper' = [Lead(p, to) EXCEPT ![p] = k]
    PROVE  /\ keeper' \in [Keepers -> Keeping] /\ keeper'[p] = k
           /\ \A q \in Keepers \ {p} :
                /\ keeper'[q].pc = keeper[q].pc /\ keeper'[q].days = keeper[q].days
                /\ keeper'[q].rows = keeper[q].rows /\ keeper'[q].run = keeper[q].run
                /\ keeper'[q].open = IF keeper[q].open = "tmp" /\ Day(q) = Day(p) THEN to ELSE keeper[q].open
<1>1. \A q \in Keepers : keeper[q] \in Keeping /\ [keeper[q] EXCEPT !.open = to] \in Keeping
  BY DEF StorageTypeOK, Keeping
<1>2. Lead(p, to) \in [Keepers -> Keeping]
  BY <1>1 DEF Lead
<1>3. keeper'[p] = k /\ keeper' \in [Keepers -> Keeping]
  BY <1>2
<1>4. ASSUME NEW q \in Keepers \ {p}
      PROVE  keeper'[q] = IF keeper[q].open = "tmp" /\ Day(q) = Day(p)
                          THEN [keeper[q] EXCEPT !.open = to] ELSE keeper[q]
  BY <1>2 DEF Lead
<1>5. ASSUME NEW q \in Keepers \ {p}
      PROVE  /\ keeper'[q].pc = keeper[q].pc /\ keeper'[q].days = keeper[q].days
             /\ keeper'[q].rows = keeper[q].rows /\ keeper'[q].run = keeper[q].run
             /\ keeper'[q].open = IF keeper[q].open = "tmp" /\ Day(q) = Day(p) THEN to ELSE keeper[q].open
  <2>1. keeper[q] \in Keeping
    BY <1>1
  <2>2. CASE keeper[q].open = "tmp" /\ Day(q) = Day(p)
    <3>1. keeper'[q] = [keeper[q] EXCEPT !.open = to]
      BY <1>4, <2>2
    <3>. QED BY <2>1, <2>2, <3>1 DEF Keeping
  <2>3. CASE ~(keeper[q].open = "tmp" /\ Day(q) = Day(p))
    <3>1. keeper'[q] = keeper[q]
      BY <1>4, <2>3
    <3>. QED BY <2>3, <3>1
  <2>. QED BY <2>2, <2>3
<1>. QED BY <1>3, <1>5

\* The .tmp files of other days stay, and that of a process that copies it.
LEMMA TmpStays ==
    ASSUME RetentionInv, NEW p \in Keepers, NEW q \in Keepers \ {p}, keeper[q].pc = "copy",
           UNCHANGED tmp \/ (~Held(p) /\ tmp' = [tmp EXCEPT ![Day(p)] = None])
    PROVE  tmp'[Day(q)] # None
<1>1. Day(q) \in Days /\ tmp[Day(q)] # None
  BY DayInHand DEF RetentionInv, KeeperOK
<1>2. CASE ~Held(p) /\ tmp' = [tmp EXCEPT ![Day(p)] = None]
  <2>1. Day(q) # Day(p)
    BY <1>2 DEF Held
  <2>. QED BY <1>1, <1>2, <2>1 DEF RetentionInv, StorageTypeOK
<1>. QED BY <1>1, <1>2

\* What is moved in place holds what p wrote; or it is still being written to by
\* the process that has emptied it, and that holds all the rows as well; or it is
\* taken for whole and is not.
LEMMA MoveStep ==
    ASSUME RetentionInv, NEW p \in Keepers, MoveInPlace(p)
    PROVE  RetentionInv'
<1>0. StorageTypeOK /\ keeper[p].pc = "replace" /\ KeeperOK(p) /\ ~Held(p) /\ tmp[Day(p)] # None
  BY DEF RetentionInv, MoveInPlace
<1>1. Day(p) \in keeper[p].days /\ Day(p) \in Days /\ Old(Day(p))
  BY <1>0, DayInHand
<1>2. keeper[p] \in Keeping /\ Kept(Day(p)) \subseteq keeper[p].rows /\ keeper[p].open = "no"
  BY <1>0 DEF KeeperOK, StorageTypeOK
<1>3. UNCHANGED <<today, db, cleaned, draft, bundles, restored, written, left>>
  BY DEF MoveInPlace, backup, history
<1>4. \A d : Kept(d)' = Kept(d) /\ RowsOf(d)' = RowsOf(d) /\ (Old(d)' <=> Old(d))
  BY <1>3 DEF Kept, RowsOf, Old
<1>. DEFINE k == [keeper[p] EXCEPT !.pc = "tidy"]
<1>5. Lead(p, "file") \in [Keepers -> Keeping] /\ Lead(p, "file")[p] = keeper[p]
  <2>1. \A q \in Keepers : keeper[q] \in Keeping /\ [keeper[q] EXCEPT !.open = "file"] \in Keeping
    BY <1>0 DEF StorageTypeOK, Keeping
  <2>. QED BY <2>1 DEF Lead
<1>6. keeper' = [Lead(p, "file") EXCEPT ![p] = k]
  BY <1>5 DEF MoveInPlace
<1>7. k \in Keeping /\ k.pc = "tidy" /\ k.open = "no" /\ k.days = keeper[p].days /\ k.run = keeper[p].run
      /\ k.rows = keeper[p].rows
  BY <1>2 DEF Keeping
<1>. HIDE DEF k
<1>8. /\ keeper' \in [Keepers -> Keeping] /\ keeper'[p] = k
      /\ \A q \in Keepers \ {p} :
           /\ keeper'[q].pc = keeper[q].pc /\ keeper'[q].days = keeper[q].days
           /\ keeper'[q].rows = keeper[q].rows /\ keeper'[q].run = keeper[q].run
           /\ keeper'[q].open = IF keeper[q].open = "tmp" /\ Day(q) = Day(p) THEN "file" ELSE keeper[q].open
  BY <1>0, <1>6, <1>7, LeadShape
<1>9. Day(p)' = Day(p) /\ \A q \in Keepers \ {p} : Day(q)' = Day(q)
  BY <1>7, <1>8 DEF Day
<1>10. /\ tmp' = [tmp EXCEPT ![Day(p)] = None] /\ archive' = [archive EXCEPT ![Day(p)] = tmp[Day(p)]]
       /\ archive'[Day(p)] = tmp[Day(p)]
  BY <1>0, <1>1 DEF MoveInPlace, StorageTypeOK
<1>11. tmp' \in [Days -> {None} \cup SUBSET Rows] /\ archive' \in [Days -> {None} \cup SUBSET Rows]
  <2>1. /\ tmp \in [Days -> {None} \cup SUBSET Rows] /\ archive \in [Days -> {None} \cup SUBSET Rows]
        /\ tmp[Day(p)] \in {None} \cup SUBSET Rows /\ None \in {None} \cup SUBSET Rows
    BY <1>0, <1>1 DEF StorageTypeOK
  <2>. QED BY <1>10, <2>1, PutOne
<1>12. KeeperOK(p)'
  BY <1>0, <1>4, <1>7, <1>8, <1>9, <1>10 DEF KeeperOK
<1>13. Others(p)
  BY <1>0, <1>8, <1>10 DEF Others
<1>14. \A q \in Keepers \ {p} : keeper[q].pc = "copy" => tmp'[Day(q)] # None
  BY <1>0, <1>10, TmpStays
<1>15. spoilt \subseteq spoilt' /\ spoilt' \subseteq Days
  BY <1>0, <1>1 DEF MoveInPlace, StorageTypeOK
<1>16. PICK hand \in Days : hand = Day(p)
  BY <1>1
<1>17. ASSUME hand \notin spoilt' PROVE Kept(hand) \subseteq archive'[hand] \/ \E q \in Keepers : hand \in Spoils(q)'
  <2>1. tmp[hand] = keeper[p].rows \/ Lead(p, "file") # keeper
    BY <1>0, <1>16, <1>17 DEF MoveInPlace
  <2>2. CASE Lead(p, "file") # keeper
    <3>1. PICK q \in Keepers \ {p} : keeper[q].open = "tmp" /\ Day(q) = Day(p)
      <4>1. SUFFICES ASSUME \A q \in Keepers : ~(q # p /\ keeper[q].open = "tmp" /\ Day(q) = Day(p)) PROVE FALSE
        OBVIOUS
      <4>2. Lead(p, "file") = [q \in Keepers |-> keeper[q]]
        BY <4>1 DEF Lead
      <4>. QED BY <1>0, <2>2, <4>2 DEF StorageTypeOK
    <3>2. keeper'[q].open = "file" /\ Day(q)' = hand
      BY <1>8, <1>9, <1>16, <3>1
    <3>. QED BY <3>2 DEF Spoils
  <2>3. CASE tmp[hand] = keeper[p].rows
    BY <1>2, <1>10, <1>16, <2>3
  <2>. QED BY <2>1, <2>2, <2>3
<1>18. FileOK(hand)'
  BY <1>0, <1>1, <1>4, <1>10, <1>16, <1>17 DEF FileOK
<1>. QED BY <1>0, <1>1, <1>3, <1>8, <1>10, <1>11, <1>12, <1>13, <1>14, <1>15, <1>16, <1>18, FileStep DEF StorageTypeOK

\* The copy empties the archive file while p holds its rows, and then fills it with
\* them, or spoils it.
LEMMA CopyStep ==
    ASSUME RetentionInv, NEW p \in Keepers, BeginCopy(p) \/ Copy(p)
    PROVE  RetentionInv'
<1>0. StorageTypeOK /\ keeper[p].pc \in {"replace", "copy"} /\ KeeperOK(p) /\ tmp[Day(p)] # None
  BY DEF RetentionInv, BeginCopy, Copy, Goto, KeeperOK
<1>1. Day(p) \in keeper[p].days /\ Day(p) \in Days /\ Old(Day(p))
  BY <1>0, DayInHand
<1>2. keeper[p] \in Keeping /\ Kept(Day(p)) \subseteq keeper[p].rows /\ keeper[p].open = "no"
  BY <1>0 DEF KeeperOK, StorageTypeOK
<1>3. UNCHANGED <<today, db, tmp, cleaned, draft, bundles, restored, written, left>>
  BY DEF BeginCopy, Copy, backup, history
<1>4. \A d : Kept(d)' = Kept(d) /\ RowsOf(d)' = RowsOf(d) /\ (Old(d)' <=> Old(d))
  BY <1>3 DEF Kept, RowsOf, Old
<1>5. PICK to \in {"copy", "tidy"}, file \in SUBSET Rows :
        /\ keeper' = [keeper EXCEPT ![p].pc = to]
        /\ archive' = [archive EXCEPT ![Day(p)] = file]
        /\ to = "tidy" => \/ file = keeper[p].rows /\ spoilt' = spoilt
                          \/ spoilt' = spoilt \cup {Day(p)}
        /\ to = "copy" => spoilt' = spoilt
  <2>1. tmp[Day(p)] \in SUBSET Rows
    BY <1>0, <1>1 DEF StorageTypeOK
  <2>2. CASE BeginCopy(p)
    <3>1. /\ keeper' = [keeper EXCEPT ![p].pc = "copy"]
          /\ archive' = [archive EXCEPT ![Day(p)] = {}] /\ spoilt' = spoilt
      BY <2>2 DEF BeginCopy, Goto
    <3>2. {} \in SUBSET Rows
      OBVIOUS
    <3>. QED BY <3>1, <3>2
  <2>3. CASE Copy(p)
    <3>1. /\ keeper' = [keeper EXCEPT ![p].pc = "tidy"]
          /\ archive' = [archive EXCEPT ![Day(p)] = tmp[Day(p)]]
          /\ \/ tmp[Day(p)] = keeper[p].rows /\ spoilt' = spoilt
             \/ spoilt' = spoilt \cup {Day(p)}
      BY <2>3 DEF Copy, Goto
    <3>. QED BY <2>1, <3>1
  <2>. QED BY <2>2, <2>3
<1>. DEFINE k == [keeper[p] EXCEPT !.pc = to]
<1>6. keeper' = [keeper EXCEPT ![p] = k]
  BY <1>5
<1>7. k \in Keeping /\ k.pc = to /\ k.open = "no" /\ k.days = keeper[p].days /\ k.run = keeper[p].run
      /\ k.rows = keeper[p].rows
  BY <1>2 DEF Keeping
<1>. HIDE DEF k
<1>8. /\ keeper'[p] = k /\ Day(p)' = Day(p) /\ keeper' \in [Keepers -> Keeping]
      /\ \A q \in Keepers \ {p} : keeper'[q] = keeper[q]
  BY <1>0, <1>6, <1>7 DEF StorageTypeOK, Day
<1>9. archive' \in [Days -> {None} \cup SUBSET Rows] /\ archive'[Day(p)] = file /\ file # None
  BY <1>0, <1>1, <1>5, NoneAssumption DEF StorageTypeOK
<1>10. KeeperOK(p)'
  BY <1>0, <1>2, <1>3, <1>4, <1>7, <1>8, <1>9 DEF KeeperOK
<1>11. Others(p)
  BY <1>8 DEF Others
<1>12. \A q \in Keepers \ {p} : keeper[q].pc = "copy" => tmp'[Day(q)] # None
  BY <1>3, TmpStays
<1>13. spoilt \subseteq spoilt' /\ spoilt' \subseteq Days
  BY <1>0, <1>1, <1>5 DEF StorageTypeOK
<1>14. PICK hand \in Days : hand = Day(p)
  BY <1>1
<1>15. to = "copy" => hand \in Spoils(p)'
  BY <1>7, <1>8, <1>14 DEF Spoils
<1>16. FileOK(hand)'
  BY <1>1, <1>2, <1>4, <1>5, <1>9, <1>14, <1>15 DEF FileOK
<1>17. \A e \in Days \ {Day(p)} : archive'[e] = archive[e]
  BY <1>0, <1>5 DEF StorageTypeOK
<1>. QED BY <1>0, <1>3, <1>8, <1>9, <1>10, <1>11, <1>12, <1>13, <1>14, <1>16, <1>17, FileStep DEF StorageTypeOK

\* The .tmp file goes, and with it what others have yet to write to it.
LEMMA TidyStep ==
    ASSUME RetentionInv, NEW p \in Keepers, Tidy(p)
    PROVE  RetentionInv'
<1>0. StorageTypeOK /\ keeper[p].pc = "tidy" /\ KeeperOK(p)
  BY DEF RetentionInv, Tidy
<1>1. Day(p) \in keeper[p].days /\ Day(p) \in Days /\ FileOK(Day(p)) /\ archive[Day(p)] # None
  BY <1>0, DayInHand DEF RetentionInv, KeeperOK
<1>2. keeper[p] \in Keeping /\ keeper[p].open = "no"
  BY <1>0 DEF KeeperOK, StorageTypeOK
<1>3. UNCHANGED <<today, db, archive, cleaned, draft, bundles, restored, spoilt, written, left>>
  BY DEF Tidy, backup, history
<1>4. \A d : Kept(d)' = Kept(d) /\ RowsOf(d)' = RowsOf(d) /\ (Old(d)' <=> Old(d))
  BY <1>3 DEF Kept, RowsOf, Old
<1>. DEFINE k == [keeper[p] EXCEPT !.pc = "note"]
<1>5. k \in Keeping /\ k.pc = "note" /\ k.open = "no" /\ k.days = keeper[p].days /\ k.run = keeper[p].run
      /\ k.rows = keeper[p].rows
  BY <1>2 DEF Keeping
<1>6. Lead(p, "gone") \in [Keepers -> Keeping] /\ Lead(p, "gone")[p] = keeper[p]
  <2>1. \A q \in Keepers : keeper[q] \in Keeping /\ [keeper[q] EXCEPT !.open = "gone"] \in Keeping
    BY <1>0 DEF StorageTypeOK, Keeping
  <2>. QED BY <2>1 DEF Lead
<1>7. /\ keeper' \in [Keepers -> Keeping] /\ keeper'[p] = k /\ Others(p)
      /\ UNCHANGED tmp \/ (~Held(p) /\ tmp' = [tmp EXCEPT ![Day(p)] = None])
  <2>1. CASE keeper' = [keeper EXCEPT ![p].pc = "note"] /\ UNCHANGED tmp
    <3>1. keeper' = [keeper EXCEPT ![p] = k]
      BY <2>1
    <3>. HIDE DEF k
    <3>2. keeper' \in [Keepers -> Keeping] /\ keeper'[p] = k /\ \A q \in Keepers \ {p} : keeper'[q] = keeper[q]
      BY <1>0, <1>5, <3>1 DEF StorageTypeOK
    <3>. QED BY <2>1, <3>2 DEF Others
  <2>2. CASE /\ ~Held(p) /\ tmp' = [tmp EXCEPT ![Day(p)] = None]
             /\ keeper' = [Lead(p, "gone") EXCEPT ![p].pc = "note"]
    <3>1. keeper' = [Lead(p, "gone") EXCEPT ![p] = k]
      BY <1>6, <2>2
    <3>. HIDE DEF k
    <3>. QED BY <1>0, <1>5, <2>2, <3>1, LeadShape DEF Others
  <2>. QED BY <2>1, <2>2 DEF Tidy
<1>. HIDE DEF k
<1>8. Day(p)' = Day(p)
  BY <1>5, <1>7 DEF Day
<1>9. tmp' \in [Days -> {None} \cup SUBSET Rows]
  BY <1>0, <1>7, PutOne DEF StorageTypeOK
<1>10. KeeperOK(p)'
  BY <1>0, <1>1, <1>3, <1>4, <1>5, <1>7, <1>8 DEF KeeperOK
<1>11. \A q \in Keepers \ {p} : keeper[q].pc = "copy" => tmp'[Day(q)] # None
  BY <1>7, TmpStays
<1>12. Harmless(p)
  BY <1>3, <1>7, <1>11 DEF Harmless
<1>13. PICK hand \in Days : hand = Day(p)
  BY <1>1
<1>14. FileOK(hand)'
  <2>1. Spoils(p) = {}
    BY <1>0, <1>2 DEF Spoils
  <2>. QED BY <1>3, <1>12, <2>1, FilesStay
<1>. QED BY <1>0, <1>3, <1>7, <1>9, <1>10, <1>11, <1>13, <1>14, FileStep DEF StorageTypeOK

\* A run is noted of a day that has its archive file, and as deleted only if its
\* rows were deleted.
LEMMA NoteStep ==
    ASSUME RetentionInv, NEW p \in Keepers, Note(p)
    PROVE  RetentionInv'
<1>0. StorageTypeOK /\ keeper[p].pc = "note" /\ KeeperOK(p) /\ DatabaseOK(db)
  BY DEF RetentionInv, Note, DatabasesOK
<1>1. Day(p) \in keeper[p].days /\ Day(p) \in Days /\ archive[Day(p)] # None
  BY <1>0, DayInHand DEF KeeperOK
<1>2. keeper[p] \in Keeping /\ keeper[p].open = "no"
  BY <1>0 DEF KeeperOK, StorageTypeOK
<1>3. UNCHANGED <<today, archive, tmp, cleaned, draft, bundles, restored, spoilt, written, left>>
  BY DEF Note, backup, history
<1>4. PICK status \in {"pending", "deleted"} :
        db' = [db EXCEPT !.run[Day(p)] = status] /\ (status = "deleted" => keeper[p].run = "deleted")
  BY <1>2 DEF Note, Keeping, RunStates
<1>5. /\ db \in Databases /\ db' \in Databases /\ db'.rows = db.rows
      /\ \A d \in Days : db'.run[d] = IF d = Day(p) THEN status ELSE db.run[d]
  <2>1. db \in Databases /\ [db.run EXCEPT ![Day(p)] = status] \in [Days -> RunStates]
    BY <1>0 DEF StorageTypeOK, Databases, RunStates
  <2>2. db' = [db EXCEPT !.run = [db.run EXCEPT ![Day(p)] = status]]
    BY <1>4
  <2>. QED BY <2>1, <2>2 DEF Databases
<1>6. KeeperOK(p)' /\ \E k \in Keeping : keeper' = [keeper EXCEPT ![p] = k]
  BY <1>0, <1>2, <1>3, NextDayOK DEF Note
<1>7. keeper' \in [Keepers -> Keeping] /\ \A q \in Keepers \ {p} : keeper'[q] = keeper[q]
  BY <1>0, <1>6 DEF StorageTypeOK
<1>8. StorageTypeOK'
  BY <1>0, <1>3, <1>5, <1>7 DEF StorageTypeOK
<1>9. \A q \in Keepers \ {p} : keeper[q].pc = "copy" => tmp'[Day(q)] # None
  BY <1>3, TmpStays
<1>10. Harmless(p)
  BY <1>3, <1>5, <1>7, <1>9 DEF Harmless, Others
<1>11. \A d \in Days : FileOK(d)'
  <2>1. Spoils(p) = {}
    BY <1>0, <1>2 DEF Spoils
  <2>. QED BY <1>3, <1>5, <1>10, <2>1, FilesStay
<1>12. DatabaseOK(db)'
  <2>1. ASSUME status = "deleted" PROVE \A r \in db.rows : r.day # Day(p)
    BY <1>0, <1>4, <2>1 DEF KeeperOK, RowsOf
  <2>. QED BY <1>0, <1>1, <1>3, <1>5, <2>1 DEF DatabaseOK
<1>. QED BY <1>6, <1>8, <1>10, <1>11, <1>12, StepOf

\* Rows are deleted of days that have an archive file.
LEMMA DeleteStep ==
    ASSUME RetentionInv, NEW p \in Keepers, Delete(p)
    PROVE  RetentionInv'
<1>0. StorageTypeOK /\ keeper[p].pc = "delete" /\ KeeperOK(p) /\ DatabaseOK(db)
  BY DEF RetentionInv, Delete, DatabasesOK
<1>1. Day(p) \in keeper[p].days /\ Day(p) \in Days /\ archive[Day(p)] # None
  BY <1>0, DayInHand DEF KeeperOK
<1>2. keeper[p] \in Keeping /\ keeper[p].open = "no"
  BY <1>0 DEF KeeperOK, StorageTypeOK
<1>3. UNCHANGED <<today, archive, tmp, draft, bundles, restored, spoilt, written, left>>
  BY DEF Delete, backup, history
<1>4. /\ db \in Databases /\ db' \in Databases /\ db'.rows = db.rows \ RowsOf(Day(p))
      /\ db'.run = [db.run EXCEPT ![Day(p)] = "deleted"]
      /\ \A d \in Days : db'.run[d] = IF d = Day(p) THEN "deleted" ELSE db.run[d]
  BY <1>0 DEF Delete, StorageTypeOK, Databases, RunStates
<1>5. cleaned' \in 0..MaxDay
  BY <1>0, <1>2 DEF Delete, EndCleanup, StorageTypeOK, Keeping
<1>. DEFINE days == keeper[p].days \ {Day(p)}
<1>6. PICK k \in Keeping :
        /\ keeper' = [keeper EXCEPT ![p] = k] /\ k.open = "no"
        /\ \/ k.pc = "idle" /\ k.days = {}
           \/ k.pc = "delete" /\ k.days = days /\ days # {}
  <2>1. CASE days = {}
    <3>1. keeper' = [keeper EXCEPT ![p] = Idle]
      BY <2>1 DEF Delete, EndCleanup
    <3>. QED BY <3>1, IdleKeeps
  <2>2. CASE days # {}
    <3>1. keeper' = [keeper EXCEPT ![p] = [keeper[p] EXCEPT !.days = days]]
      BY <2>2 DEF Delete
    <3>2. days \subseteq Days
      BY <1>2 DEF Keeping
    <3>. HIDE DEF days
    <3>3. [keeper[p] EXCEPT !.days = days] \in Keeping
      BY <1>2, <3>2 DEF Keeping
    <3>. QED BY <1>0, <1>2, <2>2, <3>1, <3>3 DEF Keeping
  <2>. QED BY <2>1, <2>2
<1>7. /\ keeper' \in [Keepers -> Keeping] /\ keeper'[p] = k
      /\ \A q \in Keepers \ {p} : keeper'[q] = keeper[q]
  BY <1>0, <1>6 DEF StorageTypeOK
<1>8. StorageTypeOK'
  BY <1>0, <1>3, <1>4, <1>5, <1>7 DEF StorageTypeOK
<1>9. KeeperOK(p)'
  <2>1. \A d \in days : Old(d)' /\ archive'[d] # None
    BY <1>0, <1>3 DEF KeeperOK, Old
  <2>. HIDE DEF days
  <2>. QED BY <1>6, <1>7, <2>1 DEF KeeperOK
<1>10. \A q \in Keepers \ {p} : keeper[q].pc = "copy" => tmp'[Day(q)] # None
  BY <1>3, TmpStays
<1>11. Harmless(p)
  BY <1>3, <1>4, <1>7, <1>10 DEF Harmless, Others
<1>12. ASSUME NEW d \in Days PROVE FileOK(d)'
  <2>1. CASE archive[d] # None
    <3>1. Spoils(p) = {}
      BY <1>0, <1>2 DEF Spoils
    <3>. QED BY <1>3, <1>11, <2>1, <3>1, FilesStay
  <2>2. CASE archive[d] = None
    <3>1. Kept(d) \subseteq db.rows /\ d # Day(p)
      BY <1>1, <2>2 DEF RetentionInv, FileOK
    <3>2. Kept(d)' \subseteq db'.rows
      BY <1>3, <1>4, <3>1 DEF Kept, RowsOf
    <3>. QED BY <1>3, <2>2, <3>2 DEF FileOK
  <2>. QED BY <2>1, <2>2
<1>13. DatabaseOK(db)'
  BY <1>0, <1>1, <1>3, <1>4 DEF DatabaseOK, RowsOf
<1>. QED BY <1>8, <1>9, <1>11, <1>12, <1>13, StepOf

\* What a process was writing in place when it is cut off is spoilt.
LEMMA CutStep ==
    ASSUME RetentionInv, NEW p \in Keepers, Cut(p)
    PROVE  RetentionInv'
<1>0. StorageTypeOK /\ keeper[p].pc # "idle" /\ KeeperOK(p)
  BY DEF RetentionInv, Cut
<1>1. UNCHANGED <<today, db, archive, draft, bundles, restored, written>> /\ spoilt' = spoilt \cup Spoils(p)
  BY DEF Cut, backup
<1>2. keeper' \in [Keepers -> Keeping] /\ keeper'[p] = Idle /\ Others(p)
  <2>1. CASE keeper' = [keeper EXCEPT ![p] = Idle]
    <3>1. keeper' \in [Keepers -> Keeping] /\ keeper'[p] = Idle /\ \A q \in Keepers \ {p} : keeper'[q] = keeper[q]
      BY <1>0, <2>1, IdleKeeps DEF StorageTypeOK
    <3>. QED BY <3>1 DEF Others
  <2>2. CASE keeper' = [Lead(p, "gone") EXCEPT ![p] = Idle]
    BY <1>0, <2>2, IdleKeeps, LeadShape DEF Others
  <2>. QED BY <2>1, <2>2 DEF Cut
<1>3. UNCHANGED tmp \/ (~Held(p) /\ tmp' = [tmp EXCEPT ![Day(p)] = None])
  BY DEF Cut
<1>4. tmp' \in [Days -> {None} \cup SUBSET Rows]
  BY <1>0, <1>3, PutOne DEF StorageTypeOK
<1>5. cleaned' \in 0..MaxDay
  BY <1>0, BoundsAssumption DEF Cut, StorageTypeOK
<1>6. left' \in Scope
  <2>1. left \in Scope /\ left.cuts - 1 \in Nat /\ left' = [left EXCEPT !.cuts = left.cuts - 1]
    BY <1>0 DEF Cut, StorageTypeOK, Scope
  <2>. QED BY <2>1 DEF Scope
<1>7. spoilt' \subseteq Days
  <2>1. keeper[p].pc = "copy" \/ keeper[p].open = "file" => Day(p) \in Days
    BY <1>0, DayInHand DEF KeeperOK
  <2>. QED BY <1>0, <1>1, <2>1 DEF Spoils, StorageTypeOK
<1>8. StorageTypeOK'
  BY <1>0, <1>1, <1>2, <1>4, <1>5, <1>6, <1>7 DEF StorageTypeOK
<1>9. KeeperOK(p)'
  BY <1>2, IdleKeeps, IdleOK
<1>10. \A q \in Keepers \ {p} : keeper[q].pc = "copy" => tmp'[Day(q)] # None
  BY <1>3, TmpStays
<1>11. Harmless(p)
  BY <1>1, <1>2, <1>10 DEF Harmless
<1>12. \A d \in Days : FileOK(d)'
  BY <1>1, <1>11, FilesStay
<1>13. DatabaseOK(db)'
  BY <1>1 DEF RetentionInv, DatabasesOK, DatabaseOK
<1>. QED BY <1>8, <1>9, <1>11, <1>12, <1>13, StepOf

-----------------------------------------------------------------------------
(* The days, the rows, and the copies of the database.                     *)

\* Where the processes, the files and the copies of the database are left alone,
\* and what is to be kept of the days that are over does not grow.
LEMMA KeepersStay ==
    ASSUME RetentionInv, UNCHANGED <<keeper, archive, tmp>>, today' \in Nat, today <= today',
           \A d \in Days : Old(d) => Kept(d)' \subseteq Kept(d) /\ RowsOf(d)' \subseteq RowsOf(d)
    PROVE  \A p \in Keepers : KeeperOK(p)'
<1>. SUFFICES ASSUME NEW p \in Keepers PROVE KeeperOK(p)'
  OBVIOUS
<1>1. StorageTypeOK /\ KeeperOK(p)
  BY DEF RetentionInv
<1>2. keeper[p].pc \notin {"idle", "runs"} => Day(p) \in Days /\ Old(Day(p))
  BY <1>1, DayInHand
<1>3. Day(p)' = Day(p)
  BY DEF Day
<1>4. today \in Nat /\ \A d \in keeper[p].days : d \in Nat /\ d \in Days
  BY <1>1 DEF StorageTypeOK, Keeping, Days
<1>5. \A d \in keeper[p].days : Old(d)'
  BY <1>1, <1>4, OldStays DEF KeeperOK
<1>. QED BY <1>1, <1>2, <1>3, <1>5 DEF KeeperOK

LEMMA MidnightStep ==
    ASSUME RetentionInv, Midnight
    PROVE  RetentionInv'
<1>1. StorageTypeOK /\ left.days \in Days
  BY DEF RetentionInv, StorageTypeOK, Scope, Days
<1>2. today' = today + 1 /\ today < left.days
      /\ UNCHANGED <<db, archive, tmp, keeper, cleaned, draft, bundles, restored, spoilt, written, left>>
  BY DEF Midnight, backup, history
<1>3. today \in Nat /\ today' \in Days /\ today' \in Nat /\ today <= today'
  BY <1>1, <1>2, BoundsAssumption DEF StorageTypeOK, Days
<1>4. StorageTypeOK'
  BY <1>1, <1>2, <1>3 DEF StorageTypeOK
<1>5. \A d : Kept(d)' = Kept(d) /\ RowsOf(d)' = RowsOf(d)
  BY <1>2 DEF Kept, RowsOf
<1>6. \A p \in Keepers : KeeperOK(p)'
  BY <1>2, <1>3, <1>5, KeepersStay
<1>7. ASSUME NEW d \in Days PROVE FileOK(d)'
  <2>1. Old(d) => Old(d)'
    BY <1>3, OldStays DEF Days
  <2>2. \A q \in Keepers : Spoils(q)' = Spoils(q)
    BY <1>2 DEF Spoils, Day
  <2>3. FileOK(d)
    BY DEF RetentionInv
  <2>. QED BY <1>2, <1>5, <2>1, <2>2, <2>3 DEF FileOK
<1>8. DatabasesOK'
  BY <1>2 DEF RetentionInv, DatabasesOK, DatabaseOK
<1>. QED BY <1>2, <1>4, <1>6, <1>7, <1>8 DEF RetentionInv

\* A row is written on a day that is not over, and so has neither a file nor a run.
LEMMA WriteStep ==
    ASSUME RetentionInv, Write
    PROVE  RetentionInv'
<1>1. StorageTypeOK /\ IsFiniteSet(written) /\ today \in Days /\ ~Old(today) /\ archive[today] = None
  <2>1. StorageTypeOK /\ today \in Days /\ IsFiniteSet(written) /\ today \in Nat
    BY DEF RetentionInv, StorageTypeOK, Days
  <2>2. ~Old(today)
    BY <2>1, WindowsAssumption DEF Old
  <2>. QED BY <2>1, <2>2 DEF RetentionInv, FileOK
<1>. DEFINE r == [day |-> today, no |-> Cardinality(written) + 1]
<1>2. r \in Rows /\ r.day = today
  <2>1. Cardinality(written) \in Nat /\ Cardinality(written) < left.rows /\ left.rows \in 0..MaxRows
    BY <1>1, FS_CardinalityType DEF Write, StorageTypeOK, Scope
  <2>2. Cardinality(written) + 1 \in 1..MaxRows
    BY <2>1, BoundsAssumption
  <2>. QED BY <1>1, <2>2 DEF Rows
<1>3. /\ written' = written \cup {r} /\ db' = [db EXCEPT !.rows = @ \cup {r}]
      /\ UNCHANGED <<today, archive, tmp, keeper, cleaned, draft, bundles, restored, spoilt, left>>
  BY DEF Write, backup
<1>. HIDE DEF r
<1>4. /\ db \in Databases /\ db' \in Databases /\ db'.rows = db.rows \cup {r} /\ db'.run = db.run
  BY <1>1, <1>2, <1>3 DEF StorageTypeOK, Databases
<1>5. StorageTypeOK' /\ IsFiniteSet(written')
  <2>1. IsFiniteSet(written')
    BY <1>1, <1>3, FS_AddElement
  <2>. QED BY <1>1, <1>2, <1>3, <1>4, <2>1 DEF StorageTypeOK
<1>6. \A d : d # today => Kept(d)' = Kept(d) /\ RowsOf(d)' = RowsOf(d)
  BY <1>2, <1>3, <1>4 DEF Kept, RowsOf
<1>7. \A p \in Keepers : KeeperOK(p)'
  <2>1. today' \in Nat /\ today <= today'
    BY <1>1, <1>3 DEF Days
  <2>. QED BY <1>1, <1>3, <1>6, <2>1, KeepersStay
<1>8. ASSUME NEW d \in Days PROVE FileOK(d)'
  <2>1. \A q \in Keepers : Spoils(q)' = Spoils(q)
    BY <1>3 DEF Spoils, Day
  <2>2. FileOK(d) /\ (Old(d)' <=> Old(d))
    BY <1>3 DEF RetentionInv, Old
  <2>3. CASE d # today
    BY <1>3, <1>4, <1>6, <2>1, <2>2, <2>3 DEF FileOK
  <2>4. CASE d = today
    <3>1. Kept(d)' \subseteq db'.rows
      BY <1>1, <1>3, <1>4, <2>2, <2>4 DEF FileOK, Kept
    <3>. QED BY <1>1, <1>3, <2>4, <3>1 DEF FileOK
  <2>. QED BY <2>3, <2>4
<1>9. DatabasesOK'
  <2>1. DatabaseOK(db)'
    BY <1>1, <1>2, <1>3, <1>4 DEF RetentionInv, DatabasesOK, DatabaseOK
  <2>. QED BY <1>3, <2>1 DEF RetentionInv, DatabasesOK, DatabaseOK
<1>. QED BY <1>5, <1>7, <1>8, <1>9 DEF RetentionInv

LEMMA BackupStep ==
    ASSUME RetentionInv, Snapshot \/ Publish
    PROVE  RetentionInv'
<1>1. StorageTypeOK /\ DatabasesOK
  BY DEF RetentionInv
<1>2. UNCHANGED <<today, db, archive, tmp, keeper, cleaned, restored, spoilt, written>>
  BY DEF Snapshot, Publish, history
<1>3. /\ draft' \in {None, db} /\ left' \in Scope
      /\ \A b \in bundles' : b \in bundles \/ (draft # None /\ b = [db |-> draft, day |-> today])
  <2>1. CASE Snapshot
    <3>1. left \in Scope /\ left.backups - 1 \in Nat /\ left' = [left EXCEPT !.backups = left.backups - 1]
      BY <1>1, <2>1 DEF Snapshot, StorageTypeOK, Scope
    <3>2. left' \in Scope
      BY <3>1 DEF Scope
    <3>. QED BY <2>1, <3>2 DEF Snapshot
  <2>2. CASE Publish
    BY <1>1, <2>2 DEF Publish, history, StorageTypeOK
  <2>. QED BY <2>1, <2>2
<1>4. StorageTypeOK'
  <2>1. draft # None => [db |-> draft, day |-> today] \in Bundle
    BY <1>1 DEF StorageTypeOK, Bundle
  <2>. QED BY <1>1, <1>2, <1>3, <2>1 DEF StorageTypeOK
<1>5. \A d : Kept(d)' = Kept(d) /\ RowsOf(d)' = RowsOf(d) /\ (Old(d)' <=> Old(d))
  BY <1>2 DEF Kept, RowsOf, Old
<1>6. \A p \in Keepers : KeeperOK(p)'
  <2>1. today' \in Nat /\ today <= today'
    BY <1>1, <1>2 DEF StorageTypeOK, Days
  <2>. QED BY <1>2, <1>5, <2>1, KeepersStay
<1>7. \A d \in Days : FileOK(d)'
  BY <1>2, <1>5 DEF RetentionInv, FileOK, Spoils, Day
<1>8. DatabasesOK'
  <2>1. \A D : DatabaseOK(D)' <=> DatabaseOK(D)
    BY <1>2 DEF DatabaseOK
  <2>2. draft' # None => DatabaseOK(draft')
    BY <1>1, <1>3 DEF DatabasesOK
  <2>3. ASSUME NEW b \in bundles' PROVE DatabaseOK(b.db)
    BY <1>1, <1>3 DEF DatabasesOK
  <2>. QED BY <1>1, <1>2, <2>2, <2>3 DEF DatabasesOK, DatabaseOK
<1>. QED BY <1>2, <1>4, <1>6, <1>7, <1>8 DEF RetentionInv

\* What a restore replaces is not to be kept any more, and what it puts back knows
\* only days that still have their files.
LEMMA RestoreStep ==
    ASSUME RetentionInv, NEW b \in bundles, Restore(b)
    PROVE  RetentionInv'
<1>1. StorageTypeOK /\ DatabasesOK /\ b \in Bundle /\ b.db \in Databases
  BY DEF RetentionInv, StorageTypeOK, Bundle
<1>2. /\ db' = b.db /\ restored' = restored \cup (db.rows \ b.db.rows)
      /\ keeper' = [p \in Keepers |-> Idle] /\ spoilt' = spoilt \cup UNION {Spoils(p) : p \in Keepers}
      /\ cleaned' = 0 /\ draft' = None
      /\ UNCHANGED <<today, archive, tmp, bundles, written>>
  BY DEF Restore
<1>3. left' \in Scope
  <2>1. left \in Scope /\ left.restores - 1 \in Nat /\ left' = [left EXCEPT !.restores = left.restores - 1]
    BY <1>1 DEF Restore, StorageTypeOK, Scope
  <2>. QED BY <2>1 DEF Scope
<1>4. \A p \in Keepers : KeeperOK(p)'
  BY <1>2, IdleKeeps, IdleOK
<1>5. spoilt' \subseteq Days
  <2>1. ASSUME NEW p \in Keepers PROVE Spoils(p) \subseteq Days
    <3>1. KeeperOK(p)
      BY DEF RetentionInv
    <3>2. keeper[p].pc = "copy" \/ keeper[p].open = "file" => Day(p) \in Days
      BY <1>1, <3>1, DayInHand DEF KeeperOK
    <3>. QED BY <3>2 DEF Spoils
  <2>. QED BY <1>1, <1>2, <2>1 DEF StorageTypeOK
<1>6. StorageTypeOK'
  <2>1. keeper' \in [Keepers -> Keeping]
    BY <1>2, IdleKeeps
  <2>2. restored' \subseteq Rows /\ cleaned' \in 0..MaxDay
    BY <1>1, <1>2, BoundsAssumption DEF StorageTypeOK, Databases
  <2>. QED BY <1>1, <1>2, <1>3, <1>5, <2>1, <2>2 DEF StorageTypeOK
<1>7. ASSUME NEW d \in Days PROVE FileOK(d)'
  <2>1. FileOK(d) /\ (Old(d)' <=> Old(d)) /\ Kept(d)' \subseteq Kept(d)
    BY <1>2 DEF RetentionInv, Old, Kept
  <2>2. archive[d] = None => Kept(d)' \subseteq db'.rows
    BY <1>2, <2>1 DEF FileOK, Kept
  <2>3. ASSUME NEW p \in Keepers, d \in Spoils(p) PROVE d \in spoilt'
    BY <1>2, <2>3
  <2>. QED BY <1>2, <2>1, <2>2, <2>3 DEF FileOK
<1>8. DatabasesOK'
  BY <1>1, <1>2 DEF DatabasesOK, DatabaseOK
<1>. QED BY <1>2, <1>4, <1>6, <1>7, <1>8 DEF RetentionInv

-----------------------------------------------------------------------------
(* The theorems.                                                           *)

LEMMA StorageStarts == StorageInit => RetentionInv
<1>. SUFFICES ASSUME StorageInit PROVE RetentionInv
  OBVIOUS
<1>1. /\ today = 1 /\ db = [rows |-> {}, run |-> [d \in Days |-> "none"]] /\ archive = [d \in Days |-> None]
      /\ tmp = [d \in Days |-> None] /\ keeper = [p \in Keepers |-> Idle] /\ cleaned = 0 /\ draft = None
      /\ bundles = {} /\ written = {} /\ restored = {} /\ spoilt = {} /\ left \in Scope
  BY BoundsAssumption DEF StorageInit
<1>2. db \in Databases /\ DatabaseOK(db)
  BY <1>1 DEF Databases, RunStates, DatabaseOK
<1>3. StorageTypeOK
  BY <1>1, <1>2, BoundsAssumption, IdleKeeps DEF StorageTypeOK, Days
<1>4. \A d \in Days : FileOK(d)
  BY <1>1 DEF FileOK, Kept
<1>5. \A p \in Keepers : KeeperOK(p)
  BY <1>1, IdleKeeps DEF KeeperOK
<1>6. IsFiniteSet(written)
  BY <1>1, FS_EmptySet
<1>. QED BY <1>1, <1>2, <1>3, <1>4, <1>5, <1>6 DEF RetentionInv, DatabasesOK

LEMMA StorageStep == RetentionInv /\ [StorageNext]_storage => RetentionInv'
<1>. SUFFICES ASSUME RetentionInv, [StorageNext]_storage PROVE RetentionInv'
  OBVIOUS
<1>1. CASE UNCHANGED storage
  BY <1>1 DEF storage, RetentionInv, StorageTypeOK, FileOK, KeeperOK, DatabasesOK, DatabaseOK, Kept, Old, Spoils, Day, RowsOf
<1>2. CASE Midnight
  BY <1>2, MidnightStep
<1>3. CASE Write
  BY <1>3, WriteStep
<1>4. CASE \E p \in left.keepers, cleanup \in BOOLEAN, hot \in left.windows : (p = Engine => cleanup) /\ Begin(p, cleanup, hot)
  <2>1. left.keepers \subseteq Keepers /\ left.windows \subseteq Windows
    BY DEF RetentionInv, StorageTypeOK, Scope
  <2>. QED BY <1>4, <2>1, BeginStep
<1>5. CASE \E p \in Keepers : Keep(p) \/ Cut(p)
  <2>1. PICK p \in Keepers : Keep(p) \/ Cut(p)
    BY <1>5
  <2>. QED BY <2>1, ReadRunStep, ReadRowsStep, WriteFileStep, MoveStep, CopyStep, TidyStep, NoteStep, RestStep,
              DeleteStep, CutStep DEF Keep
<1>6. CASE Snapshot \/ Publish
  BY <1>6, BackupStep
<1>7. CASE \E b \in bundles : Restore(b)
  BY <1>7, RestoreStep
<1>. QED BY <1>1, <1>2, <1>3, <1>4, <1>5, <1>6, <1>7 DEF StorageNext

LEMMA StorageInvariance == StorageSpec => []RetentionInv
  BY StorageStarts, StorageStep, PTL DEF StorageSpec

\* The types of retention, backup and restore.
THEOREM RetentionTypeCorrect == StorageSpec => []StorageTypeOK
<1>1. RetentionInv => StorageTypeOK
  BY DEF RetentionInv
<1>. QED BY <1>1, StorageInvariance, PTL

\* NothingLost, however many processes archive and delete at once, and wherever
\* they are cut off: a row that was written, and not replaced by a restore, is in
\* the database, in its archive file or about to be written there, but for the
\* days whose file was cut off while it was written in place.
THEOREM RowsKept == StorageSpec => []NothingLost
<1>1. RetentionInv => NothingLost
  <2>. SUFFICES ASSUME RetentionInv, NEW r \in written \ restored, r.day \notin spoilt, r \notin db.rows, ~Archived(r)
                PROVE  InHand(r)
    BY DEF NothingLost
  <2>. DEFINE d == r.day
  <2>1. d \in Days /\ FileOK(d) /\ r \in Kept(d) /\ StorageTypeOK
    BY DEF RetentionInv, StorageTypeOK, Rows, Kept
  <2>2. PICK p \in Keepers : d \in Spoils(p)
    BY <2>1 DEF FileOK, Archived
  <2>3. d = Day(p) /\ keeper[p].pc \in {"write", "copy"} /\ KeeperOK(p)
    BY <2>2 DEF Spoils, RetentionInv, KeeperOK
  <2>4. r \in keeper[p].rows
    BY <2>1, <2>3 DEF KeeperOK
  <2>. QED BY <2>2, <2>4 DEF InHand
<1>. QED BY <1>1, StorageInvariance, PTL

\* DeletedIsEmpty: a day that counts as deleted has no rows, also after a restore.
THEOREM DeletedStaysEmpty == StorageSpec => []DeletedIsEmpty
<1>1. RetentionInv => DeletedIsEmpty
  BY DEF RetentionInv, DatabasesOK, DatabaseOK, DeletedIsEmpty, RowsOf
<1>. QED BY <1>1, StorageInvariance, PTL

\* RecentRowsKept: only days that are over for some window lose rows.
THEOREM RecentRowsStay == StorageSpec => RecentRowsKept
<1>1. ASSUME RetentionInv, StorageNext, NEW r \in db.rows \ db'.rows, left'.restores = left.restores
      PROVE  \E hot \in Windows : r.day + hot < today
  <2>1. CASE \E p \in Keepers : Delete(p)
    <3>1. PICK p \in Keepers : Delete(p)
      BY <2>1
    <3>2. Old(Day(p))
      BY <1>1, <3>1, DayInHand DEF RetentionInv, Delete
    <3>3. r.day = Day(p)
      BY <3>1 DEF Delete, RowsOf
    <3>. QED BY <3>2, <3>3 DEF Old
  <2>2. CASE \E b \in bundles : Restore(b)
    <3>1. left \in Scope /\ left.restores \in Nat
      BY <1>1 DEF RetentionInv, StorageTypeOK, Scope
    <3>2. left' = [left EXCEPT !.restores = left.restores - 1]
      BY <2>2 DEF Restore
    <3>3. left'.restores = left.restores - 1
      BY <3>1, <3>2 DEF Scope
    <3>. QED BY <1>1, <3>1, <3>3
  <2>3. CASE ~(\E p \in Keepers : Delete(p)) /\ ~(\E b \in bundles : Restore(b))
    <3>1. db'.rows = db.rows \/ db'.rows = db.rows \cup {[day |-> today, no |-> Cardinality(written) + 1]}
      <4>1. db \in Databases
        BY <1>1 DEF RetentionInv, StorageTypeOK
      <4>2. CASE Write
        BY <4>1, <4>2 DEF Write, Databases
      <4>3. CASE \E p \in Keepers : Note(p)
        BY <4>1, <4>3 DEF Note, Databases
      <4>4. CASE ~Write /\ ~\E p \in Keepers : Note(p)
        <5>1. UNCHANGED db
          BY <1>1, <2>3, <4>4 DEF StorageNext, Keep, Midnight, Begin, ReadRun, ReadRows, WriteFile, MoveInPlace,
               BeginCopy, Copy, Tidy, ReadRuns, Loses, Cut, Snapshot, Publish
        <5>. QED BY <5>1
      <4>. QED BY <4>2, <4>3, <4>4
    <3>. QED BY <1>1, <3>1
  <2>. QED BY <2>1, <2>2, <2>3
<1>2. RetentionInv /\ [StorageNext]_storage =>
        [\A r \in db.rows \ db'.rows :
            (\E hot \in Windows : r.day + hot < today) \/ left'.restores # left.restores]_storage
  BY <1>1
<1>. QED BY <1>2, StorageInvariance, PTL DEF StorageSpec, RecentRowsKept

=============================================================================
