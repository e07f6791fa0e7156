--------------------------- MODULE SchemaMigration ---------------------------
(***************************************************************************)
(* Opening a results database for a run: versioning.ensure_schema with the *)
(* runner's _setup_or_migrate, statement by statement, on the databases    *)
(* earlier versions left, stopped anywhere and opened again; and the two   *)
(* readers, which take no lock and may read between any two statements.    *)
(*                                                                         *)
(* `disk` is what is committed.  SQLite commits a statement that changes   *)
(* the schema at once unless a transaction is open; Python opens one       *)
(* before a statement that changes rows, and BEGIN opens one too.  `tx` is *)
(* the connection's view while it has one.                                 *)
(***************************************************************************)
EXTENDS Integers, FiniteSets, Sequences, Functions

CONSTANTS
  Rows,           \* the rows `results` may hold
  Cells, Cell,    \* cell ids, and the cell_id of each row
  Times,          \* readings of the wall clock
  MaxArchive,     \* bound: archived rows
  MaxStops,       \* bound: openings that are killed or fail
  NULL, Unreadable, NoTx

Version == 5      \* SCHEMA_VERSION

ASSUME RowsAssumption == Cell \in [Rows -> Cells]
ASSUME TimesAssumption == Times \subseteq Int
ASSUME BoundsAssumption == MaxArchive \in Nat /\ MaxStops \in Nat
ASSUME NullAssumption ==
  NULL \notin Int /\ Unreadable \notin Int \cup {NULL}
ASSUME NameAssumption == NULL \notin {"", "legacy"}

VARIABLES
  disk,           \* the committed database
  tx,             \* the opening connection's uncommitted one
  pc, sv,         \* where the opening stands, and the version it read
  stops,          \* openings that ended early
  found,          \* history: the database this opening found
  origin,         \* history: the database before any opening
  reader          \* one reading of the report or of the archive

vars == <<disk, tx, pc, sv, stops, found, origin, reader>>

\* Those of `results_superseded`; a table that is not there has none.
OldColumns == {"row"}
Columns == OldColumns \cup {"displaced_by", "seq"}
Row == [experiment : {NULL, "", "legacy"}, fingerprint : BOOLEAN]
Archived == [at : Times, seq : Nat \cup {NULL}]
Tables == UNION {[some -> Row] : some \in SUBSET Rows}

\* aside is `results_v1`, which exists inside the widening transaction only.  A
\* lookalike is another program's `results` that has a fingerprint column.
Databases ==
  [results : {"none", "legacy", "foreign", "lookalike", "wide"}, rows : Tables, aside : Tables,
   columns : SUBSET Columns, archive : Seq(Archived),
   attempts : {"none", "ours", "foreign"}, version : Nat \cup {NULL, Unreadable}]

ASSUME NoTxAssumption == NoTx \notin Databases

Labels == {"idle", "attempts", "results", "copy", "drop", "widened", "rekey", "rekeyed",
           "archive", "displaced_by", "seq", "backfill", "create", "stamp", "commit",
           "open", "refused"}

TypeOK ==
  /\ disk \in Databases /\ tx \in Databases \cup {NoTx} /\ found \in Databases
  /\ pc \in Labels /\ sv \in Nat \cup {NULL, Unreadable} /\ stops \in Nat
  /\ origin \in Databases

\* A table that has the column is taken for this runner's, and a database with
\* no version for a new one: its rows are not touched.
Trusted == origin.version = NULL /\ origin.results \in {"wide", "lookalike"}

Upgrade == INSTANCE SchemaUpgrade WITH
  table <- disk.rows, archive <- disk.archive, current <- disk.version = Version,
  asked <- ~Trusted

\* What an earlier version, or another program, leaves under this path.
NoRows == [r \in {} |-> NULL]
Keyed(rows) == \A r, s \in DOMAIN rows :
  rows[r].experiment = rows[s].experiment /\ Cell[r] = Cell[s] => r = s
Listed(kinds) == UNION {[some -> kinds] : some \in SUBSET Rows}
Filled(kinds) == {rows \in Listed(kinds) : Keyed(rows)}
Kind(experiment, fingerprint) == [experiment |-> experiment, fingerprint |-> fingerprint]

\* The clock may have stepped back between any two rows, and a hand may have
\* left gaps in the numbers; no number is there twice.
Numbers == {1, MaxArchive + 1}
History(seqs) ==
  {old \in UNION {[1..n -> [at : Times, seq : seqs]] : n \in 0..MaxArchive} :
     \A i, j \in DOMAIN old : old[i].seq = old[j].seq => old[i].seq = NULL \/ i = j}
Empty == [results |-> "none", rows |-> NoRows, aside |-> NoRows, columns |-> {},
          archive |-> <<>>, attempts |-> "none", version |-> NULL]

PreProvenanceDbs ==
  [results : {"legacy", "foreign"}, rows : Filled({Kind(NULL, FALSE)}), aside : {NoRows},
   columns : {{}}, archive : {<<>>}, attempts : {"none", "foreign"}, version : {NULL}]

\* Before the split of the strata the empty experiment holds rows of both
\* kinds.  A row that sits in the stratum's token already is a hand's.
PreSplitDbs ==
  {db \in [results : {"wide"}, aside : {NoRows},
           rows : Filled({Kind("", TRUE), Kind("", FALSE), Kind("legacy", FALSE)}),
           columns : {{}, OldColumns}, archive : History({NULL}),
           attempts : {"none"}, version : {3}] : db.columns = {} => db.archive = <<>>}

SplitDbs ==
  [results : {"wide"}, rows : Filled({Kind("", TRUE), Kind("legacy", FALSE)}),
   aside : {NoRows}, columns : {OldColumns}, archive : History({NULL}),
   attempts : {"ours"}, version : {4}]

\* A version before the split that was killed after it had widened the table
\* and before the stamp, and another program's table of that shape.
UnstampedDbs ==
  [results : {"wide"}, rows : Filled({Kind("", TRUE), Kind("", FALSE), Kind("legacy", FALSE)}),
   aside : {NoRows}, columns : {{}, OldColumns}, archive : {<<>>}, attempts : {"none"},
   version : {NULL}]
LookalikeDbs ==
  [results : {"lookalike"}, rows : Listed({Kind(NULL, TRUE), Kind(NULL, FALSE)}),
   aside : {NoRows}, columns : {{}}, archive : {<<>>}, attempts : {"none", "foreign"},
   version : {NULL}]

\* The columns are there and not every row has its number: the shape of a kill
\* before the backfill, and of an archive that a hand has touched.
HalfNumberedDbs ==
  [results : {"wide"}, rows : Filled({Kind("", TRUE)}), aside : {NoRows},
   columns : {Columns}, archive : History(Numbers \cup {NULL}), attempts : {"ours"},
   version : {NULL, 4}]

\* What runs of this version wrote.
CurrentDbs ==
  [results : {"wide"}, rows : Filled({Kind("", TRUE), Kind("legacy", FALSE)}),
   aside : {NoRows}, columns : {Columns}, archive : History(Numbers), attempts : {"ours"},
   version : {Version}]

OtherDbs ==
  {Empty, [Empty EXCEPT !.attempts = "foreign"],
   [Empty EXCEPT !.version = Unreadable], [Empty EXCEPT !.version = Version + 1]}

Init ==
  /\ disk \in PreProvenanceDbs \cup PreSplitDbs \cup SplitDbs \cup UnstampedDbs
             \cup LookalikeDbs \cup HalfNumberedDbs \cup CurrentDbs \cup OtherDbs
  /\ tx = NoTx
  /\ pc = "idle" /\ sv = NULL /\ stops = 0
  /\ found = disk /\ origin = disk
  /\ reader = [pc |-> "idle", shape |-> "none", pre_split |-> FALSE,
               labels |-> <<>>, order |-> <<>>, stamped |-> FALSE]

----------------------------------------------------------------------------
Current == IF tx = NoTx THEN disk ELSE tx

\* A statement that changes the schema: committed at once outside a transaction.
Change(db) ==
  IF tx = NoTx THEN disk' = db /\ UNCHANGED tx ELSE tx' = db /\ UNCHANGED disk

\* A statement that changes rows.
Write(db) == tx' = db /\ UNCHANGED disk

Commit == disk' = tx /\ tx' = NoTx
Rollback == tx' = NoTx /\ UNCHANGED disk

Goto(from, to) ==
  /\ pc = from /\ pc' = to
  /\ UNCHANGED <<sv, stops, found, origin, reader>>

\* ensure_schema reads the stamp first: an unreadable or newer one is refused,
\* the current one is trusted.
Open ==
  /\ pc = "idle"
  /\ sv' = disk.version
  /\ found' = disk
  /\ pc' = IF disk.version = Unreadable THEN "refused"
           ELSE IF disk.version = NULL THEN "attempts"
           ELSE IF disk.version > Version THEN "refused"
           ELSE IF disk.version = Version THEN "open" ELSE "attempts"
  /\ UNCHANGED <<disk, tx, stops, origin, reader>>

\* A table of another program under the name `attempts` is refused before
\* anything changes.
CheckAttempts ==
  \/ /\ disk.attempts = "foreign"
     /\ Goto("attempts", "refused")
     /\ UNCHANGED <<disk, tx>>
  \/ /\ disk.attempts # "foreign"
     /\ Goto("attempts", "results")
     /\ UNCHANGED <<disk, tx>>

CreateResults ==
  /\ disk.results = "none"
  /\ Goto("results", "rekey")
  /\ Change([disk EXCEPT !.results = "wide"])

KeepResults ==
  /\ disk.results \in {"wide", "lookalike"}
  /\ Goto("results", "rekey")
  /\ UNCHANGED <<disk, tx>>

RefuseResults ==
  /\ disk.results = "foreign"
  /\ Goto("results", "refused")
  /\ UNCHANGED <<disk, tx>>

\* Mutant of Widen: without BEGIN, renaming and creating commit at once.
WidenAtOnce ==
  /\ disk.results = "legacy"
  /\ Goto("results", "copy")
  /\ disk' = [disk EXCEPT !.results = "wide", !.rows = NoRows, !.aside = disk.rows]
  /\ tx' = disk'

\* _migrate_v1_to_v2: rename aside and create wide, copy, drop, commit.
Widen ==
  /\ disk.results = "legacy"
  /\ Goto("results", "copy")
  /\ Write([disk EXCEPT !.results = "wide", !.rows = NoRows, !.aside = disk.rows])

CopyRows ==
  /\ Goto("copy", "drop")
  /\ Write([tx EXCEPT !.rows =
       [r \in DOMAIN tx.aside |-> [experiment |-> "legacy", fingerprint |-> FALSE]]])

DropAside ==
  /\ Goto("drop", "widened")
  /\ Write([tx EXCEPT !.aside = NoRows])

CommitWidened == Goto("widened", "rekey") /\ Commit

\* Mutant of Rekeyed: every row of the empty experiment moves.
RekeyedAll(rows) ==
  [r \in DOMAIN rows |->
     IF rows[r].experiment = "" THEN [rows[r] EXCEPT !.experiment = "legacy"] ELSE rows[r]]

\* _rekey_legacy_stratum: for a stamped database older than this version.
Rekeyed(rows) ==
  [r \in DOMAIN rows |->
     IF rows[r].experiment = "" /\ ~rows[r].fingerprint
     THEN [rows[r] EXCEPT !.experiment = "legacy"] ELSE rows[r]]

NothingToRekey ==
  /\ sv = NULL
  /\ Goto("rekey", "archive")
  /\ UNCHANGED <<disk, tx>>

Rekey ==
  /\ sv # NULL /\ Keyed(Rekeyed(disk.rows))
  /\ Goto("rekey", "rekeyed")
  /\ Write([disk EXCEPT !.rows = Rekeyed(disk.rows)])

RekeyCollides ==
  /\ sv # NULL /\ ~Keyed(Rekeyed(disk.rows))
  /\ Goto("rekey", "refused")
  /\ Rollback

CommitRekeyed == Goto("rekeyed", "archive") /\ Commit

\* A statement of either transaction fails otherwise.
TransactionFails ==
  /\ \/ Goto("copy", "refused") \/ Goto("drop", "refused")
     \/ disk.results = "legacy" /\ Goto("results", "refused")
     \/ sv # NULL /\ Goto("rekey", "refused")
  /\ Rollback

CreateArchive ==
  /\ Goto("archive", "displaced_by")
  /\ Change(IF disk.columns = {} THEN [disk EXCEPT !.columns = Columns] ELSE disk)

\* Mutant of AddDisplacedBy: the column is added whether it is there or not,
\* which SQLite refuses.
AddDisplacedByAgain ==
  /\ "displaced_by" \notin disk.columns
  /\ Goto("displaced_by", "seq")
  /\ Change([disk EXCEPT !.columns = @ \cup {"displaced_by"}])

\* _migrate_superseded_archive: each column alone, if it is not there.
AddDisplacedBy ==
  /\ Goto("displaced_by", "seq")
  /\ Change([disk EXCEPT !.columns = @ \cup {"displaced_by"}])

\* Mutant of AddSeq: rows get their place only if the column was missing.
AddSeqAndRank ==
  \/ /\ "seq" \in disk.columns
     /\ Goto("seq", "create")
     /\ UNCHANGED <<disk, tx>>
  \/ /\ "seq" \notin disk.columns
     /\ Goto("seq", "backfill")
     /\ Change([disk EXCEPT !.columns = @ \cup {"seq"}])

AddSeq ==
  /\ Goto("seq", "backfill")
  /\ Change([disk EXCEPT !.columns = @ \cup {"seq"}])

Unstamped == Upgrade!Unstamped(disk.archive)

\* Every row that has no seq gets one, in one transaction, which stays open.
Backfill ==
  \/ /\ Unstamped = {}
     /\ Goto("backfill", "create")
     /\ UNCHANGED <<disk, tx>>
  \/ /\ Unstamped # {}
     /\ Goto("backfill", "create")
     /\ Write([disk EXCEPT !.archive = Upgrade!Ranked(disk.archive)])

CreateAttempts ==
  /\ Goto("create", "stamp")
  /\ Change([Current EXCEPT !.attempts = "ours"])

\* schema_meta is created if absent, and stamped.
Stamp ==
  /\ Goto("stamp", "commit")
  /\ Write([Current EXCEPT !.version = Version])

CommitStamp == Goto("commit", "open") /\ Commit

\* A kill, or an error no one translates, which closes the connection.
Stop ==
  /\ pc \notin {"idle", "open", "refused"} /\ stops < MaxStops
  /\ pc' = "idle"
  /\ stops' = stops + 1
  /\ Rollback
  /\ UNCHANGED <<sv, found, origin, reader>>

----------------------------------------------------------------------------
\* report._read takes no lock and asks three things in turn: the columns of
\* `results`, the version, and the rows with the label each is printed under.
Reads(from, answer) ==
  /\ reader.pc = from
  /\ reader' = answer
  /\ UNCHANGED <<disk, tx, pc, sv, stops, found, origin>>

ReadColumns ==
  \/ disk.results = "none" /\ Reads("idle", [reader EXCEPT !.pc = "refused"])
  \/ disk.results # "none" /\ Reads("idle", [reader EXCEPT !.pc = "version",
                                                           !.shape = disk.results])

ReadVersion ==
  Reads("version", [reader EXCEPT !.pc = "rows",
    !.pre_split = disk.version \in Nat /\ disk.version < 4])

\* Mutant of Shown: the column says what it says, whatever wrote it.
ShownAsStored(row) == IF reader.shape = "wide" THEN row.experiment ELSE "legacy"

\* The experiment the SELECT yields.
Shown(row) ==
  CASE reader.shape = "wide" ->
         IF reader.pre_split /\ row.experiment = "" /\ ~row.fingerprint
         THEN "legacy" ELSE row.experiment
    [] reader.shape = "lookalike" -> IF row.fingerprint THEN "" ELSE "legacy"
    [] OTHER -> "legacy"

\* _experiment_label
Label(experiment) ==
  CASE experiment = "legacy" -> "(pre-provenance)"
    [] experiment = "" -> "(no experiment)"
    [] OTHER -> experiment

ReadRows ==
  Reads("rows", [reader EXCEPT !.pc = "reported",
    !.labels = [r \in DOMAIN disk.rows |-> Label(Shown(disk.rows[r]))]])

\* superseded_rows: the columns, then the rows ORDER BY seq DESC, where SQLite
\* puts NULL last and promises no order of equals.
ReadArchiveColumns ==
  \/ /\ disk.columns # Columns
     /\ Reads("idle", [reader EXCEPT !.pc = "refused"])
  \/ /\ disk.columns = Columns
     /\ Reads("idle", [reader EXCEPT !.pc = "archive"])

\* Mutant of Place: the listing is ordered by the clock.
PlaceByClock(i) == disk.archive[i].at

Place(i) == IF disk.archive[i].seq = NULL THEN -1 ELSE disk.archive[i].seq
Descending(order) ==
  \A i, j \in DOMAIN order : i < j => Place(order[i]) >= Place(order[j])

ReadArchive ==
  \E order \in {some \in [DOMAIN disk.archive -> DOMAIN disk.archive] :
                  IsInjective(some) /\ Descending(some)} :
    Reads("archive", [reader EXCEPT !.pc = "listed", !.order = order,
                                    !.stamped = disk.version = Version])

----------------------------------------------------------------------------
OpenStep ==
  \/ Open \/ CheckAttempts
  \/ CreateResults \/ KeepResults \/ RefuseResults
  \/ Widen \/ CopyRows \/ DropAside \/ CommitWidened
  \/ NothingToRekey \/ Rekey \/ RekeyCollides \/ CommitRekeyed
  \/ CreateArchive \/ AddDisplacedBy \/ AddSeq \/ Backfill
  \/ CreateAttempts \/ Stamp \/ CommitStamp

ReadStep == ReadColumns \/ ReadVersion \/ ReadRows \/ ReadArchiveColumns \/ ReadArchive

Next == OpenStep \/ TransactionFails \/ Stop \/ ReadStep

Spec == Init /\ [][Next]_vars

\* Whoever wants the run opens the database again after a stop.
FairSpec == Spec /\ WF_vars(OpenStep)

----------------------------------------------------------------------------
\* A database stamped current has every table in its current shape, a number of
\* its own for every archived row, and its rows of unknown origin in their
\* stratum: nothing that is skipped for a stamped database was left to do,
\* wherever openings were stopped (matrix.py:545-547).  A table taken for this
\* runner's keeps the rows it had.
StampMeansComplete ==
  disk.version = Version =>
    /\ disk.results = (IF origin.results = "lookalike" THEN "lookalike" ELSE "wide")
    /\ disk.columns = Columns /\ disk.attempts = "ours"
    /\ disk.rows = (IF Trusted THEN origin.rows ELSE Upgrade!Moved(origin.rows))
    /\ \A i, j \in DOMAIN disk.archive :
         /\ disk.archive[i].seq # NULL
         /\ disk.archive[i].seq = disk.archive[j].seq => i = j

\* A refused opening leaves the database exactly as that opening found it: what
\* each refusal's message says (matrix.py:583, 602, 469, 491, 523, 530).
RefusalsTouchNothing == pc = "refused" => disk = found /\ tx = NoTx

\* The committed rows and archive change only as SchemaUpgrade says: the rows
\* move all at once, then order and stamp come at once, stops or no stops.
ImplementsUpgrade == Upgrade!Spec

\* A report names every row that was there and tells the rows of unknown origin
\* from the nameless ones, although it reads between statements of a migration
\* (report.py:85-126).  Where no version says who wrote the experiment column,
\* "the column says what it says and nothing more" (report.py:90).
Told(row) ==
  IF Trusted /\ origin.results = "wide" THEN Label(row.experiment)
  ELSE IF row.fingerprint THEN "(no experiment)" ELSE "(pre-provenance)"
ReportTellsOriginsApart ==
  reader.pc = "reported" =>
    reader.labels = [r \in DOMAIN origin.rows |-> Told(origin.rows[r])]

\* An opening that is not stopped for ever ends: what a stop left half done
\* never keeps the next one from finishing (matrix.py:668-676).
OpeningEnds == <>(pc \in {"open", "refused"})

\* superseded_rows lists the rows of a stamped database most recent first
\* (matrix.py:1513): by number where they had one, whatever the clock said ("it
\* survives a clock that steps backwards", 1520), and those displaced before
\* there were numbers, which count as the later ones, by the clock, the best
\* witness left (643-646).  Between the ALTER and the backfill's commit the
\* listing has no order.
Earlier(old, i, j) ==
  \/ old[i].seq # NULL /\ old[j].seq # NULL /\ old[i].seq < old[j].seq
  \/ old[i].seq # NULL /\ old[j].seq = NULL
  \/ old[i].seq = NULL /\ old[j].seq = NULL /\ Upgrade!Before(old, i, j)
ArchiveIsListedInOrder ==
  reader.pc = "listed" /\ reader.stamped =>
    \A i, j \in DOMAIN reader.order : i < j =>
      ~Earlier(origin.archive, reader.order[i], reader.order[j])
==============================================================================
