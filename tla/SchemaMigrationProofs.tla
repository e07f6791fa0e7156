------------------------ MODULE SchemaMigrationProofs ------------------------
(***************************************************************************)
(* SchemaMigration for every set of rows, cells and clock readings and any *)
(* number of stops: a stamp means a complete database, a refusal leaves it *)
(* as it was, the migrations implement SchemaUpgrade, and the readers,     *)
(* which take no lock, tell the rows apart and list the archive in order.  *)
(***************************************************************************)
EXTENDS SchemaMigration, TLAPS, FiniteSetTheorems, WellFoundedInduction

\* No row of unknown origin is left among the nameless ones.
Split(rows) == \A r \in DOMAIN rows : rows[r].experiment = "" => rows[r].fingerprint

\* What the shape of `results` says of the rows in it.
ShapeOK(db) ==
  /\ db.results = "none" => db.rows = NoRows
  /\ db.results \in {"legacy", "foreign"} =>
       /\ db.version = NULL
       /\ \A r \in DOMAIN db.rows :
            db.rows[r].experiment = NULL /\ ~db.rows[r].fingerprint
  /\ db.results = "wide" =>
       /\ \A r \in DOMAIN db.rows :
            /\ db.rows[r].experiment \in {"", "legacy"}
            /\ db.rows[r].experiment = "legacy" => ~db.rows[r].fingerprint
       /\ db.version # 3 => Split(db.rows) \/ Trusted

StampOK(db) ==
  /\ db.version \in {NULL, Unreadable, 3, 4, Version, Version + 1}
  /\ db.version \in {3, 4} => db.results = "wide"
  /\ db.version = Version => db.results \in {"wide", "lookalike"}
  /\ db.columns = {} \/ "row" \in db.columns
  /\ db.version = Version => db.columns = Columns /\ db.attempts = "ours"

\* What is left of the database the first opening found: its rows, moved or not
\* and never where they are not to be moved; its archive, numbered at the stamp;
\* and a table that was taken for this runner's.
RowsKept(db) ==
  /\ DOMAIN db.rows = DOMAIN origin.rows
  /\ \A r \in DOMAIN db.rows : db.rows[r].fingerprint = origin.rows[r].fingerprint
  /\ IF Trusted THEN db.rows = origin.rows
     ELSE Upgrade!Moved(db.rows) = Upgrade!Moved(origin.rows)
OriginKept(db) ==
  /\ db.results = "lookalike" <=> origin.results = "lookalike"
  /\ Trusted => db.results = origin.results
  /\ db.version \in {origin.version, Version}
  /\ db.archive = IF db.version = Version THEN Upgrade!Ranked(origin.archive)
                  ELSE origin.archive

\* No number is in the archive twice.
Distinct(old) ==
  \A i, j \in DOMAIN old : old[i].seq # NULL /\ old[i].seq = old[j].seq => i = j

OriginOK ==
  /\ Distinct(origin.archive)
  /\ origin.results = "lookalike" => Trusted

DiskInv ==
  ShapeOK(disk) /\ StampOK(disk) /\ RowsKept(disk) /\ OriginKept(disk) /\ OriginOK

-----------------------------------------------------------------------------
Outside == {"idle", "open", "refused"}
Widening == {"copy", "drop", "widened"}
Finishing == {"create", "stamp", "commit"}
Autocommitted ==
  {"attempts", "results", "rekey", "archive", "displaced_by", "seq", "backfill"}
Archiving == {"archive", "displaced_by", "seq", "backfill"} \cup Finishing

\* The parts a transaction does not touch.
SameArchive(db) ==
  db.archive = disk.archive /\ db.columns = disk.columns

VersionInv ==
  pc \notin Outside => disk.version = sv /\ sv \in {NULL, 3, 4}

FoundInv ==
  /\ pc \in {"attempts", "results", "copy", "drop", "refused"} => disk = found
  /\ pc = "rekey" /\ sv # NULL => disk = found

TxInv ==
  /\ pc \in Outside \cup Autocommitted => tx = NoTx
  /\ pc \in Widening =>
       /\ disk.results = "legacy"
       /\ tx \in Databases /\ SameArchive(tx) /\ tx.version = disk.version
       /\ tx.results = "wide"
       /\ pc = "copy" => tx.aside = disk.rows
       /\ pc # "copy" => tx.rows = Upgrade!Moved(disk.rows)
  /\ pc = "rekeyed" =>
       /\ sv # NULL /\ disk.results = "wide"
       /\ tx \in Databases /\ SameArchive(tx) /\ tx.version = disk.version
       /\ tx.results = "wide" /\ tx.rows = Upgrade!Moved(disk.rows)

ArchiveInv ==
  /\ pc \in {"rekey", "rekeyed"} \cup Archiving => disk.results \in {"wide", "lookalike"}
  /\ pc \in Archiving => Trusted \/ (Split(disk.rows) /\ disk.results = "wide")
  /\ pc = "displaced_by" => "row" \in disk.columns
  /\ pc = "seq" => {"row", "displaced_by"} \subseteq disk.columns
  /\ pc \in {"backfill"} \cup Finishing => disk.columns = Columns

\* At the end the connection's view differs from the disk in what it adds only.
FinishInv ==
  pc \in Finishing =>
    /\ Current.results = disk.results /\ Current.rows = disk.rows
    /\ Current.columns = Columns
    /\ Current.archive = Upgrade!Ranked(disk.archive)
    /\ pc # "commit" => Current.version = disk.version
    /\ pc # "create" => Current.attempts = "ours"
    /\ pc = "commit" => tx # NoTx /\ tx.version = Version

OpenInv == VersionInv /\ FoundInv /\ TxInv /\ ArchiveInv /\ FinishInv

-----------------------------------------------------------------------------
ReaderShape ==
  /\ DOMAIN reader = {"pc", "shape", "pre_split", "labels", "order", "stamped"}
  /\ reader.pre_split \in BOOLEAN

\* What a reader knows stays true enough while migrations go on.
ColumnsInv ==
  reader.pc \in {"version", "rows"} =>
    /\ reader.shape \in {"legacy", "foreign", "lookalike", "wide"}
    /\ reader.shape = "wide" => disk.results = "wide"
    /\ reader.shape = "lookalike" => origin.results = "lookalike"
    /\ reader.shape \in {"legacy", "foreign"} =>
         ~Trusted /\ \A r \in DOMAIN origin.rows : ~origin.rows[r].fingerprint
SplitInv ==
  reader.pc = "rows" /\ reader.shape = "wide" =>
    /\ ~reader.pre_split => Split(disk.rows) \/ Trusted
    /\ reader.pre_split => ~Trusted
ListedInv ==
  reader.pc = "listed" /\ reader.stamped =>
    /\ disk.version = Version
    /\ reader.order \in [DOMAIN disk.archive -> DOMAIN disk.archive]
    /\ Descending(reader.order)

ReaderInv ==
  ReaderShape /\ ColumnsInv /\ SplitInv /\ ListedInv /\ ReportTellsOriginsApart

IInv == TypeOK /\ DiskInv /\ OpenInv /\ ReaderInv

-----------------------------------------------------------------------------
LEMMA DatabaseFields ==
  ASSUME NEW db \in Databases
  PROVE  /\ db.results \in {"none", "legacy", "foreign", "lookalike", "wide"}
         /\ db.rows \in Tables /\ db.aside \in Tables
         /\ db.columns \in SUBSET Columns /\ db.archive \in Seq(Archived)
         /\ db.attempts \in {"none", "ours", "foreign"}
         /\ db.version \in Nat \cup {NULL, Unreadable}
  BY DEF Databases

LEMMA TableFacts ==
  ASSUME NEW rows \in Tables
  PROVE  /\ DOMAIN rows \subseteq Rows
         /\ rows \in [DOMAIN rows -> Row]
         /\ \A r \in DOMAIN rows : /\ rows[r].experiment \in {NULL, "", "legacy"}
                                   /\ rows[r].fingerprint \in BOOLEAN
  BY DEF Tables, Row

LEMMA TableIntro ==
  ASSUME NEW rows, NEW D \in SUBSET Rows, rows \in [D -> Row]
  PROVE  rows \in Tables
  BY DEF Tables

\* Rows whose stratum is settled move nowhere.
LEMMA MovedFacts ==
  ASSUME NEW rows \in Tables
  PROVE  /\ Upgrade!Moved(rows) \in Tables
         /\ DOMAIN Upgrade!Moved(rows) = DOMAIN rows
         /\ \A r \in DOMAIN rows :
              /\ Upgrade!Moved(rows)[r].fingerprint = rows[r].fingerprint
              /\ Upgrade!Moved(rows)[r].experiment =
                   IF Upgrade!PreProvenance(rows[r]) THEN "legacy" ELSE rows[r].experiment
         /\ Split(Upgrade!Moved(rows))
<1>1. DOMAIN Upgrade!Moved(rows) = DOMAIN rows
  BY DEF Upgrade!Moved
<1>2. ASSUME NEW r \in DOMAIN rows
      PROVE  /\ Upgrade!Moved(rows)[r] \in Row
             /\ Upgrade!Moved(rows)[r].fingerprint = rows[r].fingerprint
             /\ Upgrade!Moved(rows)[r].experiment =
                  IF Upgrade!PreProvenance(rows[r]) THEN "legacy" ELSE rows[r].experiment
  <2>1. rows[r] \in Row
    BY TableFacts
  <2>2. Upgrade!Moved(rows)[r] =
          IF Upgrade!PreProvenance(rows[r])
          THEN [rows[r] EXCEPT !.experiment = "legacy"] ELSE rows[r]
    BY DEF Upgrade!Moved
  <2> QED
    BY <2>1, <2>2 DEF Row
<1>3. Upgrade!Moved(rows) \in [DOMAIN rows -> Row]
  BY <1>2 DEF Upgrade!Moved
<1>4. Split(Upgrade!Moved(rows))
  BY <1>1, <1>2 DEF Split, Upgrade!PreProvenance
<1> QED
  BY <1>1, <1>2, <1>3, <1>4, TableFacts, TableIntro

LEMMA MovedStays ==
  ASSUME NEW rows \in Tables, Split(rows),
         \A r \in DOMAIN rows : rows[r].experiment # NULL
  PROVE  Upgrade!Moved(rows) = rows
<1>1. \A r \in DOMAIN rows : ~Upgrade!PreProvenance(rows[r])
  BY DEF Split, Upgrade!PreProvenance
<1>2. Upgrade!Moved(rows) = [r \in DOMAIN rows |-> rows[r]]
  BY <1>1 DEF Upgrade!Moved
<1> QED
  BY <1>2, TableFacts

\* Where every experiment is a name, the runner's two moves are the same one.
LEMMA RekeyedIsMoved ==
  ASSUME NEW rows \in Tables,
         \A r \in DOMAIN rows : rows[r].experiment # NULL
  PROVE  Rekeyed(rows) = Upgrade!Moved(rows)
  BY DEF Rekeyed, Upgrade!Moved, Upgrade!PreProvenance

-----------------------------------------------------------------------------
LEMMA SameCardinality ==
  ASSUME NEW S
  PROVE  Upgrade!Cardinality(S) = Cardinality(S)
  BY DEF Upgrade!Cardinality, Cardinality

LEMMA StrictlySmaller ==
  ASSUME NEW S, IsFiniteSet(S), NEW T \in SUBSET S, NEW x \in S, x \notin T
  PROVE  Cardinality(T) < Cardinality(S)
<1>1. /\ Cardinality(T) \in Nat /\ Cardinality(S) \in Nat
      /\ Cardinality(T) <= Cardinality(S)
      /\ Cardinality(S) = Cardinality(T) => S = T
  BY FS_Subset, FS_CardinalityType
<1> QED
  BY <1>1

\* Of finitely many numbered rows one has the largest number.
LEMMA LargestNumber ==
  ASSUME NEW old \in Seq(Archived), NEW some \in SUBSET DOMAIN old, some # {},
         \A i \in some : old[i].seq \in Nat
  PROVE  \E i \in some : \A j \in some : old[j].seq <= old[i].seq
<1> DEFINE Tops(T) == {i \in T : \A j \in T : old[j].seq <= old[i].seq}
           bad == {T \in SUBSET some : T # {} /\ Tops(T) = {}}
<1>1. IsFiniteSet(some)
  <2>1. DOMAIN old = 1..Len(old) /\ Len(old) \in Nat
    OBVIOUS
  <2>2. IsFiniteSet(DOMAIN old)
    BY <2>1, FS_Interval
  <2> QED
    BY <2>2, FS_Subset
<1>2. IsWellFoundedOn(StrictSubsetOrdering(some), SUBSET some)
  BY <1>1, FS_StrictSubsetOrderingWellFounded, FS_FiniteSubsetsOfFinite
<1>3. ASSUME bad # {} PROVE FALSE
  <2>1. bad \subseteq SUBSET some
    OBVIOUS
  <2>2. PICK T \in bad : \A U \in bad : <<U, T>> \notin StrictSubsetOrdering(some)
    <3> HIDE DEF bad
    <3> QED
      BY <1>2, <1>3, <2>1, WFMin
  <2>3. T \in SUBSET some /\ T # {} /\ Tops(T) = {}
    OBVIOUS
  <2>4. PICK x \in T : TRUE
    BY <2>3
  <2> DEFINE U == T \ {x}
  <2>5. <<U, T>> \in StrictSubsetOrdering(some)
    BY <2>3, <2>4 DEF StrictSubsetOrdering
  <2>6. U \notin bad
    BY <2>2, <2>5
  <2>7. U # {}
    <3>1. SUFFICES ASSUME U = {} PROVE FALSE
      OBVIOUS
    <3>2. T = {x}
      BY <2>4, <3>1
    <3>3. x \in Tops(T)
      BY <3>2, <2>3
    <3> QED
      BY <3>3, <2>3
  <2>8. PICK m \in Tops(U) : TRUE
    BY <2>3, <2>6, <2>7
  <2>9. /\ m \in T /\ old[m].seq \in Nat /\ old[x].seq \in Nat
        /\ \A j \in T : j = x \/ old[j].seq <= old[m].seq
        /\ \A j \in T : old[j].seq \in Nat
    BY <2>3, <2>4, <2>8
  <2>10. CASE old[x].seq <= old[m].seq
    <3>1. m \in Tops(T)
      BY <2>9, <2>10
    <3> QED
      BY <2>3, <3>1
  <2>11. CASE ~(old[x].seq <= old[m].seq)
    <3>1. ASSUME NEW j \in T PROVE old[j].seq <= old[x].seq
      <4>1. old[j].seq \in Nat /\ (j = x \/ old[j].seq <= old[m].seq)
        BY <2>9
      <4>2. \A a, b, c \in Nat : a <= b /\ ~(c <= b) => a <= c
        OBVIOUS
      <4>3. CASE j = x
        <5>1. \A n \in Nat : n <= n
          OBVIOUS
        <5> QED
          BY <4>3, <5>1, <2>9
      <4>4. CASE j # x
        <5>1. old[j].seq <= old[m].seq
          BY <4>1, <4>4
        <5> HIDE DEF bad, Tops, U
        <5> QED
          BY <4>1, <4>2, <5>1, <2>9, <2>11
      <4> QED
        BY <4>3, <4>4
    <3>2. x \in Tops(T)
      BY <2>4, <3>1
    <3> QED
      BY <2>3, <3>2
  <2> QED
    BY <2>10, <2>11
<1>4. Tops(some) # {}
  BY <1>3
<1> QED
  BY <1>4

LEMMA BaseIsLargest ==
  ASSUME NEW old \in Seq(Archived)
  PROVE  /\ Upgrade!Base(old) \in Nat
         /\ \A i \in DOMAIN old : old[i].seq # NULL => old[i].seq <= Upgrade!Base(old)
<1> DEFINE some == {i \in DOMAIN old : old[i].seq # NULL}
           stamps == Upgrade!Stamps(old)
<1>1. \A i \in DOMAIN old : old[i] \in Archived
  OBVIOUS
<1>2. \A i \in some : old[i].seq \in Nat
  BY <1>1 DEF Archived
<1>3. stamps = {old[i].seq : i \in some}
  BY DEF Upgrade!Stamps, Upgrade!Unstamped
<1>4. CASE some = {}
  <2>1. stamps = {}
    BY <1>3, <1>4
  <2> QED
    BY <1>4, <2>1 DEF Upgrade!Base
<1>5. CASE some # {}
  <2>1. PICK m \in some : \A j \in some : old[j].seq <= old[m].seq
    BY <1>2, <1>5, LargestNumber
  <2>2. /\ old[m].seq \in stamps /\ stamps # {}
        /\ \A n \in stamps : n \in Nat /\ n <= old[m].seq
    BY <1>2, <1>3, <2>1
  <2> HIDE DEF stamps, some
  <2>3. Upgrade!Base(old) = CHOOSE n \in stamps : \A k \in stamps : k <= n
    BY <2>2 DEF Upgrade!Base, stamps
  <2>4. Upgrade!Base(old) \in stamps /\ \A k \in stamps : k <= Upgrade!Base(old)
    BY <2>2, <2>3
  <2> QED
    BY <1>3, <2>2, <2>4 DEF some
<1> QED
  BY <1>4, <1>5

\* The numbers the archive gets are in the order it had: among the rows that
\* lack one whatever comes before the earlier comes before the later one too,
\* and they all come after the largest number there is.
LEMMA RankedIsOrdered ==
  ASSUME NEW old \in Seq(Archived)
  PROVE  /\ Upgrade!Ranked(old) \in Seq(Archived)
         /\ DOMAIN Upgrade!Ranked(old) = DOMAIN old
         /\ \A i \in DOMAIN old : Upgrade!Ranked(old)[i].seq \in Nat
         /\ \A i, j \in DOMAIN old :
              Earlier(old, i, j) => Upgrade!Ranked(old)[i].seq < Upgrade!Ranked(old)[j].seq
<1> DEFINE D == DOMAIN old
           bare == Upgrade!Unstamped(old)
           base == Upgrade!Base(old)
           Upto(i) == {j \in bare : j = i \/ Upgrade!Before(old, j, i)}
           new == Upgrade!Ranked(old)
<1>1. D = 1..Len(old) /\ Len(old) \in Nat /\ IsFiniteSet(D)
  BY FS_Interval
<1>2. ASSUME NEW i \in D
      PROVE  old[i] \in Archived /\ old[i].at \in Int /\ old[i].seq \in Nat \cup {NULL}
  <2>1. old[i] \in Archived
    BY <1>1
  <2> QED
    BY <2>1, TimesAssumption DEF Archived
<1>3. bare \in SUBSET D /\ \A i \in D : i \in bare <=> old[i].seq = NULL
  BY DEF Upgrade!Unstamped
<1>4. base \in Nat /\ \A i \in D : old[i].seq # NULL => old[i].seq <= base
  BY BaseIsLargest
<1> HIDE DEF bare, base
<1>5. ASSUME NEW i \in bare
      PROVE  /\ IsFiniteSet(Upto(i)) /\ Cardinality(Upto(i)) \in Nat
             /\ Cardinality(Upto(i)) > 0
  <2>1. Upto(i) \in SUBSET D /\ i \in Upto(i)
    BY <1>3
  <2>2. IsFiniteSet(Upto(i)) /\ Cardinality(Upto(i)) \in Nat
    BY <2>1, <1>1, FS_Subset, FS_CardinalityType
  <2>3. Cardinality(Upto(i)) # 0
    BY <2>1, <2>2, FS_EmptySet
  <2> QED
    BY <2>2, <2>3
<1>6. ASSUME NEW i \in bare, NEW j \in bare, Upgrade!Before(old, i, j)
      PROVE  Cardinality(Upto(i)) < Cardinality(Upto(j))
  <2>1. Upto(i) \in SUBSET Upto(j)
    BY <1>1, <1>2, <1>3, <1>6 DEF Upgrade!Before
  <2>2. j \in Upto(j) /\ j \notin Upto(i)
    BY <1>1, <1>2, <1>3, <1>6 DEF Upgrade!Before
  <2> QED
    BY <2>1, <2>2, <1>5, StrictlySmaller
<1>7. ASSUME NEW i \in bare
      PROVE  new[i] \in Archived /\ new[i].seq = base + Cardinality(Upto(i))
  <2>1. i \in D /\ old[i].seq = NULL
    BY <1>3
  <2>2. Upgrade!Cardinality(Upto(i)) = Cardinality(Upto(i))
    BY SameCardinality
  <2>3. new[i] = IF old[i].seq = NULL
                 THEN [old[i] EXCEPT !.seq = base + Upgrade!Cardinality(Upto(i))]
                 ELSE old[i]
    BY <2>1 DEF Upgrade!Ranked, bare, base
  <2> DEFINE n == Cardinality(Upto(i))
  <2>4. n \in Nat
    BY <1>5
  <2>5. new[i] = [old[i] EXCEPT !.seq = base + n]
    BY <2>1, <2>2, <2>3
  <2> HIDE DEF n, new
  <2>6. base + n \in Nat /\ old[i] \in Archived
    BY <1>2, <1>4, <2>1, <2>4
  <2> QED
    BY <2>5, <2>6 DEF Archived, n
<1>8. ASSUME NEW i \in D, i \notin bare
      PROVE  new[i] = old[i] /\ new[i] \in Archived /\ new[i].seq \in Nat
  <2>1. new[i] = old[i]
    BY <1>3, <1>8 DEF Upgrade!Ranked
  <2> QED
    BY <2>1, <1>2, <1>3, <1>8
<1>9. DOMAIN new = D
  BY DEF Upgrade!Ranked
<1>10. \A i \in D : new[i] \in Archived
  BY <1>7, <1>8
<1>11. new \in Seq(Archived)
  <2>1. new \in [1..Len(old) -> Archived]
    BY <1>1, <1>10, <1>9 DEF Upgrade!Ranked
  <2> QED
    BY <2>1, <1>1
<1> HIDE DEF new, Upto
<1>12. \A i \in D : new[i].seq \in Nat
  BY <1>4, <1>5, <1>7, <1>8
<1>13. ASSUME NEW i \in D, NEW j \in D, Earlier(old, i, j)
       PROVE  new[i].seq < new[j].seq
  <2>1. CASE i \in bare
    <3>1. j \in bare /\ Upgrade!Before(old, i, j)
      BY <1>3, <1>13, <2>1 DEF Earlier
    <3> QED
      BY <2>1, <3>1, <1>4, <1>5, <1>6, <1>7
  <2>2. CASE i \notin bare /\ j \in bare
    <3>1. new[i].seq <= base
      BY <1>3, <1>4, <1>8, <2>2
    <3> QED
      BY <2>2, <3>1, <1>4, <1>5, <1>7, <1>8
  <2>3. CASE i \notin bare /\ j \notin bare
    <3>1. old[i].seq < old[j].seq
      BY <1>3, <1>13, <2>3 DEF Earlier
    <3> QED
      BY <2>3, <3>1, <1>8
  <2> QED
    BY <2>1, <2>2, <2>3
<1> QED
  BY <1>9, <1>11, <1>12, <1>13 DEF new

\* Of two rows one is the earlier.
LEMMA EarlierIsTotal ==
  ASSUME NEW old \in Seq(Archived), Distinct(old),
         NEW i \in DOMAIN old, NEW j \in DOMAIN old, i # j
  PROVE  Earlier(old, i, j) \/ Earlier(old, j, i)
<1>1. /\ old[i] \in Archived /\ old[j] \in Archived /\ i \in Int /\ j \in Int
  OBVIOUS
<1>2. /\ old[i].at \in Int /\ old[j].at \in Int
      /\ old[i].seq \in Nat \cup {NULL} /\ old[j].seq \in Nat \cup {NULL}
  BY <1>1, TimesAssumption DEF Archived
<1>3. CASE old[i].seq # NULL /\ old[j].seq # NULL
  <2>1. old[i].seq # old[j].seq
    BY <1>3 DEF Distinct
  <2> QED
    BY <1>2, <1>3, <2>1 DEF Earlier
<1>4. CASE old[i].seq = NULL /\ old[j].seq = NULL
  BY <1>1, <1>2, <1>4 DEF Earlier, Upgrade!Before
<1> QED
  BY <1>3, <1>4 DEF Earlier

LEMMA RankedStays ==
  ASSUME NEW old \in Seq(Archived), Upgrade!Unstamped(old) = {}
  PROVE  Upgrade!Ranked(old) = old
<1>1. \A i \in DOMAIN old : old[i].seq # NULL
  BY DEF Upgrade!Unstamped
<1>2. Upgrade!Ranked(old) = [i \in DOMAIN old |-> old[i]]
  BY <1>1 DEF Upgrade!Ranked
<1> QED
  BY <1>2

-----------------------------------------------------------------------------
\* What the readers rely on: a shape, a move and a stamp are never taken back.
Progress ==
  /\ disk.results = "wide" => disk'.results = "wide"
  /\ Split(disk.rows) => Split(disk'.rows)
  /\ disk.version = Version => disk'.version = Version /\ disk'.archive = disk.archive

LEMMA OriginStays ==
  ASSUME UNCHANGED origin
  PROVE  /\ Trusted' <=> Trusted
         /\ \A row : Told(row)' = Told(row)
  BY DEF Trusted, Told, Label

LEMMA ReaderKept ==
  ASSUME ReaderInv, Progress, UNCHANGED <<reader, origin>>
  PROVE  ReaderInv'
<1>1. ReaderShape' /\ ColumnsInv' /\ SplitInv'
  BY OriginStays DEF ReaderInv, ReaderShape, ColumnsInv, SplitInv, Progress
<1>2. ListedInv'
  <2> SUFFICES ASSUME reader.pc = "listed", reader.stamped PROVE ListedInv'
    BY DEF ListedInv
  <2>1. disk'.version = Version /\ disk'.archive = disk.archive
    BY DEF ReaderInv, ListedInv, Progress
  <2>2. Descending(reader.order)'
    BY <2>1 DEF ReaderInv, ListedInv, Descending, Place
  <2> QED
    BY <2>1, <2>2 DEF ReaderInv, ListedInv
<1>3. ReportTellsOriginsApart'
  BY DEF ReaderInv, ReportTellsOriginsApart, Told, Trusted, Label
<1> QED
  BY <1>1, <1>2, <1>3 DEF ReaderInv

LEMMA DiskKept ==
  ASSUME DiskInv, UNCHANGED <<disk, origin>>
  PROVE  DiskInv' /\ Progress
<1>1. ShapeOK(disk)' /\ StampOK(disk)' /\ Progress
  BY OriginStays DEF DiskInv, ShapeOK, StampOK, Split, Progress
<1>2. RowsKept(disk)' /\ OriginKept(disk)' /\ OriginOK'
  BY OriginStays DEF DiskInv, RowsKept, OriginKept, OriginOK, Distinct, Trusted
<1> QED
  BY <1>1, <1>2 DEF DiskInv

-----------------------------------------------------------------------------
\* The steps that leave the committed database alone.
LEMMA OpenKeeps ==
  ASSUME IInv, Open
  PROVE  TypeOK' /\ OpenInv'
<1> USE DEF IInv, Open
<1>1. disk \in Databases /\ disk.version \in {NULL, Unreadable, 3, 4, Version, Version + 1}
  BY DEF TypeOK, DiskInv, StampOK
<1>2. disk.version \in Nat \cup {NULL, Unreadable}
  BY <1>1, DatabaseFields
<1>3. TypeOK'
  BY <1>2 DEF TypeOK, Labels
<1>4. pc' \in {"refused", "attempts", "open"} /\ tx' = NoTx
  BY DEF OpenInv, TxInv, Outside
<1>5. pc' = "attempts" => sv' \in {NULL, 3, 4}
  BY <1>1, NullAssumption DEF Version
<1>6. VersionInv'
  BY <1>4, <1>5 DEF VersionInv, Outside
<1>7. FoundInv' /\ TxInv' /\ ArchiveInv' /\ FinishInv'
  BY <1>4 DEF FoundInv, TxInv, ArchiveInv, FinishInv, Outside, Widening, Finishing, Archiving
<1> QED
  BY <1>3, <1>6, <1>7 DEF OpenInv

LEMMA CheckKeeps ==
  ASSUME IInv, CheckAttempts \/ KeepResults \/ RefuseResults \/ NothingToRekey
  PROVE  TypeOK' /\ OpenInv'
<1> USE DEF IInv, CheckAttempts, KeepResults, RefuseResults, NothingToRekey, Goto
<1>1. TypeOK'
  BY DEF TypeOK, Labels
<1>2. VersionInv'
  BY DEF OpenInv, VersionInv, Outside
<1>3. FoundInv' /\ TxInv'
  BY DEF OpenInv, FoundInv, TxInv, Outside, Autocommitted, Widening
<1>4. ArchiveInv'
  <2>1. pc' = "archive" =>
          disk.results \in {"wide", "lookalike"} /\ disk.version = NULL /\ origin.version = NULL
    BY NullAssumption DEF OpenInv, ArchiveInv, VersionInv, Outside, DiskInv, OriginKept, Version
  <2>2. pc' = "archive" => Trusted \/ (Split(disk.rows) /\ disk.results = "wide")
    <3>1. disk.results = "wide" /\ disk.version # 3 => Split(disk.rows) \/ Trusted
      BY DEF DiskInv, ShapeOK
    <3>2. NULL # 3
      BY NullAssumption
    <3>3. disk.results = "lookalike" => origin.results = "lookalike"
      BY DEF DiskInv, OriginKept
    <3> QED
      BY <2>1, <3>1, <3>2, <3>3 DEF Trusted
  <2>3. pc' = "rekey" => disk.results \in {"wide", "lookalike"}
    BY DEF OpenInv, ArchiveInv
  <2>4. pc' \in {"refused", "results", "rekey", "archive"}
    OBVIOUS
  <2>5. Trusted' <=> Trusted
    BY OriginStays
  <2> QED
    BY <2>1, <2>2, <2>3, <2>4, <2>5 DEF ArchiveInv, Archiving, Finishing, Split
<1>5. FinishInv'
  BY DEF FinishInv, Finishing
<1> QED
  BY <1>1, <1>2, <1>3, <1>4, <1>5 DEF OpenInv

LEMMA WidenKeeps ==
  ASSUME IInv, Widen
  PROVE  TypeOK' /\ OpenInv'
<1> USE DEF IInv, Widen, Goto, Write
<1> DEFINE new == [disk EXCEPT !.results = "wide", !.rows = NoRows, !.aside = disk.rows]
<1>0. disk \in Databases
  BY DEF TypeOK
<1>1. NoRows \in Tables
  BY DEF NoRows, Tables
<1>2. new \in Databases
  BY <1>0, <1>1, DatabaseFields DEF Databases
<1>3. /\ new.results = "wide" /\ new.aside = disk.rows /\ new.archive = disk.archive
      /\ new.columns = disk.columns /\ new.version = disk.version
  BY <1>0 DEF Databases
<1> HIDE DEF new
<1>4. tx' = new
  BY DEF new
<1>5. TypeOK'
  BY <1>2, <1>4 DEF TypeOK, Labels
<1>6. VersionInv' /\ FoundInv' /\ ArchiveInv' /\ FinishInv'
  BY DEF OpenInv, VersionInv, FoundInv, ArchiveInv, FinishInv, Outside, Finishing, Archiving
<1>7. TxInv'
  BY <1>2, <1>3, <1>4 DEF TxInv, Outside, Autocommitted, Widening, SameArchive
<1> QED
  BY <1>5, <1>6, <1>7 DEF OpenInv

LEMMA CopyKeeps ==
  ASSUME IInv, CopyRows
  PROVE  TypeOK' /\ OpenInv'
<1> USE DEF IInv, CopyRows, Goto, Write
<1> DEFINE rows == [r \in DOMAIN tx.aside |-> [experiment |-> "legacy", fingerprint |-> FALSE]]
           new == [tx EXCEPT !.rows = rows]
<1>0. /\ tx \in Databases /\ SameArchive(tx) /\ tx.version = disk.version
      /\ tx.results = "wide" /\ tx.aside = disk.rows /\ disk.results = "legacy"
      /\ disk \in Databases
  BY DEF OpenInv, TxInv, Widening, TypeOK
<1>1. rows \in Tables
  <2>1. tx.aside \in Tables
    BY <1>0, DatabaseFields
  <2>2. DOMAIN tx.aside \subseteq Rows
    BY <2>1, TableFacts
  <2>3. rows \in [DOMAIN tx.aside -> Row]
    BY DEF Row
  <2> QED
    BY <2>2, <2>3, TableIntro
<1>2. rows = Upgrade!Moved(disk.rows)
  <2>1. disk.rows \in Tables
    BY <1>0, DatabaseFields
  <2>2. ASSUME NEW r \in DOMAIN disk.rows
        PROVE  Upgrade!Moved(disk.rows)[r] = [experiment |-> "legacy", fingerprint |-> FALSE]
    <3>1. disk.rows[r] \in Row
      BY <2>1, TableFacts
    <3>2. disk.rows[r].experiment = NULL /\ ~disk.rows[r].fingerprint
      BY <1>0 DEF DiskInv, ShapeOK
    <3>3. Upgrade!Moved(disk.rows)[r] = [disk.rows[r] EXCEPT !.experiment = "legacy"]
      BY <3>2 DEF Upgrade!Moved, Upgrade!PreProvenance
    <3> QED
      BY <3>1, <3>2, <3>3 DEF Row
  <2> QED
    BY <2>2, <1>0 DEF Upgrade!Moved
<1> HIDE DEF rows
<1>3. /\ new \in Databases /\ new.rows = rows /\ new.results = tx.results
      /\ new.archive = tx.archive /\ new.columns = tx.columns /\ new.version = tx.version
  BY <1>0, <1>1 DEF Databases
<1>4. tx' = new
  BY DEF rows
<1> HIDE DEF new
<1>5. TypeOK'
  BY <1>3, <1>4 DEF TypeOK, Labels
<1>6. VersionInv' /\ FoundInv' /\ ArchiveInv' /\ FinishInv'
  BY DEF OpenInv, VersionInv, FoundInv, ArchiveInv, FinishInv, Outside, Finishing, Archiving
<1>7. TxInv'
  BY <1>0, <1>2, <1>3, <1>4 DEF TxInv, Outside, Autocommitted, Widening, SameArchive
<1> QED
  BY <1>5, <1>6, <1>7 DEF OpenInv

LEMMA DropKeeps ==
  ASSUME IInv, DropAside
  PROVE  TypeOK' /\ OpenInv'
<1> USE DEF IInv, DropAside, Goto, Write
<1> DEFINE new == [tx EXCEPT !.aside = NoRows]
<1>0. /\ tx \in Databases /\ SameArchive(tx) /\ tx.version = disk.version
      /\ tx.results = "wide" /\ tx.rows = Upgrade!Moved(disk.rows)
      /\ disk.results = "legacy"
  BY DEF OpenInv, TxInv, Widening
<1>1. NoRows \in Tables
  BY DEF NoRows, Tables
<1>2. /\ new \in Databases /\ new.rows = tx.rows /\ new.results = tx.results
      /\ new.archive = tx.archive /\ new.columns = tx.columns /\ new.version = tx.version
  BY <1>0, <1>1 DEF Databases
<1>3. tx' = new
  OBVIOUS
<1> HIDE DEF new
<1>5. TypeOK'
  BY <1>2, <1>3 DEF TypeOK, Labels
<1>6. VersionInv' /\ FoundInv' /\ ArchiveInv' /\ FinishInv'
  BY DEF OpenInv, VersionInv, FoundInv, ArchiveInv, FinishInv, Outside, Finishing, Archiving
<1>7. TxInv'
  BY <1>0, <1>2, <1>3 DEF TxInv, Outside, Autocommitted, Widening, SameArchive
<1> QED
  BY <1>5, <1>6, <1>7 DEF OpenInv

LEMMA RekeyKeeps ==
  ASSUME IInv, Rekey
  PROVE  TypeOK' /\ OpenInv'
<1> USE DEF IInv, Rekey, Goto, Write
<1> DEFINE new == [disk EXCEPT !.rows = Rekeyed(disk.rows)]
<1>0. disk \in Databases /\ disk.results = "wide" /\ disk.rows \in Tables
  <2>1. disk.version \in {3, 4}
    BY DEF OpenInv, VersionInv, Outside
  <2> QED
    BY <2>1, DatabaseFields DEF TypeOK, DiskInv, StampOK
<1>1. Rekeyed(disk.rows) = Upgrade!Moved(disk.rows)
  <2>1. \A r \in DOMAIN disk.rows : disk.rows[r].experiment \in {"", "legacy"}
    BY <1>0 DEF DiskInv, ShapeOK
  <2>2. \A r \in DOMAIN disk.rows : disk.rows[r].experiment # NULL
    BY <2>1, NameAssumption
  <2> QED
    BY <1>0, <2>2, RekeyedIsMoved
<1>2. Upgrade!Moved(disk.rows) \in Tables
  BY <1>0, MovedFacts
<1>3. /\ new \in Databases /\ new.rows = Upgrade!Moved(disk.rows)
      /\ new.results = disk.results /\ new.archive = disk.archive
      /\ new.columns = disk.columns /\ new.version = disk.version
  BY <1>0, <1>1, <1>2 DEF Databases
<1>4. tx' = new
  OBVIOUS
<1> HIDE DEF new
<1>5. TypeOK'
  BY <1>3, <1>4 DEF TypeOK, Labels
<1>6. VersionInv' /\ FoundInv' /\ ArchiveInv' /\ FinishInv'
  BY DEF OpenInv, VersionInv, FoundInv, ArchiveInv, FinishInv, Outside, Finishing, Archiving
<1>7. TxInv'
  BY <1>0, <1>3, <1>4 DEF TxInv, Outside, Autocommitted, Widening, SameArchive
<1> QED
  BY <1>5, <1>6, <1>7 DEF OpenInv

LEMMA RefusingKeeps ==
  ASSUME IInv, RekeyCollides \/ TransactionFails \/ Stop
  PROVE  TypeOK' /\ OpenInv'
<1> USE DEF IInv, RekeyCollides, TransactionFails, Stop, Goto, Rollback
<1>1. TypeOK'
  BY DEF TypeOK, Labels
<1>2. pc' \in {"refused", "idle"} /\ tx' = NoTx
  OBVIOUS
<1>3. FoundInv'
  BY DEF OpenInv, FoundInv
<1>4. VersionInv' /\ TxInv' /\ ArchiveInv' /\ FinishInv'
  BY <1>2 DEF VersionInv, TxInv, ArchiveInv, FinishInv, Outside, Widening, Finishing, Archiving
<1> QED
  BY <1>1, <1>3, <1>4 DEF OpenInv

LEMMA BackfillKeeps ==
  ASSUME IInv, Backfill
  PROVE  TypeOK' /\ OpenInv'
<1> USE DEF IInv, Backfill, Goto, Write
<1> DEFINE new == [disk EXCEPT !.archive = Upgrade!Ranked(disk.archive)]
<1>0. /\ disk \in Databases /\ disk.archive \in Seq(Archived)
      /\ disk.columns = Columns /\ tx = NoTx
  BY DatabaseFields DEF TypeOK, OpenInv, ArchiveInv, TxInv, Autocommitted, Archiving
<1>3. Upgrade!Ranked(disk.archive) \in Seq(Archived)
  BY <1>0, RankedIsOrdered
<1>4. /\ new \in Databases /\ new.archive = Upgrade!Ranked(disk.archive)
      /\ new.rows = disk.rows /\ new.results = disk.results
      /\ new.columns = disk.columns /\ new.version = disk.version
  BY <1>0, <1>3 DEF Databases
<1> HIDE DEF new
<1>5. tx' = new \/ (tx' = NoTx /\ Upgrade!Ranked(disk.archive) = disk.archive)
  BY <1>0, RankedStays DEF new, Unstamped
<1>6. TypeOK'
  BY <1>4, <1>5 DEF TypeOK, Labels
<1>7. VersionInv' /\ FoundInv' /\ TxInv' /\ ArchiveInv'
  BY OriginStays DEF OpenInv, VersionInv, FoundInv, TxInv, ArchiveInv, Outside, Autocommitted,
                     Widening, Archiving, Finishing
<1>8. FinishInv'
  <2>1. CASE tx' = new
    <3>1. Current' = new /\ disk' = disk /\ pc' = "create"
      BY <2>1, <1>4, NoTxAssumption DEF Current
    <3> QED
      BY <3>1, <1>0, <1>4 DEF FinishInv
  <2>2. CASE tx' = NoTx /\ Upgrade!Ranked(disk.archive) = disk.archive
    <3>1. Current' = disk /\ disk' = disk /\ pc' = "create"
      BY <2>2 DEF Current
    <3> QED
      BY <3>1, <2>2, <1>0 DEF FinishInv
  <2> QED
    BY <1>5, <2>1, <2>2
<1> QED
  BY <1>6, <1>7, <1>8 DEF OpenInv

LEMMA StampKeeps ==
  ASSUME IInv, Stamp
  PROVE  TypeOK' /\ OpenInv'
<1> USE DEF IInv, Stamp, Goto, Write
<1> DEFINE new == [Current EXCEPT !.version = Version]
<1>0. Current \in Databases
  BY DEF TypeOK, Current
<1>1. /\ Current.results = disk.results /\ Current.rows = disk.rows
      /\ Current.columns = Columns
      /\ Current.archive = Upgrade!Ranked(disk.archive) /\ Current.attempts = "ours"
  BY DEF OpenInv, FinishInv, Finishing
<1>2. /\ new \in Databases /\ new.archive = Current.archive /\ new.version = Version
      /\ new.rows = Current.rows /\ new.results = Current.results
      /\ new.columns = Current.columns /\ new.attempts = Current.attempts
  BY <1>0 DEF Databases, Version
<1>3. tx' = new
  OBVIOUS
<1> HIDE DEF new
<1>4. Current' = new /\ new # NoTx
  BY <1>2, <1>3, NoTxAssumption DEF Current
<1>5. TypeOK'
  BY <1>2, <1>3 DEF TypeOK, Labels
<1>6. VersionInv' /\ FoundInv' /\ TxInv' /\ ArchiveInv'
  BY OriginStays DEF OpenInv, VersionInv, FoundInv, TxInv, ArchiveInv, Outside, Autocommitted,
                     Widening, Archiving, Finishing
<1>7. FinishInv'
  <2>1. disk' = disk
    OBVIOUS
  <2> QED
    BY <2>1, <1>1, <1>2, <1>3, <1>4 DEF FinishInv
<1> QED
  BY <1>5, <1>6, <1>7 DEF OpenInv

-----------------------------------------------------------------------------
\* The statements that commit.  Until the stamp the version is an old one.
LEMMA OpeningIsBehind ==
  ASSUME IInv, pc \notin Outside
  PROVE  /\ disk \in Databases /\ disk.version = sv /\ sv \in {NULL, 3, 4}
         /\ disk.version # Version /\ disk.version = origin.version
         /\ disk.archive = origin.archive
<1>1. disk.version = sv /\ sv \in {NULL, 3, 4}
  BY DEF IInv, OpenInv, VersionInv
<1>2. disk.version # Version
  BY <1>1, NullAssumption DEF Version
<1> QED
  BY <1>1, <1>2 DEF IInv, TypeOK, DiskInv, OriginKept

\* A statement that leaves rows, archive and version alone.
LEMMA ShapeChange ==
  ASSUME IInv, disk.version # Version, UNCHANGED origin,
         disk'.rows = disk.rows, disk'.archive = disk.archive,
         disk'.version = disk.version,
         disk.results \in {"wide", "lookalike"}, disk'.results = disk.results,
         "row" \in disk'.columns
  PROVE  DiskInv' /\ Progress
<1>1. ShapeOK(disk)'
  BY OriginStays DEF IInv, DiskInv, ShapeOK, Split
<1>2. StampOK(disk)'
  BY DEF IInv, DiskInv, StampOK
<1>3. RowsKept(disk)' /\ OriginKept(disk)' /\ OriginOK'
  BY OriginStays DEF IInv, DiskInv, RowsKept, OriginKept, OriginOK, Distinct, Trusted
<1> QED
  BY <1>1, <1>2, <1>3 DEF DiskInv, Progress

LEMMA CreateResultsKeeps ==
  ASSUME IInv, CreateResults
  PROVE  TypeOK' /\ DiskInv' /\ OpenInv' /\ Progress
<1> USE DEF CreateResults, Goto, Change
<1> DEFINE new == [disk EXCEPT !.results = "wide"]
<1>0. tx = NoTx /\ disk' = new /\ tx' = tx /\ disk.rows = NoRows
  BY DEF IInv, OpenInv, TxInv, Autocommitted, DiskInv, ShapeOK
<1>1. disk \in Databases /\ disk.version # Version /\ disk.version = sv /\ sv \in {NULL, 3, 4}
  BY OpeningIsBehind DEF Outside
<1>2. /\ new \in Databases /\ new.rows = disk.rows /\ new.archive = disk.archive
      /\ new.version = disk.version /\ new.results = "wide"
      /\ new.columns = disk.columns /\ new.attempts = disk.attempts
  BY <1>1 DEF Databases
<1> HIDE DEF new
<1>3. TypeOK'
  BY <1>0, <1>2 DEF IInv, TypeOK, Labels
<1>4. sv = NULL
  BY <1>1 DEF IInv, DiskInv, StampOK, Version
<1>5. DiskInv'
  <2>1. DOMAIN disk'.rows = {}
    BY <1>0, <1>2 DEF NoRows
  <2>2. ShapeOK(disk)'
    BY <2>1, <1>0, <1>2 DEF ShapeOK, Split
  <2>3. StampOK(disk)'
    BY <1>0, <1>1, <1>2 DEF IInv, DiskInv, StampOK
  <2>4. RowsKept(disk)'
    BY <1>0, <1>2, OriginStays DEF IInv, DiskInv, RowsKept
  <2>5. ~Trusted
    BY DEF IInv, DiskInv, OriginKept, Trusted
  <2>6. OriginKept(disk)' /\ OriginOK'
    BY <2>5, <1>0, <1>1, <1>2, OriginStays DEF IInv, DiskInv, OriginKept, OriginOK, Distinct, Trusted
  <2> QED
    BY <2>2, <2>3, <2>4, <2>6 DEF DiskInv
<1>6. VersionInv' /\ FoundInv' /\ TxInv' /\ FinishInv'
  BY <1>0, <1>1, <1>2, <1>4
     DEF VersionInv, FoundInv, TxInv, FinishInv, Outside, Widening, Finishing
<1>7. ArchiveInv'
  BY <1>0, <1>2 DEF ArchiveInv, Archiving, Finishing
<1>8. Progress
  BY <1>0, <1>1, <1>2 DEF Progress
<1> QED
  BY <1>3, <1>5, <1>6, <1>7, <1>8 DEF OpenInv

\* Both transactions over the rows end with the same move.
LEMMA CommitRowsKeeps ==
  ASSUME IInv, CommitWidened \/ CommitRekeyed
  PROVE  /\ TypeOK' /\ DiskInv' /\ OpenInv' /\ Progress
         /\ disk'.rows = Upgrade!Moved(disk.rows) /\ disk'.archive = disk.archive
         /\ disk'.version = disk.version /\ disk.version # Version /\ ~Trusted
<1> USE DEF CommitWidened, CommitRekeyed, Goto, Commit
<1>0. /\ tx \in Databases /\ SameArchive(tx) /\ tx.version = disk.version
      /\ tx.results = "wide" /\ tx.rows = Upgrade!Moved(disk.rows)
      /\ disk' = tx /\ tx' = NoTx
      /\ disk.results \in {"legacy", "wide"}
      /\ disk.results = "wide" => sv # NULL
  BY DEF IInv, OpenInv, TxInv, Widening
<1>1. /\ disk \in Databases /\ disk.version = sv /\ sv \in {NULL, 3, 4}
      /\ disk.version # Version /\ disk.version = origin.version
      /\ disk.archive = origin.archive
  BY OpeningIsBehind DEF Outside
<1>2. disk.rows \in Tables
  BY <1>1, DatabaseFields
<1>10. ~Trusted
  BY <1>0, <1>1 DEF IInv, DiskInv, OriginKept, Trusted
<1>3. TypeOK'
  BY <1>0 DEF IInv, TypeOK, Labels
<1>4. Split(tx.rows)
  BY <1>0, <1>2, MovedFacts
<1>5. DiskInv'
  <2>1. ShapeOK(tx)
    <3>1. ASSUME NEW r \in DOMAIN tx.rows
          PROVE  /\ tx.rows[r].experiment \in {"", "legacy"}
                 /\ tx.rows[r].experiment = "legacy" => ~tx.rows[r].fingerprint
      <4>1. /\ r \in DOMAIN disk.rows
            /\ tx.rows[r].fingerprint = disk.rows[r].fingerprint
            /\ tx.rows[r].experiment =
                 IF Upgrade!PreProvenance(disk.rows[r]) THEN "legacy"
                 ELSE disk.rows[r].experiment
        BY <1>0, <1>2, MovedFacts
      <4>2. CASE disk.results = "legacy"
        BY <4>1, <4>2 DEF IInv, DiskInv, ShapeOK, Upgrade!PreProvenance
      <4>3. CASE disk.results = "wide"
        BY <4>1, <4>3 DEF IInv, DiskInv, ShapeOK, Upgrade!PreProvenance
      <4> QED
        BY <1>0, <4>2, <4>3
    <3> QED
      BY <1>0, <1>4, <3>1 DEF ShapeOK
  <2>2. StampOK(tx)
    BY <1>0, <1>1 DEF IInv, DiskInv, StampOK, SameArchive
  <2>3. RowsKept(tx)
    <3>1. \A r \in DOMAIN tx.rows : tx.rows[r].experiment # NULL
      BY <2>1, <1>0, NameAssumption DEF ShapeOK
    <3>2. tx.rows \in Tables
      BY <1>0, <1>2, MovedFacts
    <3>3. Upgrade!Moved(tx.rows) = tx.rows
      BY <3>1, <3>2, <1>4, MovedStays
    <3>4. Upgrade!Moved(disk.rows) = Upgrade!Moved(origin.rows)
      BY <1>10 DEF IInv, DiskInv, RowsKept
    <3>5. /\ DOMAIN tx.rows = DOMAIN origin.rows
          /\ \A r \in DOMAIN tx.rows : tx.rows[r].fingerprint = origin.rows[r].fingerprint
      BY <1>0, <1>2, MovedFacts DEF IInv, DiskInv, RowsKept
    <3> QED
      BY <3>3, <3>4, <3>5, <1>0, <1>10 DEF RowsKept
  <2>4. OriginKept(tx)
    <3>1. origin.results # "lookalike"
      BY <1>0 DEF IInv, DiskInv, OriginKept
    <3> QED
      BY <3>1, <1>0, <1>1, <1>10 DEF OriginKept, SameArchive
  <2>5. UNCHANGED origin /\ OriginOK
    BY DEF IInv, DiskInv
  <2>6. ShapeOK(disk)' /\ StampOK(disk)'
    BY <2>1, <2>2, <2>5, <1>0, OriginStays DEF ShapeOK, StampOK, Split
  <2>7. RowsKept(disk)' /\ OriginKept(disk)' /\ OriginOK'
    BY <2>3, <2>4, <2>5, <1>0, OriginStays DEF RowsKept, OriginKept, OriginOK, Distinct, Trusted
  <2> QED
    BY <2>6, <2>7 DEF DiskInv
<1>6. VersionInv' /\ TxInv' /\ FinishInv'
  BY <1>0, <1>1 DEF VersionInv, TxInv, FinishInv, Outside, Widening, Finishing
<1>7. FoundInv'
  <2>1. CASE CommitWidened
    <3>1. sv = NULL
      BY <2>1, <1>1 DEF IInv, OpenInv, TxInv, Widening, DiskInv, ShapeOK
    <3> QED
      BY <3>1, <2>1 DEF FoundInv
  <2>2. CASE CommitRekeyed
    BY <2>2 DEF FoundInv
  <2> QED
    BY <2>1, <2>2
<1>8. ArchiveInv'
  BY <1>0, <1>4, OriginStays DEF ArchiveInv, Archiving, Finishing, Split
<1>9. Progress
  BY <1>0, <1>1, <1>4 DEF Progress, Split
<1> QED
  BY <1>0, <1>1, <1>3, <1>5, <1>6, <1>7, <1>8, <1>9, <1>10 DEF OpenInv, SameArchive

LEMMA ColumnsKeep ==
  ASSUME IInv, CreateArchive \/ AddDisplacedBy \/ AddSeq
  PROVE  /\ TypeOK' /\ DiskInv' /\ OpenInv' /\ Progress
         /\ disk'.rows = disk.rows /\ disk'.archive = disk.archive
         /\ disk'.version = disk.version
<1> USE DEF CreateArchive, AddDisplacedBy, AddSeq, Goto, Change
<1> DEFINE new(columns) == [disk EXCEPT !.columns = columns]
<1>0. tx = NoTx /\ tx' = tx /\ disk.results \in {"wide", "lookalike"}
  BY DEF IInv, OpenInv, TxInv, Autocommitted, ArchiveInv, Archiving
<1>1. disk \in Databases /\ disk.version # Version /\ disk.version = sv /\ sv \in {NULL, 3, 4}
  BY OpeningIsBehind DEF Outside
<1>2. disk.columns \in SUBSET Columns
  BY <1>1, DatabaseFields
<1>3. PICK columns \in SUBSET Columns :
        /\ disk' = new(columns)
        /\ "row" \in columns
        /\ pc = "displaced_by" => "displaced_by" \in columns
        /\ pc = "seq" => columns = Columns
  <2>1. CASE CreateArchive
    <3>1. CASE disk.columns = {}
      BY <2>1, <3>1, <1>0 DEF Columns, OldColumns
    <3>2. CASE disk.columns # {}
      <4>1. "row" \in disk.columns
        BY <3>2 DEF IInv, DiskInv, StampOK
      <4>2. disk = [disk EXCEPT !.columns = disk.columns]
        BY <1>1 DEF Databases
      <4> QED
        BY <2>1, <3>2, <4>1, <4>2, <1>0, <1>2
    <3> QED
      BY <3>1, <3>2
  <2>2. CASE AddDisplacedBy
    <3>1. disk.columns \cup {"displaced_by"} \in SUBSET Columns /\ "row" \in disk.columns
      BY <2>2, <1>2 DEF Columns, IInv, OpenInv, ArchiveInv
    <3> QED
      BY <2>2, <3>1, <1>0
  <2>3. CASE AddSeq
    <3>1. disk.columns \cup {"seq"} = Columns
      BY <2>3, <1>2 DEF Columns, OldColumns, IInv, OpenInv, ArchiveInv
    <3> QED
      BY <2>3, <3>1, <1>0 DEF Columns, OldColumns
  <2> QED
    BY <2>1, <2>2, <2>3
<1>4. /\ disk' \in Databases /\ disk'.rows = disk.rows /\ disk'.archive = disk.archive
      /\ disk'.version = disk.version /\ disk'.results = disk.results
      /\ disk'.columns = columns
  BY <1>1, <1>3 DEF Databases
<1> HIDE DEF new
<1>5. TypeOK'
  BY <1>4, <1>0 DEF IInv, TypeOK, Labels
<1>6. DiskInv' /\ Progress
  BY <1>0, <1>1, <1>3, <1>4, ShapeChange
<1>7. VersionInv' /\ FoundInv' /\ TxInv' /\ FinishInv'
  BY <1>0, <1>1, <1>4
     DEF VersionInv, FoundInv, TxInv, FinishInv, Outside, Widening, Finishing
<1>8. ArchiveInv'
  <2>1. Trusted \/ (Split(disk.rows) /\ disk.results = "wide")
    BY DEF IInv, OpenInv, ArchiveInv, Archiving
  <2>2. Split(disk.rows) => Split(disk'.rows)
    BY <1>4 DEF Split
  <2> QED
    BY <2>1, <2>2, <1>0, <1>3, <1>4, OriginStays DEF ArchiveInv, Finishing
<1> QED
  BY <1>4, <1>5, <1>6, <1>7, <1>8 DEF OpenInv

LEMMA CreateAttemptsKeeps ==
  ASSUME IInv, CreateAttempts
  PROVE  /\ TypeOK' /\ DiskInv' /\ OpenInv' /\ Progress
         /\ disk'.rows = disk.rows /\ disk'.archive = disk.archive
         /\ disk'.version = disk.version
<1> USE DEF CreateAttempts, Goto, Change
<1> DEFINE new == [Current EXCEPT !.attempts = "ours"]
<1>0. /\ Current.results = disk.results /\ Current.rows = disk.rows /\ Current.columns = Columns
      /\ Current.archive = Upgrade!Ranked(disk.archive) /\ Current.version = disk.version
  BY DEF IInv, OpenInv, FinishInv, Finishing
<1>1. /\ disk \in Databases /\ disk.version = sv /\ sv \in {NULL, 3, 4}
      /\ disk.version # Version
  BY OpeningIsBehind DEF Outside
<1>2. /\ disk.results \in {"wide", "lookalike"} /\ disk.columns = Columns
      /\ Trusted \/ (Split(disk.rows) /\ disk.results = "wide")
  BY DEF IInv, OpenInv, ArchiveInv, Archiving, Finishing
<1>3. Current \in Databases
  BY DEF IInv, TypeOK, Current
<1>4. /\ new \in Databases /\ new.archive = Current.archive /\ new.version = Current.version
      /\ new.rows = Current.rows /\ new.results = Current.results
      /\ new.columns = Current.columns /\ new.attempts = "ours"
  BY <1>3 DEF Databases
<1> HIDE DEF new
<1>5. CASE tx = NoTx
  <2>1. disk' = new /\ tx' = NoTx /\ Current = disk
    BY <1>5 DEF new, Current
  <2>2. TypeOK'
    BY <2>1, <1>4 DEF IInv, TypeOK, Labels
  <2>3. DiskInv' /\ Progress
    BY <2>1, <1>1, <1>2, <1>4, ShapeChange DEF Columns, OldColumns
  <2>4. VersionInv' /\ FoundInv' /\ TxInv' /\ ArchiveInv'
    BY <2>1, <1>1, <1>2, <1>4, OriginStays
       DEF VersionInv, FoundInv, TxInv, ArchiveInv, Outside, Widening, Archiving, Finishing, Split
  <2>5. FinishInv'
    <3>1. Current' = new /\ pc' = "stamp"
      BY <2>1 DEF Current
    <3> QED
      BY <3>1, <2>1, <1>0, <1>4 DEF FinishInv
  <2> QED
    BY <2>1, <2>2, <2>3, <2>4, <2>5, <1>4 DEF OpenInv
<1>6. CASE tx # NoTx
  <2>1. disk' = disk /\ tx' = new /\ new # NoTx
    BY <1>4, <1>6, NoTxAssumption DEF new
  <2>2. TypeOK'
    BY <2>1, <1>4 DEF IInv, TypeOK, Labels
  <2>3. DiskInv' /\ Progress
    BY <2>1, DiskKept DEF IInv
  <2>4. VersionInv' /\ FoundInv' /\ TxInv' /\ ArchiveInv'
    BY <2>1, <1>1, <1>2, OriginStays
       DEF VersionInv, FoundInv, TxInv, ArchiveInv, Outside, Autocommitted, Widening, Archiving,
           Finishing, Split
  <2>5. FinishInv'
    <3>1. Current' = new /\ pc' = "stamp"
      BY <2>1 DEF Current
    <3> QED
      BY <3>1, <2>1, <1>0, <1>4 DEF FinishInv
  <2> QED
    BY <2>1, <2>2, <2>3, <2>4, <2>5 DEF OpenInv
<1> QED
  BY <1>5, <1>6

LEMMA CommitStampKeeps ==
  ASSUME IInv, CommitStamp
  PROVE  /\ TypeOK' /\ DiskInv' /\ OpenInv' /\ Progress
         /\ disk'.rows = disk.rows
         /\ Trusted \/ disk.rows = Upgrade!Moved(disk.rows)
         /\ disk'.archive = Upgrade!Ranked(disk.archive)
         /\ disk'.version = Version /\ disk.version # Version
<1> USE DEF CommitStamp, Goto, Commit
<1>0. /\ tx # NoTx /\ tx.results = disk.results /\ tx.rows = disk.rows
      /\ tx.columns = Columns
      /\ tx.archive = Upgrade!Ranked(disk.archive) /\ tx.version = Version
      /\ tx.attempts = "ours" /\ disk' = tx /\ tx' = NoTx
  BY DEF IInv, OpenInv, FinishInv, Finishing, Current
<1>1. /\ disk \in Databases /\ tx \in Databases /\ disk.version # Version
      /\ disk.archive = origin.archive
  BY <1>0, OpeningIsBehind DEF Outside, IInv, TypeOK
<1>2. /\ disk.results \in {"wide", "lookalike"}
      /\ Trusted \/ (Split(disk.rows) /\ disk.results = "wide")
  BY DEF IInv, OpenInv, ArchiveInv, Archiving, Finishing
<1>3. disk.rows \in Tables
  BY <1>1, DatabaseFields
<1>4. UNCHANGED origin
  OBVIOUS
<1>5. TypeOK'
  BY <1>0, <1>1 DEF IInv, TypeOK, Labels
<1>6. DiskInv'
  <2>1. ShapeOK(tx)
    BY <1>0, <1>2 DEF IInv, DiskInv, ShapeOK, Split
  <2>2. StampOK(tx)
    BY <1>0, <1>2 DEF StampOK, Columns, OldColumns, Version
  <2>3. RowsKept(tx)
    BY <1>0 DEF IInv, DiskInv, RowsKept
  <2>4. OriginKept(tx)
    BY <1>0, <1>1 DEF IInv, DiskInv, OriginKept
  <2>5. ShapeOK(disk)' /\ StampOK(disk)'
    BY <2>1, <2>2, <1>0, <1>4, OriginStays DEF ShapeOK, StampOK, Split
  <2>6. RowsKept(disk)' /\ OriginKept(disk)' /\ OriginOK'
    BY <2>3, <2>4, <1>0, <1>4, OriginStays DEF RowsKept, OriginKept, OriginOK, Distinct, Trusted, IInv, DiskInv
  <2> QED
    BY <2>5, <2>6 DEF DiskInv
<1>7. OpenInv'
  BY <1>0 DEF OpenInv, VersionInv, FoundInv, TxInv, ArchiveInv, FinishInv, Outside, Widening,
              Archiving, Finishing
<1>8. Progress
  BY <1>0, <1>1 DEF Progress, Split
<1>9. Trusted \/ disk.rows = Upgrade!Moved(disk.rows)
  <2>1. disk.results = "wide" => \A r \in DOMAIN disk.rows : disk.rows[r].experiment # NULL
    BY NameAssumption DEF IInv, DiskInv, ShapeOK
  <2> QED
    BY <2>1, <1>2, <1>3, MovedStays
<1> QED
  BY <1>0, <1>1, <1>5, <1>6, <1>7, <1>8, <1>9

-----------------------------------------------------------------------------
LEMMA ReadingKeeps ==
  ASSUME IInv, UNCHANGED <<disk, tx, pc, sv, stops, found, origin>>
  PROVE  TypeOK' /\ DiskInv' /\ OpenInv'
<1>1. TypeOK'
  BY DEF IInv, TypeOK
<1>2. DiskInv'
  BY DiskKept DEF IInv
<1>3. VersionInv' /\ FoundInv' /\ TxInv'
  BY DEF IInv, OpenInv, VersionInv, FoundInv, TxInv, SameArchive
<1>4. ArchiveInv'
  BY OriginStays DEF IInv, OpenInv, ArchiveInv, Split
<1>5. FinishInv'
  BY DEF IInv, OpenInv, FinishInv, Current
<1> QED
  BY <1>1, <1>2, <1>3, <1>4, <1>5 DEF OpenInv

\* The label a row is printed under says whether its origin is known.
LEMMA LabelsAreTrue ==
  ASSUME IInv, reader.pc = "rows", NEW r \in DOMAIN disk.rows
  PROVE  Label(Shown(disk.rows[r])) = Told(origin.rows[r])
<1>1. /\ r \in DOMAIN origin.rows
      /\ disk.rows[r].fingerprint = origin.rows[r].fingerprint
      /\ Trusted => disk.rows = origin.rows
      /\ disk.rows[r].fingerprint \in BOOLEAN
  BY DatabaseFields, TableFacts DEF IInv, DiskInv, RowsKept, TypeOK
<1>2. CASE reader.shape \in {"legacy", "foreign"}
  <2>1. /\ Shown(disk.rows[r]) = "legacy" /\ ~origin.rows[r].fingerprint
        /\ ~Trusted
    BY <1>1, <1>2 DEF Shown, IInv, ReaderInv, ColumnsInv
  <2> QED
    BY <2>1 DEF Label, Told
<1>3. CASE reader.shape = "lookalike"
  <2>1. Shown(disk.rows[r]) = IF disk.rows[r].fingerprint THEN "" ELSE "legacy"
    BY <1>3 DEF Shown
  <2>2. origin.results = "lookalike"
    BY <1>3 DEF IInv, ReaderInv, ColumnsInv
  <2> QED
    BY <2>1, <2>2, <1>1 DEF Label, Told
<1>4. CASE reader.shape = "wide"
  <2>1. /\ disk.results = "wide"
        /\ disk.rows[r].experiment \in {"", "legacy"}
        /\ disk.rows[r].experiment = "legacy" => ~disk.rows[r].fingerprint
    BY <1>4 DEF IInv, ReaderInv, ColumnsInv, DiskInv, ShapeOK
  <2>2. /\ ~reader.pre_split => Split(disk.rows) \/ Trusted
        /\ reader.pre_split => ~Trusted
    BY <1>4 DEF IInv, ReaderInv, SplitInv
  <2>3. Shown(disk.rows[r]) =
          IF reader.pre_split /\ disk.rows[r].experiment = "" /\ ~disk.rows[r].fingerprint
          THEN "legacy" ELSE disk.rows[r].experiment
    BY <1>4 DEF Shown
  <2>4. CASE Trusted
    <3>1. origin.results = "wide"
      BY <2>1, <2>4 DEF IInv, DiskInv, OriginKept
    <3> QED
      BY <3>1, <2>2, <2>3, <2>4, <1>1 DEF Told
  <2>5. CASE ~Trusted
    <3>1. Shown(disk.rows[r]) = IF ~origin.rows[r].fingerprint THEN "legacy" ELSE ""
      BY <1>1, <2>1, <2>2, <2>3, <2>5 DEF Split
    <3> QED
      BY <3>1, <2>5 DEF Label, Told
  <2> QED
    BY <2>4, <2>5
<1> QED
  BY <1>2, <1>3, <1>4 DEF IInv, ReaderInv, ColumnsInv

LEMMA ReportKeeps ==
  ASSUME IInv, ReadColumns \/ ReadVersion \/ ReadRows
  PROVE  ReaderInv'
<1>0. UNCHANGED <<disk, origin>>
  BY DEF ReadColumns, ReadVersion, ReadRows, Reads
<1> USE DEF IInv, ReaderInv, ReaderShape, ColumnsInv, SplitInv, ListedInv
<1>9. ReportTellsOriginsApart' <=>
        (reader'.pc = "reported" =>
           reader'.labels = [r \in DOMAIN origin.rows |-> Told(origin.rows[r])])
  BY <1>0, OriginStays DEF ReportTellsOriginsApart, Told, Trusted, Label
<1>10. Trusted' <=> Trusted
  BY <1>0, OriginStays
<1>1. CASE ReadColumns
  <2>1. disk.results \in {"none", "legacy", "foreign", "lookalike", "wide"}
    BY DatabaseFields DEF TypeOK
  <2>2. disk.results \in {"legacy", "foreign"} =>
          ~Trusted /\ \A r \in DOMAIN origin.rows : ~origin.rows[r].fingerprint
    BY DEF DiskInv, ShapeOK, RowsKept, OriginKept, Trusted
  <2>3. disk.results = "lookalike" => origin.results = "lookalike"
    BY DEF DiskInv, OriginKept
  <2>4. CASE reader' = [reader EXCEPT !.pc = "refused"]
    BY <2>4, <1>0, <1>9
  <2>5. CASE disk.results # "none" /\ reader' = [reader EXCEPT !.pc = "version",
                                                               !.shape = disk.results]
    <3>1. /\ reader'.pc = "version" /\ reader'.shape = disk.results
          /\ reader'.pre_split = reader.pre_split /\ DOMAIN reader' = DOMAIN reader
      BY <2>5
    <3> QED
      BY <3>1, <2>1, <2>2, <2>3, <2>5, <1>0, <1>9, <1>10
  <2> QED
    BY <1>1, <2>4, <2>5 DEF ReadColumns, Reads
<1>2. CASE ReadVersion
  <2> DEFINE early == disk.version \in Nat /\ disk.version < 4
  <2>1. reader.pc = "version" /\ reader' = [reader EXCEPT !.pc = "rows", !.pre_split = early]
    BY <1>2 DEF ReadVersion, Reads
  <2>2. disk.results = "wide" /\ ~early => Split(disk.rows) \/ Trusted
    <3>1. disk.results = "wide" /\ disk.version # 3 => Split(disk.rows) \/ Trusted
      BY DEF DiskInv, ShapeOK
    <3>2. ~early => disk.version # 3
      OBVIOUS
    <3> QED
      BY <3>1, <3>2
  <2>3. early \in BOOLEAN
    OBVIOUS
  <2>4. early => ~Trusted
    <3>1. early => disk.version # NULL /\ disk.version # Version
      BY NullAssumption DEF Version
    <3> QED
      BY <3>1 DEF DiskInv, OriginKept, Trusted
  <2> HIDE DEF early
  <2>5. /\ reader'.pc = "rows" /\ reader'.shape = reader.shape
        /\ reader'.pre_split = early /\ DOMAIN reader' = DOMAIN reader
    BY <2>1
  <2>6. Split(disk.rows)' <=> Split(disk.rows)
    BY <1>0 DEF Split
  <2> QED
    BY <2>1, <2>2, <2>3, <2>4, <2>5, <2>6, <1>0, <1>9, <1>10
<1>3. CASE ReadRows
  <2> DEFINE labels == [r \in DOMAIN disk.rows |-> Label(Shown(disk.rows[r]))]
  <2>1. reader.pc = "rows" /\ reader' = [reader EXCEPT !.pc = "reported", !.labels = labels]
    BY <1>3 DEF ReadRows, Reads
  <2>2. labels = [r \in DOMAIN origin.rows |-> Told(origin.rows[r])]
    BY <2>1, LabelsAreTrue DEF DiskInv, RowsKept
  <2> HIDE DEF labels
  <2>3. /\ reader'.pc = "reported" /\ reader'.labels = labels
        /\ reader'.pre_split = reader.pre_split /\ DOMAIN reader' = DOMAIN reader
    BY <2>1
  <2> QED
    BY <2>2, <2>3, <1>0, <1>9
<1> QED
  BY <1>1, <1>2, <1>3

LEMMA ListingKeeps ==
  ASSUME IInv, ReadArchiveColumns \/ ReadArchive
  PROVE  ReaderInv'
<1>0. UNCHANGED <<disk, origin>>
  BY DEF ReadArchiveColumns, ReadArchive, Reads
<1>9. reader'.pc # "reported" => ReportTellsOriginsApart'
  BY DEF ReportTellsOriginsApart
<1>1. CASE ReadArchiveColumns
  <2>1. PICK next \in {"refused", "archive"} : reader' = [reader EXCEPT !.pc = next]
    BY <1>1 DEF ReadArchiveColumns, Reads
  <2> QED
    BY <2>1, <1>0, <1>9 DEF IInv, ReaderInv, ReaderShape, ColumnsInv, SplitInv, ListedInv
<1>2. CASE ReadArchive
  <2>1. PICK order \in [DOMAIN disk.archive -> DOMAIN disk.archive] :
          /\ Descending(order)
          /\ reader' = [reader EXCEPT !.pc = "listed", !.order = order,
                                      !.stamped = disk.version = Version]
    BY <1>2 DEF ReadArchive, Reads
  <2>2. /\ reader'.pc = "listed" /\ reader'.order = order
        /\ reader'.stamped = (disk.version = Version)
        /\ reader'.shape = reader.shape /\ reader'.pre_split = reader.pre_split
        /\ DOMAIN reader' = DOMAIN reader
    BY <2>1 DEF IInv, ReaderInv, ReaderShape
  <2>3. ListedInv'
    <3>1. Descending(reader.order)'
      BY <2>1, <2>2, <1>0 DEF Descending, Place
    <3> QED
      BY <3>1, <2>1, <2>2, <1>0 DEF ListedInv
  <2> QED
    BY <2>2, <2>3, <1>0, <1>9 DEF IInv, ReaderInv, ReaderShape, ColumnsInv, SplitInv
<1> QED
  BY <1>1, <1>2

-----------------------------------------------------------------------------
LEMMA ListedFacts ==
  ASSUME NEW kinds \in SUBSET Row, NEW rows \in Listed(kinds)
  PROVE  rows \in Tables /\ \A r \in DOMAIN rows : rows[r] \in kinds
<1>1. PICK some \in SUBSET Rows : rows \in [some -> kinds]
  BY DEF Listed
<1>2. rows \in [some -> Row]
  BY <1>1
<1> QED
  BY <1>1, <1>2, TableIntro

LEMMA FilledFacts ==
  ASSUME NEW kinds \in SUBSET Row, NEW rows \in Filled(kinds)
  PROVE  rows \in Tables /\ \A r \in DOMAIN rows : rows[r] \in kinds
<1>1. rows \in Listed(kinds)
  BY DEF Filled
<1> QED
  BY <1>1, ListedFacts

\* An archive as it is kept: no number twice.
Kept(old) == old \in Seq(Archived) /\ Distinct(old)

LEMMA HistoryFacts ==
  ASSUME NEW seqs \in SUBSET (Nat \cup {NULL}), NEW old \in History(seqs)
  PROVE  Kept(old) /\ \A i \in DOMAIN old : old[i].seq \in seqs
<1>1. PICK n \in 0..MaxArchive : old \in [1..n -> [at : Times, seq : seqs]]
  BY DEF History
<1>2. n \in Nat
  BY <1>1, BoundsAssumption
<1>3. ASSUME NEW i \in 1..n PROVE old[i] \in Archived /\ old[i].seq \in seqs
  BY <1>1 DEF Archived
<1>4. Distinct(old)
  BY DEF History, Distinct
<1> QED
  BY <1>1, <1>2, <1>3, <1>4 DEF Kept

LEMMA NumberFacts == Numbers \in SUBSET Nat /\ NULL \notin Numbers
  BY BoundsAssumption, NullAssumption DEF Numbers

LEMMA KindFacts ==
  /\ Kind(NULL, FALSE) \in Row /\ Kind(NULL, TRUE) \in Row /\ Kind("", TRUE) \in Row
  /\ Kind("", FALSE) \in Row /\ Kind("legacy", FALSE) \in Row
  BY DEF Kind, Row

LEMMA KindFields ==
  /\ Kind(NULL, FALSE).experiment = NULL /\ ~Kind(NULL, FALSE).fingerprint
  /\ Kind("", TRUE).experiment = "" /\ Kind("", TRUE).fingerprint
  /\ Kind("", FALSE).experiment = "" /\ ~Kind("", FALSE).fingerprint
  /\ Kind("legacy", FALSE).experiment = "legacy" /\ ~Kind("legacy", FALSE).fingerprint
  BY DEF Kind

\* What is found before any opening.
LEMMA FoundIsSound ==
  ASSUME Init
  PROVE  /\ disk \in Databases /\ ShapeOK(disk) /\ StampOK(disk) /\ Kept(disk.archive)
         /\ disk.version = Version => \A i \in DOMAIN disk.archive : disk.archive[i].seq # NULL
         /\ disk.results = "lookalike" => disk.version = NULL
<1>0. NoRows \in Tables /\ DOMAIN NoRows = {} /\ <<>> \in Seq(Archived)
  BY DEF NoRows, Tables
<1>1. Kept(<<>>) /\ DOMAIN <<>> = {}
  BY DEF Kept, Distinct
<1>2. /\ OldColumns \in SUBSET Columns /\ "row" \in OldColumns /\ {} \in SUBSET Columns
      /\ "row" \in Columns
  BY DEF Columns, OldColumns
<1>3. /\ origin = disk /\ NULL # Version /\ NULL # 3 /\ NULL # 4
      /\ Unreadable \notin Int \cup {NULL}
  BY NullAssumption DEF Init, Version
<1>4. CASE disk \in PreProvenanceDbs
  <2> DEFINE kinds == {Kind(NULL, FALSE)}
             seqs == {NULL}
  <2>1. disk \in [results : {"legacy", "foreign"}, rows : Filled(kinds), aside : {NoRows},
                 columns : {{}}, archive : {<<>>},
                 attempts : {"none", "foreign"}, version : {NULL}]
    BY <1>4, <1>1 DEF PreProvenanceDbs
  <2>2. kinds \in SUBSET Row /\ seqs \in SUBSET (Nat \cup {NULL})
    BY KindFacts, NumberFacts
  <2>3. disk.rows \in Tables /\ \A r \in DOMAIN disk.rows : disk.rows[r] \in kinds
    <3> HIDE DEF kinds
    <3> QED
      BY <2>1, <2>2, ListedFacts, FilledFacts
  <2>4. Kept(disk.archive) /\ \A i \in DOMAIN disk.archive : disk.archive[i].seq \in seqs
    <3> HIDE DEF seqs
    <3>1. disk.archive \in {<<>>}
      BY <2>1
    <3> QED
      BY <3>1, <2>2, <1>1, HistoryFacts
  <2>5. /\ disk.results \in {"legacy", "foreign"} /\ disk.aside = NoRows /\ disk.columns \in {{}}
        /\ disk.attempts \in {"none", "foreign"} /\ disk.version \in {NULL}
        /\ disk = [results |-> disk.results, rows |-> disk.rows, aside |-> disk.aside,
                  columns |-> disk.columns, archive |-> disk.archive,
                  attempts |-> disk.attempts, version |-> disk.version]
    <3> HIDE DEF kinds, seqs
    <3> QED
      BY <2>1
  <2>6. disk \in Databases
    <3> HIDE DEF kinds, seqs
    <3>1. /\ disk.results \in {"none", "legacy", "foreign", "lookalike", "wide"}
          /\ disk.aside \in Tables /\ disk.columns \in SUBSET Columns
          /\ disk.attempts \in {"none", "ours", "foreign"}
          /\ disk.version \in Nat \cup {NULL, Unreadable}
      BY <2>5, <1>0, <1>2 DEF Version
    <3> QED
      BY <3>1, <2>3, <2>4, <2>5 DEF Databases, Kept
  <2>7. ShapeOK(disk)
    <3>1. \A r \in DOMAIN disk.rows :
            disk.rows[r].experiment = NULL /\ ~disk.rows[r].fingerprint
      BY <2>3, KindFields
    <3> HIDE DEF kinds, seqs
    <3> QED
      BY <3>1, <2>5, <1>3 DEF ShapeOK, Split, Trusted, Version
  <2>8. StampOK(disk)
    <3> HIDE DEF kinds, seqs
    <3> QED
      BY <2>5, <1>2, <1>3 DEF StampOK, Version
  <2>9. disk.version = Version => \A i \in DOMAIN disk.archive : disk.archive[i].seq # NULL
    <3> HIDE DEF kinds, seqs
    <3> QED
      BY <2>5, <1>3 DEF Version
  <2>10. disk.results = "lookalike" => disk.version = NULL
    <3> HIDE DEF kinds, seqs
    <3> QED
      BY <2>5
  <2> QED
    BY <2>4, <2>6, <2>7, <2>8, <2>9, <2>10
<1>5. CASE disk \in PreSplitDbs
  <2> DEFINE kinds == {Kind("", TRUE), Kind("", FALSE), Kind("legacy", FALSE)}
             seqs == {NULL}
  <2>1. disk \in [results : {"wide"}, rows : Filled(kinds), aside : {NoRows},
                 columns : {{}, OldColumns}, archive : History(seqs),
                 attempts : {"none"}, version : {3}]
    BY <1>5, <1>1 DEF PreSplitDbs
  <2>2. kinds \in SUBSET Row /\ seqs \in SUBSET (Nat \cup {NULL})
    BY KindFacts, NumberFacts
  <2>3. disk.rows \in Tables /\ \A r \in DOMAIN disk.rows : disk.rows[r] \in kinds
    <3> HIDE DEF kinds
    <3> QED
      BY <2>1, <2>2, ListedFacts, FilledFacts
  <2>4. Kept(disk.archive) /\ \A i \in DOMAIN disk.archive : disk.archive[i].seq \in seqs
    <3> HIDE DEF seqs
    <3>1. disk.archive \in History(seqs)
      BY <2>1
    <3> QED
      BY <3>1, <2>2, <1>1, HistoryFacts
  <2>5. /\ disk.results \in {"wide"} /\ disk.aside = NoRows /\ disk.columns \in {{}, OldColumns}
        /\ disk.attempts \in {"none"} /\ disk.version \in {3}
        /\ disk = [results |-> disk.results, rows |-> disk.rows, aside |-> disk.aside,
                  columns |-> disk.columns, archive |-> disk.archive,
                  attempts |-> disk.attempts, version |-> disk.version]
    <3> HIDE DEF kinds, seqs
    <3> QED
      BY <2>1
  <2>6. disk \in Databases
    <3> HIDE DEF kinds, seqs
    <3>1. /\ disk.results \in {"none", "legacy", "foreign", "lookalike", "wide"}
          /\ disk.aside \in Tables /\ disk.columns \in SUBSET Columns
          /\ disk.attempts \in {"none", "ours", "foreign"}
          /\ disk.version \in Nat \cup {NULL, Unreadable}
      BY <2>5, <1>0, <1>2 DEF Version
    <3> QED
      BY <3>1, <2>3, <2>4, <2>5 DEF Databases, Kept
  <2>7. ShapeOK(disk)
    <3>1. \A r \in DOMAIN disk.rows :
            /\ disk.rows[r].experiment \in {"", "legacy"}
            /\ disk.rows[r].experiment = "legacy" => ~disk.rows[r].fingerprint
      BY <2>3, KindFields
    <3> HIDE DEF kinds, seqs
    <3> QED
      BY <3>1, <2>5, <1>3 DEF ShapeOK, Split, Trusted, Version
  <2>8. StampOK(disk)
    <3> HIDE DEF kinds, seqs
    <3> QED
      BY <2>5, <1>2, <1>3 DEF StampOK, Version
  <2>9. disk.version = Version => \A i \in DOMAIN disk.archive : disk.archive[i].seq # NULL
    <3> HIDE DEF kinds, seqs
    <3> QED
      BY <2>5, <1>3 DEF Version
  <2>10. disk.results = "lookalike" => disk.version = NULL
    <3> HIDE DEF kinds, seqs
    <3> QED
      BY <2>5
  <2> QED
    BY <2>4, <2>6, <2>7, <2>8, <2>9, <2>10
<1>6. CASE disk \in SplitDbs
  <2> DEFINE kinds == {Kind("", TRUE), Kind("legacy", FALSE)}
             seqs == {NULL}
  <2>1. disk \in [results : {"wide"}, rows : Filled(kinds), aside : {NoRows},
                 columns : {OldColumns}, archive : History(seqs),
                 attempts : {"ours"}, version : {4}]
    BY <1>6, <1>1 DEF SplitDbs
  <2>2. kinds \in SUBSET Row /\ seqs \in SUBSET (Nat \cup {NULL})
    BY KindFacts, NumberFacts
  <2>3. disk.rows \in Tables /\ \A r \in DOMAIN disk.rows : disk.rows[r] \in kinds
    <3> HIDE DEF kinds
    <3> QED
      BY <2>1, <2>2, ListedFacts, FilledFacts
  <2>4. Kept(disk.archive) /\ \A i \in DOMAIN disk.archive : disk.archive[i].seq \in seqs
    <3> HIDE DEF seqs
    <3>1. disk.archive \in History(seqs)
      BY <2>1
    <3> QED
      BY <3>1, <2>2, <1>1, HistoryFacts
  <2>5. /\ disk.results \in {"wide"} /\ disk.aside = NoRows /\ disk.columns \in {OldColumns}
        /\ disk.attempts \in {"ours"} /\ disk.version \in {4}
        /\ disk = [results |-> disk.results, rows |-> disk.rows, aside |-> disk.aside,
                  columns |-> disk.columns, archive |-> disk.archive,
                  attempts |-> disk.attempts, version |-> disk.version]
    <3> HIDE DEF kinds, seqs
    <3> QED
      BY <2>1
  <2>6. disk \in Databases
    <3> HIDE DEF kinds, seqs
    <3>1. /\ disk.results \in {"none", "legacy", "foreign", "lookalike", "wide"}
          /\ disk.aside \in Tables /\ disk.columns \in SUBSET Columns
          /\ disk.attempts \in {"none", "ours", "foreign"}
          /\ disk.version \in Nat \cup {NULL, Unreadable}
      BY <2>5, <1>0, <1>2 DEF Version
    <3> QED
      BY <3>1, <2>3, <2>4, <2>5 DEF Databases, Kept
  <2>7. ShapeOK(disk)
    <3>1. \A r \in DOMAIN disk.rows :
            /\ disk.rows[r].experiment \in {"", "legacy"}
            /\ disk.rows[r].experiment = "legacy" => ~disk.rows[r].fingerprint
            /\ disk.rows[r].experiment = "" => disk.rows[r].fingerprint
      BY <2>3, KindFields
    <3> HIDE DEF kinds, seqs
    <3> QED
      BY <3>1, <2>5, <1>3 DEF ShapeOK, Split, Trusted, Version
  <2>8. StampOK(disk)
    <3> HIDE DEF kinds, seqs
    <3> QED
      BY <2>5, <1>2, <1>3 DEF StampOK, Version
  <2>9. disk.version = Version => \A i \in DOMAIN disk.archive : disk.archive[i].seq # NULL
    <3> HIDE DEF kinds, seqs
    <3> QED
      BY <2>5, <1>3 DEF Version
  <2>10. disk.results = "lookalike" => disk.version = NULL
    <3> HIDE DEF kinds, seqs
    <3> QED
      BY <2>5
  <2> QED
    BY <2>4, <2>6, <2>7, <2>8, <2>9, <2>10
<1>7. CASE disk \in UnstampedDbs
  <2> DEFINE kinds == {Kind("", TRUE), Kind("", FALSE), Kind("legacy", FALSE)}
             seqs == {NULL}
  <2>1. disk \in [results : {"wide"}, rows : Filled(kinds), aside : {NoRows},
                 columns : {{}, OldColumns}, archive : {<<>>},
                 attempts : {"none"}, version : {NULL}]
    BY <1>7, <1>1 DEF UnstampedDbs
  <2>2. kinds \in SUBSET Row /\ seqs \in SUBSET (Nat \cup {NULL})
    BY KindFacts, NumberFacts
  <2>3. disk.rows \in Tables /\ \A r \in DOMAIN disk.rows : disk.rows[r] \in kinds
    <3> HIDE DEF kinds
    <3> QED
      BY <2>1, <2>2, ListedFacts, FilledFacts
  <2>4. Kept(disk.archive) /\ \A i \in DOMAIN disk.archive : disk.archive[i].seq \in seqs
    <3> HIDE DEF seqs
    <3>1. disk.archive \in {<<>>}
      BY <2>1
    <3> QED
      BY <3>1, <2>2, <1>1, HistoryFacts
  <2>5. /\ disk.results \in {"wide"} /\ disk.aside = NoRows /\ disk.columns \in {{}, OldColumns}
        /\ disk.attempts \in {"none"} /\ disk.version \in {NULL}
        /\ disk = [results |-> disk.results, rows |-> disk.rows, aside |-> disk.aside,
                  columns |-> disk.columns, archive |-> disk.archive,
                  attempts |-> disk.attempts, version |-> disk.version]
    <3> HIDE DEF kinds, seqs
    <3> QED
      BY <2>1
  <2>6. disk \in Databases
    <3> HIDE DEF kinds, seqs
    <3>1. /\ disk.results \in {"none", "legacy", "foreign", "lookalike", "wide"}
          /\ disk.aside \in Tables /\ disk.columns \in SUBSET Columns
          /\ disk.attempts \in {"none", "ours", "foreign"}
          /\ disk.version \in Nat \cup {NULL, Unreadable}
      BY <2>5, <1>0, <1>2 DEF Version
    <3> QED
      BY <3>1, <2>3, <2>4, <2>5 DEF Databases, Kept
  <2>7. ShapeOK(disk)
    <3>1. \A r \in DOMAIN disk.rows :
            /\ disk.rows[r].experiment \in {"", "legacy"}
            /\ disk.rows[r].experiment = "legacy" => ~disk.rows[r].fingerprint
      BY <2>3, KindFields
    <3> HIDE DEF kinds, seqs
    <3> QED
      BY <3>1, <2>5, <1>3 DEF ShapeOK, Split, Trusted, Version
  <2>8. StampOK(disk)
    <3> HIDE DEF kinds, seqs
    <3> QED
      BY <2>5, <1>2, <1>3 DEF StampOK, Version
  <2>9. disk.version = Version => \A i \in DOMAIN disk.archive : disk.archive[i].seq # NULL
    <3> HIDE DEF kinds, seqs
    <3> QED
      BY <2>5, <1>3 DEF Version
  <2>10. disk.results = "lookalike" => disk.version = NULL
    <3> HIDE DEF kinds, seqs
    <3> QED
      BY <2>5
  <2> QED
    BY <2>4, <2>6, <2>7, <2>8, <2>9, <2>10
<1>8. CASE disk \in LookalikeDbs
  <2> DEFINE kinds == {Kind(NULL, TRUE), Kind(NULL, FALSE)}
             seqs == {NULL}
  <2>1. disk \in [results : {"lookalike"}, rows : Listed(kinds), aside : {NoRows},
                 columns : {{}}, archive : {<<>>},
                 attempts : {"none", "foreign"}, version : {NULL}]
    BY <1>8, <1>1 DEF LookalikeDbs
  <2>2. kinds \in SUBSET Row /\ seqs \in SUBSET (Nat \cup {NULL})
    BY KindFacts, NumberFacts
  <2>3. disk.rows \in Tables /\ \A r \in DOMAIN disk.rows : disk.rows[r] \in kinds
    <3> HIDE DEF kinds
    <3> QED
      BY <2>1, <2>2, ListedFacts, FilledFacts
  <2>4. Kept(disk.archive) /\ \A i \in DOMAIN disk.archive : disk.archive[i].seq \in seqs
    <3> HIDE DEF seqs
    <3>1. disk.archive \in {<<>>}
      BY <2>1
    <3> QED
      BY <3>1, <2>2, <1>1, HistoryFacts
  <2>5. /\ disk.results \in {"lookalike"} /\ disk.aside = NoRows /\ disk.columns \in {{}}
        /\ disk.attempts \in {"none", "foreign"} /\ disk.version \in {NULL}
        /\ disk = [results |-> disk.results, rows |-> disk.rows, aside |-> disk.aside,
                  columns |-> disk.columns, archive |-> disk.archive,
                  attempts |-> disk.attempts, version |-> disk.version]
    <3> HIDE DEF kinds, seqs
    <3> QED
      BY <2>1
  <2>6. disk \in Databases
    <3> HIDE DEF kinds, seqs
    <3>1. /\ disk.results \in {"none", "legacy", "foreign", "lookalike", "wide"}
          /\ disk.aside \in Tables /\ disk.columns \in SUBSET Columns
          /\ disk.attempts \in {"none", "ours", "foreign"}
          /\ disk.version \in Nat \cup {NULL, Unreadable}
      BY <2>5, <1>0, <1>2 DEF Version
    <3> QED
      BY <3>1, <2>3, <2>4, <2>5 DEF Databases, Kept
  <2>7. ShapeOK(disk)
    <3>1. TRUE
      BY <2>3, KindFields
    <3> HIDE DEF kinds, seqs
    <3> QED
      BY <3>1, <2>5, <1>3 DEF ShapeOK, Split, Trusted, Version
  <2>8. StampOK(disk)
    <3> HIDE DEF kinds, seqs
    <3> QED
      BY <2>5, <1>2, <1>3 DEF StampOK, Version
  <2>9. disk.version = Version => \A i \in DOMAIN disk.archive : disk.archive[i].seq # NULL
    <3> HIDE DEF kinds, seqs
    <3> QED
      BY <2>5, <1>3 DEF Version
  <2>10. disk.results = "lookalike" => disk.version = NULL
    <3> HIDE DEF kinds, seqs
    <3> QED
      BY <2>5
  <2> QED
    BY <2>4, <2>6, <2>7, <2>8, <2>9, <2>10
<1>9. CASE disk \in HalfNumberedDbs
  <2> DEFINE kinds == {Kind("", TRUE)}
             seqs == Numbers \cup {NULL}
  <2>1. disk \in [results : {"wide"}, rows : Filled(kinds), aside : {NoRows},
                 columns : {Columns}, archive : History(seqs),
                 attempts : {"ours"}, version : {NULL, 4}]
    BY <1>9, <1>1 DEF HalfNumberedDbs
  <2>2. kinds \in SUBSET Row /\ seqs \in SUBSET (Nat \cup {NULL})
    BY KindFacts, NumberFacts
  <2>3. disk.rows \in Tables /\ \A r \in DOMAIN disk.rows : disk.rows[r] \in kinds
    <3> HIDE DEF kinds
    <3> QED
      BY <2>1, <2>2, ListedFacts, FilledFacts
  <2>4. Kept(disk.archive) /\ \A i \in DOMAIN disk.archive : disk.archive[i].seq \in seqs
    <3> HIDE DEF seqs
    <3>1. disk.archive \in History(seqs)
      BY <2>1
    <3> QED
      BY <3>1, <2>2, <1>1, HistoryFacts
  <2>5. /\ disk.results \in {"wide"} /\ disk.aside = NoRows /\ disk.columns \in {Columns}
        /\ disk.attempts \in {"ours"} /\ disk.version \in {NULL, 4}
        /\ disk = [results |-> disk.results, rows |-> disk.rows, aside |-> disk.aside,
                  columns |-> disk.columns, archive |-> disk.archive,
                  attempts |-> disk.attempts, version |-> disk.version]
    <3> HIDE DEF kinds, seqs
    <3> QED
      BY <2>1
  <2>6. disk \in Databases
    <3> HIDE DEF kinds, seqs
    <3>1. /\ disk.results \in {"none", "legacy", "foreign", "lookalike", "wide"}
          /\ disk.aside \in Tables /\ disk.columns \in SUBSET Columns
          /\ disk.attempts \in {"none", "ours", "foreign"}
          /\ disk.version \in Nat \cup {NULL, Unreadable}
      BY <2>5, <1>0, <1>2 DEF Version
    <3> QED
      BY <3>1, <2>3, <2>4, <2>5 DEF Databases, Kept
  <2>7. ShapeOK(disk)
    <3>1. \A r \in DOMAIN disk.rows :
            /\ disk.rows[r].experiment \in {"", "legacy"}
            /\ disk.rows[r].experiment = "legacy" => ~disk.rows[r].fingerprint
            /\ disk.rows[r].experiment = "" => disk.rows[r].fingerprint
      BY <2>3, KindFields
    <3> HIDE DEF kinds, seqs
    <3> QED
      BY <3>1, <2>5, <1>3 DEF ShapeOK, Split, Trusted, Version
  <2>8. StampOK(disk)
    <3> HIDE DEF kinds, seqs
    <3> QED
      BY <2>5, <1>2, <1>3 DEF StampOK, Version
  <2>9. disk.version = Version => \A i \in DOMAIN disk.archive : disk.archive[i].seq # NULL
    <3> HIDE DEF kinds, seqs
    <3> QED
      BY <2>5, <1>3 DEF Version
  <2>10. disk.results = "lookalike" => disk.version = NULL
    <3> HIDE DEF kinds, seqs
    <3> QED
      BY <2>5
  <2> QED
    BY <2>4, <2>6, <2>7, <2>8, <2>9, <2>10
<1>10. CASE disk \in CurrentDbs
  <2> DEFINE kinds == {Kind("", TRUE), Kind("legacy", FALSE)}
             seqs == Numbers
  <2>1. disk \in [results : {"wide"}, rows : Filled(kinds), aside : {NoRows},
                 columns : {Columns}, archive : History(seqs),
                 attempts : {"ours"}, version : {Version}]
    BY <1>10, <1>1 DEF CurrentDbs
  <2>2. kinds \in SUBSET Row /\ seqs \in SUBSET (Nat \cup {NULL})
    BY KindFacts, NumberFacts
  <2>3. disk.rows \in Tables /\ \A r \in DOMAIN disk.rows : disk.rows[r] \in kinds
    <3> HIDE DEF kinds
    <3> QED
      BY <2>1, <2>2, ListedFacts, FilledFacts
  <2>4. Kept(disk.archive) /\ \A i \in DOMAIN disk.archive : disk.archive[i].seq \in seqs
    <3> HIDE DEF seqs
    <3>1. disk.archive \in History(seqs)
      BY <2>1
    <3> QED
      BY <3>1, <2>2, <1>1, HistoryFacts
  <2>5. /\ disk.results \in {"wide"} /\ disk.aside = NoRows /\ disk.columns \in {Columns}
        /\ disk.attempts \in {"ours"} /\ disk.version \in {Version}
        /\ disk = [results |-> disk.results, rows |-> disk.rows, aside |-> disk.aside,
                  columns |-> disk.columns, archive |-> disk.archive,
                  attempts |-> disk.attempts, version |-> disk.version]
    <3> HIDE DEF kinds, seqs
    <3> QED
      BY <2>1
  <2>6. disk \in Databases
    <3> HIDE DEF kinds, seqs
    <3>1. /\ disk.results \in {"none", "legacy", "foreign", "lookalike", "wide"}
          /\ disk.aside \in Tables /\ disk.columns \in SUBSET Columns
          /\ disk.attempts \in {"none", "ours", "foreign"}
          /\ disk.version \in Nat \cup {NULL, Unreadable}
      BY <2>5, <1>0, <1>2 DEF Version
    <3> QED
      BY <3>1, <2>3, <2>4, <2>5 DEF Databases, Kept
  <2>7. ShapeOK(disk)
    <3>1. \A r \in DOMAIN disk.rows :
            /\ disk.rows[r].experiment \in {"", "legacy"}
            /\ disk.rows[r].experiment = "legacy" => ~disk.rows[r].fingerprint
            /\ disk.rows[r].experiment = "" => disk.rows[r].fingerprint
      BY <2>3, KindFields
    <3> HIDE DEF kinds, seqs
    <3> QED
      BY <3>1, <2>5, <1>3 DEF ShapeOK, Split, Trusted, Version
  <2>8. StampOK(disk)
    <3> HIDE DEF kinds, seqs
    <3> QED
      BY <2>5, <1>2, <1>3 DEF StampOK, Version
  <2>9. disk.version = Version => \A i \in DOMAIN disk.archive : disk.archive[i].seq # NULL
    BY <2>4, NumberFacts
  <2>10. disk.results = "lookalike" => disk.version = NULL
    <3> HIDE DEF kinds, seqs
    <3> QED
      BY <2>5
  <2> QED
    BY <2>4, <2>6, <2>7, <2>8, <2>9, <2>10
<1>11. CASE disk \in OtherDbs
  <2>1. /\ disk \in Databases /\ disk.results = "none" /\ disk.rows = NoRows
        /\ disk.columns = {} /\ disk.archive = <<>>
        /\ disk.version \in {NULL, Unreadable, Version + 1}
    <3>1. PICK attempts \in {"none", "foreign"}, version \in {NULL, Unreadable, Version + 1} :
            disk = [results |-> "none", rows |-> NoRows, aside |-> NoRows, columns |-> {},
                    archive |-> <<>>, attempts |-> attempts, version |-> version]
      BY <1>11 DEF OtherDbs, Empty
    <3> QED
      BY <3>1, <1>0 DEF Databases, Version
  <2>2. ShapeOK(disk) /\ StampOK(disk)
    BY <2>1, <1>3 DEF ShapeOK, StampOK, Version
  <2> QED
    BY <2>1, <2>2, <1>1
<1> QED
  BY <1>4, <1>5, <1>6, <1>7, <1>8, <1>9, <1>10, <1>11 DEF Init

-----------------------------------------------------------------------------
LEMMA InitInv ==
  ASSUME Init
  PROVE  IInv
<1>1. /\ disk \in Databases /\ ShapeOK(disk) /\ StampOK(disk) /\ Kept(disk.archive)
      /\ disk.version = Version => \A i \in DOMAIN disk.archive : disk.archive[i].seq # NULL
      /\ disk.results = "lookalike" => disk.version = NULL
  BY FoundIsSound
<1>2. DiskInv
  <2>1. origin = disk
    BY DEF Init
  <2>2. disk.version = Version => Upgrade!Ranked(disk.archive) = disk.archive
    BY <1>1, RankedStays DEF Kept, Upgrade!Unstamped
  <2> QED
    BY <1>1, <2>1, <2>2 DEF DiskInv, RowsKept, OriginKept, OriginOK, Trusted, Kept
<1>3. TypeOK
  BY <1>1, DatabaseFields DEF Init, TypeOK, Labels
<1>4. OpenInv
  BY DEF Init, OpenInv, VersionInv, FoundInv, TxInv, ArchiveInv, FinishInv, Outside, Widening,
         Archiving, Finishing
<1>5. ReaderInv
  BY DEF Init, ReaderInv, ReaderShape, ColumnsInv, SplitInv, ListedInv, ReportTellsOriginsApart
<1> QED
  BY <1>2, <1>3, <1>4, <1>5 DEF IInv

\* What a step does to the committed rows, archive and stamp.
Upgrades ==
  \/ disk'.rows = disk.rows /\ disk'.archive = disk.archive /\ disk'.version = disk.version
  \/ /\ disk.version # Version /\ disk'.version = disk.version /\ ~Trusted
     /\ disk'.rows = Upgrade!Moved(disk.rows) /\ disk'.archive = disk.archive
  \/ /\ disk.version # Version /\ disk'.version = Version
     /\ Trusted \/ disk.rows = Upgrade!Moved(disk.rows)
     /\ disk'.rows = disk.rows /\ disk'.archive = Upgrade!Ranked(disk.archive)

\* The steps of an opening that leave the disk alone, and those that do not.
Private ==
  \/ Open \/ CheckAttempts \/ KeepResults \/ RefuseResults
  \/ Widen \/ CopyRows \/ DropAside
  \/ NothingToRekey \/ Rekey \/ RekeyCollides \/ Backfill \/ Stamp \/ TransactionFails \/ Stop
Public ==
  \/ CreateResults \/ CommitWidened \/ CommitRekeyed
  \/ CreateArchive \/ AddDisplacedBy \/ AddSeq \/ CreateAttempts \/ CommitStamp

LEMMA PrivateKeeps ==
  ASSUME IInv, Private
  PROVE  IInv' /\ Upgrades
<1>1. UNCHANGED <<disk, origin, reader>>
  BY DEF Private, Open, CheckAttempts, KeepResults, RefuseResults, Widen, CopyRows, DropAside,
         NothingToRekey, Rekey, RekeyCollides, Backfill, Stamp, TransactionFails, Stop,
         Goto, Write, Rollback
<1>2. TypeOK' /\ OpenInv'
  BY OpenKeeps, CheckKeeps, WidenKeeps, CopyKeeps, DropKeeps, RekeyKeeps, RefusingKeeps,
     BackfillKeeps, StampKeeps DEF Private
<1>3. DiskInv' /\ Progress
  BY <1>1, DiskKept DEF IInv
<1>4. ReaderInv'
  BY <1>1, <1>3, ReaderKept DEF IInv
<1> QED
  BY <1>1, <1>2, <1>3, <1>4 DEF IInv, Upgrades

LEMMA PublicKeeps ==
  ASSUME IInv, Public
  PROVE  IInv' /\ Upgrades
<1>1. UNCHANGED <<origin, reader>>
  BY DEF Public, CreateResults, CommitWidened, CommitRekeyed, CreateArchive, AddDisplacedBy,
         AddSeq, CreateAttempts, CommitStamp, Goto
<1>2. TypeOK' /\ DiskInv' /\ OpenInv' /\ Progress
  BY CreateResultsKeeps, CommitRowsKeeps, ColumnsKeep, CreateAttemptsKeeps, CommitStampKeeps
     DEF Public
<1>3. ReaderInv'
  BY <1>1, <1>2, ReaderKept DEF IInv
<1>4. Upgrades
  <2>1. CASE CreateResults
    <3>1. tx = NoTx /\ disk \in Databases
      BY <2>1 DEF IInv, TypeOK, OpenInv, TxInv, Autocommitted, CreateResults, Goto
    <3> QED
      BY <2>1, <3>1 DEF CreateResults, Change, Databases, Upgrades
  <2>2. CASE CommitWidened \/ CommitRekeyed
    BY <2>2, CommitRowsKeeps DEF Upgrades
  <2>3. CASE CreateArchive \/ AddDisplacedBy \/ AddSeq
    BY <2>3, ColumnsKeep DEF Upgrades
  <2>4. CASE CreateAttempts
    BY <2>4, CreateAttemptsKeeps DEF Upgrades
  <2>5. CASE CommitStamp
    BY <2>5, CommitStampKeeps DEF Upgrades
  <2> QED
    BY <2>1, <2>2, <2>3, <2>4, <2>5 DEF Public
<1> QED
  BY <1>2, <1>3, <1>4 DEF IInv

LEMMA StepInv ==
  ASSUME IInv, [Next]_vars
  PROVE  IInv' /\ Upgrades
<1>1. CASE ReadStep
  <2>1. UNCHANGED <<disk, tx, pc, sv, stops, found, origin>>
    BY <1>1 DEF ReadStep, ReadColumns, ReadVersion, ReadRows, ReadArchiveColumns, ReadArchive,
                Reads
  <2> QED
    BY <1>1, <2>1, ReadingKeeps, ReportKeeps, ListingKeeps DEF ReadStep, IInv, Upgrades
<1>2. CASE UNCHANGED vars
  <2>1. UNCHANGED <<disk, tx, pc, sv, stops, found, origin>>
    BY <1>2 DEF vars
  <2>2. Progress
    BY <2>1 DEF Progress, Split
  <2>3. ReaderInv'
    BY <1>2, <2>2, ReaderKept DEF vars, IInv
  <2> QED
    BY <2>1, <2>3, ReadingKeeps DEF IInv, Upgrades
<1> QED
  BY <1>1, <1>2, PrivateKeeps, PublicKeeps DEF Next, OpenStep, Private, Public

LEMMA Invariance == Spec => []IInv
<1>1. Init => IInv
  BY InitInv
<1>2. IInv /\ [Next]_vars => IInv'
  BY StepInv
<1> QED
  BY <1>1, <1>2, PTL DEF Spec

-----------------------------------------------------------------------------
\* Types.
THEOREM TypeCorrect == Spec => []TypeOK
<1>1. IInv => TypeOK
  BY DEF IInv
<1> QED
  BY <1>1, Invariance, PTL

\* Whatever a stamped database skips is done, on every database earlier versions
\* left and wherever openings were stopped (versioning.py, ensure_schema).
THEOREM StampsAreEarned == Spec => []StampMeansComplete
<1>1. IInv => StampMeansComplete
  <2> SUFFICES ASSUME IInv, disk.version = Version PROVE StampMeansComplete
    BY DEF StampMeansComplete
  <2>1. /\ disk \in Databases /\ disk.results \in {"wide", "lookalike"}
        /\ disk.columns = Columns /\ disk.attempts = "ours"
        /\ disk.results = "lookalike" <=> origin.results = "lookalike"
        /\ disk.archive = Upgrade!Ranked(origin.archive)
    BY DEF IInv, TypeOK, DiskInv, StampOK, OriginKept
  <2>2. disk.rows \in Tables /\ origin.archive \in Seq(Archived)
    BY <2>1, DatabaseFields DEF IInv, TypeOK
  <2>3. disk.rows = IF Trusted THEN origin.rows ELSE Upgrade!Moved(origin.rows)
    <3>0. RowsKept(disk) /\ OriginOK /\ ShapeOK(disk)
      BY DEF IInv, DiskInv
    <3>1. CASE Trusted
      BY <3>0, <3>1 DEF RowsKept
    <3>2. CASE ~Trusted
      <4>1. disk.results = "wide"
        BY <2>1, <3>0, <3>2 DEF OriginOK
      <4>2. Split(disk.rows) /\ \A r \in DOMAIN disk.rows : disk.rows[r].experiment # NULL
        <5>1. disk.version # 3
          BY DEF Version
        <5>2. \A r \in DOMAIN disk.rows : disk.rows[r].experiment \in {"", "legacy"}
          BY <3>0, <4>1 DEF ShapeOK
        <5>3. Split(disk.rows)
          BY <3>0, <3>2, <4>1, <5>1 DEF ShapeOK
        <5> QED
          BY <5>2, <5>3, NameAssumption
      <4>3. Upgrade!Moved(disk.rows) = disk.rows
        BY <2>2, <4>2, MovedStays
      <4> QED
        BY <3>0, <3>2, <4>3 DEF RowsKept
    <3> QED
      BY <3>1, <3>2
  <2>4. ASSUME NEW i \in DOMAIN disk.archive, NEW j \in DOMAIN disk.archive
        PROVE  /\ disk.archive[i].seq # NULL
               /\ disk.archive[i].seq = disk.archive[j].seq => i = j
    <3>1. i \in DOMAIN origin.archive /\ j \in DOMAIN origin.archive
      BY <2>1, <2>2, RankedIsOrdered
    <3>2. disk.archive[i].seq \in Nat /\ disk.archive[j].seq \in Nat
      BY <2>1, <2>2, <3>1, RankedIsOrdered
    <3>3. i # j => Earlier(origin.archive, i, j) \/ Earlier(origin.archive, j, i)
      BY <2>2, <3>1, EarlierIsTotal DEF IInv, DiskInv, OriginOK
    <3>4. i # j => disk.archive[i].seq < disk.archive[j].seq \/ disk.archive[j].seq < disk.archive[i].seq
      BY <2>1, <2>2, <3>1, <3>3, RankedIsOrdered
    <3> QED
      BY <3>2, <3>4, NullAssumption
  <2> QED
    BY <2>1, <2>3, <2>4 DEF StampMeansComplete
<1> QED
  BY <1>1, Invariance, PTL

\* A refusal leaves the database as the opening found it.
THEOREM RefusalsAreClean == Spec => []RefusalsTouchNothing
<1>1. IInv => RefusalsTouchNothing
  BY DEF IInv, OpenInv, FoundInv, TxInv, Outside, RefusalsTouchNothing
<1> QED
  BY <1>1, Invariance, PTL

\* Readers tell the rows of unknown origin apart between any two statements.
THEOREM ReportsAreTrue == Spec => []ReportTellsOriginsApart
<1>1. IInv => ReportTellsOriginsApart
  BY DEF IInv, ReaderInv
<1> QED
  BY <1>1, Invariance, PTL

\* The archive of a stamped database is listed in the order of displacement: by
\* the numbers it had, whatever the clock said, and by the clock where it had none.
THEOREM ListingsAreOrdered == Spec => []ArchiveIsListedInOrder
<1>1. IInv => ArchiveIsListedInOrder
  <2> SUFFICES ASSUME IInv, reader.pc = "listed", reader.stamped,
                      NEW i \in DOMAIN reader.order, NEW j \in DOMAIN reader.order, i < j,
                      Earlier(origin.archive, reader.order[i], reader.order[j])
               PROVE  FALSE
    BY DEF ArchiveIsListedInOrder
  <2>1. /\ disk.version = Version
        /\ reader.order \in [DOMAIN disk.archive -> DOMAIN disk.archive]
        /\ Descending(reader.order)
    BY DEF IInv, ReaderInv, ListedInv
  <2>2. disk.archive = Upgrade!Ranked(origin.archive) /\ origin.archive \in Seq(Archived)
    BY <2>1, DatabaseFields DEF IInv, DiskInv, OriginKept, TypeOK
  <2>3. /\ reader.order[i] \in DOMAIN origin.archive
        /\ reader.order[j] \in DOMAIN origin.archive
    BY <2>1, <2>2, RankedIsOrdered
  <2> DEFINE first == disk.archive[reader.order[i]].seq
             second == disk.archive[reader.order[j]].seq
  <2>4. first \in Nat /\ second \in Nat /\ first < second
    BY <2>2, <2>3, RankedIsOrdered
  <2>5. Place(reader.order[i]) = first /\ Place(reader.order[j]) = second
    BY <2>4, NullAssumption DEF Place
  <2>6. Place(reader.order[i]) >= Place(reader.order[j])
    BY <2>1 DEF Descending
  <2> QED
    BY <2>4, <2>5, <2>6
<1> QED
  BY <1>1, Invariance, PTL

\* Statement by statement, stopped anywhere and opened again, the runner does
\* what SchemaUpgrade promises and nothing else.
THEOREM MigrationsUpgrade == Spec => ImplementsUpgrade
<1>1. Init => Upgrade!Init
  BY DEF Upgrade!Init, Trusted
<1>2. Upgrades /\ UNCHANGED origin => [Upgrade!Next]_<<disk.rows, disk.archive, disk.version = Version, ~Trusted>>
  <2> SUFFICES ASSUME Upgrades, UNCHANGED origin
               PROVE  [Upgrade!Next]_<<disk.rows, disk.archive, disk.version = Version, ~Trusted>>
    OBVIOUS
  <2>0. Trusted' <=> Trusted
    BY OriginStays
  <2>1. CASE disk'.rows = disk.rows /\ disk'.archive = disk.archive /\ disk'.version = disk.version
    BY <2>0, <2>1
  <2>2. CASE /\ disk.version # Version /\ disk'.version = disk.version /\ ~Trusted
             /\ disk'.rows = Upgrade!Moved(disk.rows) /\ disk'.archive = disk.archive
    BY <2>0, <2>2 DEF Upgrade!Next, Upgrade!Move
  <2>3. CASE /\ disk.version # Version /\ disk'.version = Version
             /\ Trusted \/ disk.rows = Upgrade!Moved(disk.rows)
             /\ disk'.rows = disk.rows
             /\ disk'.archive = Upgrade!Ranked(disk.archive)
    BY <2>0, <2>3 DEF Upgrade!Next, Upgrade!Finish
  <2> QED
    BY <2>1, <2>2, <2>3 DEF Upgrades
<1>3. IInv /\ [Next]_vars => [Upgrade!Next]_<<disk.rows, disk.archive, disk.version = Version, ~Trusted>>
  <2>1. IInv /\ [Next]_vars => UNCHANGED origin
    BY DEF Next, OpenStep, ReadStep, TransactionFails, Stop, Open, CheckAttempts, CreateResults,
           KeepResults, RefuseResults, Widen, CopyRows, DropAside, CommitWidened, NothingToRekey,
           Rekey, RekeyCollides, CommitRekeyed, CreateArchive, AddDisplacedBy, AddSeq, Backfill,
           CreateAttempts, Stamp, CommitStamp, ReadColumns, ReadVersion, ReadRows,
           ReadArchiveColumns, ReadArchive, Reads, Goto, vars
  <2> QED
    BY <2>1, <1>2, StepInv
<1> QED
  BY <1>1, <1>3, Invariance, PTL DEF Spec, ImplementsUpgrade, Upgrade!Spec
==============================================================================
