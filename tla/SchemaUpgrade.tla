---------------------------- MODULE SchemaUpgrade ----------------------------
(***************************************************************************)
(* What the migrations of a results database promise, whatever is killed   *)
(* while they run: the rows older than provenance change their stratum all *)
(* at once, unless nothing says that this runner wrote them; the archive   *)
(* gets its order and the database its stamp at once, in that sequence;    *)
(* and nothing else ever changes.                                          *)
(***************************************************************************)
EXTENDS Integers, FiniteSets

CONSTANT NULL     \* SQL's NULL, and the experiment of a table without the column

VARIABLES
  table,          \* the rows of `results`: of each its experiment and whether it has a fingerprint
  archive,        \* the rows of `results_superseded` by rowid: when displaced, and seq
  current,        \* the database is stamped with the current version
  asked           \* whether its rows are to be told apart at all; never changes

PreProvenance(row) == ~row.fingerprint /\ row.experiment \in {NULL, ""}

\* The rows with the pre-provenance ones in the stratum of their own.
Moved(rows) ==
  [r \in DOMAIN rows |->
     IF PreProvenance(rows[r]) THEN [rows[r] EXCEPT !.experiment = "legacy"] ELSE rows[r]]

Before(old, i, j) == old[i].at < old[j].at \/ (old[i].at = old[j].at /\ i < j)
Unstamped(old) == {i \in DOMAIN old : old[i].seq = NULL}
Stamps(old) == {old[i].seq : i \in DOMAIN old \ Unstamped(old)}
Base(old) == IF Stamps(old) = {} THEN 0
             ELSE CHOOSE n \in Stamps(old) : \A m \in Stamps(old) : m <= n

\* The archive with a place for every row that had none: after those that have
\* one, in the order the clock and, for a tie, the rowid witness.
Ranked(old) ==
  [i \in DOMAIN old |->
     IF old[i].seq = NULL
     THEN [old[i] EXCEPT !.seq =
             Base(old) + Cardinality({j \in Unstamped(old) : j = i \/ Before(old, j, i)})]
     ELSE old[i]]

Init == current \in BOOLEAN /\ asked \in BOOLEAN

Move ==
  /\ ~current /\ asked
  /\ table' = Moved(table)
  /\ UNCHANGED <<archive, current, asked>>

Finish ==
  /\ ~current
  /\ asked => table = Moved(table)
  /\ archive' = Ranked(archive)
  /\ current' = TRUE
  /\ UNCHANGED <<table, asked>>

Next == Move \/ Finish

Spec == Init /\ [][Next]_<<table, archive, current, asked>>
==============================================================================
