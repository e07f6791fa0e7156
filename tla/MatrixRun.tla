----------------------------- MODULE MatrixRun ------------------------------
(***************************************************************************)
(* runner/matrix.py and runner/lock.py: run_matrix invocations of several  *)
(* processes on one results db.  A run takes the flock, plans every cell,  *)
(* adopts, then begins, runs and finalises one attempt per cell.  It may   *)
(* be killed at any step, any sqlite statement may be refused, run_cell    *)
(* may fork, and something that ignores the lock may delete rows.          *)
(*                                                                         *)
(* db is what is committed.  An open transaction is the connection's own   *)
(* copy, which a commit publishes and a rollback or a death discards.      *)
(***************************************************************************)
EXTENDS Naturals

CONSTANTS
  Runs,           \* run_matrix invocations, each in a process of its own
  Cells,          \* cell ids
  Experiments,    \* canonical experiment identities callers can name
  Legacy,         \* _LEGACY_EXPERIMENT: the pre-provenance stratum
  Fingerprints,   \* fingerprints of the definitions callers pass
  MismatchPolicies, LegacyPolicies,
  MaxForeign,     \* bound: rows deleted by something that ignores the lock
  NoRun, NoRow, NoTx, NULL

\* Why a row was archived.
Reasons == {"mismatch", "legacy", "adopted"}

ASSUME StratumAssumption == Legacy \notin Experiments
ASSUME PolicyAssumption ==
  /\ MismatchPolicies \subseteq {"error", "rerun"}
  /\ LegacyPolicies \subseteq {"error", "rerun", "adopt"}
ASSUME MaxForeignAssumption == MaxForeign \in Nat
ASSUME NobodyAssumption == NoRun \notin Runs /\ NULL \notin Reasons
ASSUME CellsAssumption == Cells # {}

Strata == Experiments \cup {Legacy}
Statuses == {"done", "failed"}

\* A results row.  `attempt` stands for artifact_dir and result_json: whose
\* evidence the row is, 0 for evidence older than the attempts table.
Row == [fingerprint : Fingerprints \cup {NULL}, status : Statuses, attempt : Nat]
Superseded == [experiment : Strata, cell : Cells, row : Row, reason : Reasons,
               displaced_by : Runs, seq : Nat]
Attempt == [attempt_id : Nat, experiment : Experiments, cell : Cells,
            fingerprint : Fingerprints, status : Statuses \cup {"running"}]
Tables == [results : [Strata -> [Cells -> Row \cup {NoRow}]],
           superseded : SUBSET Superseded,
           attempts : SUBSET Attempt]
Call == [experiment : Experiments, fingerprint : [Cells -> Fingerprints],
         on_mismatch : MismatchPolicies, on_legacy : LegacyPolicies]
Step == {s \in [action : {"run", "skip", "adopt"}, archive : Reasons \cup {NULL},
                source : Strata] : s.action = "adopt" <=> s.archive = "adopted"}

\* What stands for an absence is none of the values.
ASSUME AbsenceAssumption ==
  NoTx \notin Tables /\ NoRow \notin Row /\ NULL \notin Fingerprints

Idle == [pc |-> "idle"]
Ended == [pc |-> "ended"]

VARIABLES
  db,             \* the committed tables
  run,            \* each run's locals: pc and, once inside, call, steps, tx,
                  \* cell, attempt_id, status, standin and out
  lock,           \* the run whose descriptor holds the flock
  forked,         \* runs of which a forked child keeps the descriptor
  minted,         \* attempt tokens minted so far
  foreign         \* rows deleted behind the lock's back

vars == <<db, run, lock, forked, minted, foreign>>

At(r, label) == run[r].pc = label
Inside(r) == run[r].pc \notin {"idle", "ended"}

Labels == {"plan", "adopt", "next", "cell", "archive", "insert", "delete",
           "stamp", "commit"}
Locals == [pc : Labels, call : Call, steps : [Cells -> Step],
           tx : Tables \cup {NoTx}, cell : Cells, attempt_id : Nat,
           status : Statuses, standin : BOOLEAN,
           out : [Cells -> Statuses \cup {"skipped", "unreported"}]]

TypeOK ==
  /\ db \in Tables
  /\ run \in [Runs -> Locals \cup {Idle, Ended}]
  /\ lock \in Runs \cup {NoRun}
  /\ forked \subseteq Runs
  /\ minted \in Nat
  /\ foreign \in 0..MaxForeign

\* A db this package has migrated: rows older than provenance carry no
\* fingerprint and live in the Legacy stratum.
Init ==
  /\ \E old \in [Cells -> Statuses \cup {NoRow}] :
       db = [results |-> [x \in Strata |-> [c \in Cells |->
                            IF x = Legacy /\ old[c] # NoRow
                            THEN [fingerprint |-> NULL, status |-> old[c], attempt |-> 0]
                            ELSE NoRow]],
             superseded |-> {}, attempts |-> {}]
  /\ run = [r \in Runs |-> Idle]
  /\ lock = NoRun
  /\ forked = {}
  /\ minted = 0
  /\ foreign = 0

-----------------------------------------------------------------------------
\* The run returns, raises or dies.  `finally: con.close()`, or the kernel,
\* discards the transaction; the flock goes with the last descriptor.
End(r) ==
  /\ run' = [run EXCEPT ![r] = Ended]
  /\ lock' = IF lock = r /\ r \notin forked THEN NoRun ELSE lock

\* The tables a statement of r sees: DML opens a transaction on the committed.
View(r) == IF run[r].tx = NoTx THEN db ELSE run[r].tx

\* sqlite's write lock: nobody else writes while a transaction is open.
Quiescent == \A r \in Runs : Inside(r) => run[r].tx = NoTx

\* Mutant of NextSeq: the high-water mark is read outside the transaction.
NextSeqCommitted(tables) ==
  LET seqs == {s.seq : s \in db.superseded} IN
  CHOOSE n \in {m + 1 : m \in seqs \cup {0}} : \A m \in seqs : m < n

\* _next_seq: one more than the archive's highest.  The first SELECT of a
\* transaction comes before the INSERT that opens it; nobody else archives in
\* between, since only the holder of the run's lock does.
NextSeq(tables) ==
  LET seqs == {s.seq : s \in tables.superseded} IN
  CHOOSE n \in {m + 1 : m \in seqs \cup {0}} : \A m \in seqs : m < n

\* _archive: a copy of the row in hand, if it is still there.
Archived(tables, r, source, c, reason) ==
  IF tables.results[source][c] = NoRow THEN tables
  ELSE [tables EXCEPT !.superseded = @ \cup
         {[experiment |-> source, cell |-> c, row |-> tables.results[source][c],
           reason |-> reason, displaced_by |-> r, seq |-> NextSeq(tables)]}]

-----------------------------------------------------------------------------
\* What a run holds once it has the lock and its arguments.
Admitted(k) ==
  [pc |-> "plan", call |-> k, tx |-> NoTx,
   steps |-> [c \in Cells |->
     [action |-> "skip", archive |-> NULL, source |-> k.experiment]],
   cell |-> CHOOSE c \in Cells : TRUE, attempt_id |-> 0,
   status |-> "failed", standin |-> FALSE,
   out |-> [c \in Cells |-> "unreported"]]

\* Mutant of Start: the lock is not taken.
StartUnlocked(r) ==
  /\ At(r, "idle")
  /\ lock' = r
  /\ \E k \in Call : run' = [run EXCEPT ![r] = Admitted(k)]
  /\ UNCHANGED <<db, forked, minted, foreign>>

\* run_matrix: lock.acquire, which refuses at once when the lock is held.
Start(r) ==
  /\ At(r, "idle")
  /\ IF lock = NoRun
     THEN /\ lock' = r
          /\ \E k \in Call : run' = [run EXCEPT ![r] = Admitted(k)]
     ELSE /\ run' = [run EXCEPT ![r] = Ended]
          /\ UNCHANGED lock
  /\ UNCHANGED <<db, forked, minted, foreign>>

\* _plan's lookups: the experiment's own row, else the pre-provenance one.
Source(k, c) ==
  IF db.results[k.experiment][c] = NoRow /\ db.results[Legacy][c] # NoRow
  THEN Legacy ELSE k.experiment
Stored(k, c) == db.results[Source(k, c)][c]
Matches(k, c) == Stored(k, c).fingerprint = k.fingerprint[c]
Policy(k, c) == IF Stored(k, c).fingerprint = NULL THEN k.on_legacy ELSE k.on_mismatch

Conflict(k, c) ==
  /\ Stored(k, c) # NoRow
  /\ ~Matches(k, c)
  /\ Stored(k, c).status = "done"
  /\ Policy(k, c) = "error"

PlannedStep(k, c) ==
  IF Stored(k, c) = NoRow
  THEN [action |-> "run", archive |-> NULL, source |-> k.experiment]
  ELSE IF Matches(k, c)
  THEN [action |-> IF Stored(k, c).status = "done" THEN "skip" ELSE "run",
        archive |-> NULL, source |-> Source(k, c)]
  ELSE IF Policy(k, c) = "adopt" /\ Stored(k, c).status = "done"
  THEN [action |-> "adopt", archive |-> "adopted", source |-> Source(k, c)]
  ELSE [action |-> "run",
        archive |-> IF Stored(k, c).fingerprint = NULL THEN "legacy" ELSE "mismatch",
        source |-> Source(k, c)]

\* _plan: one conflict refuses the whole matrix before any cell runs.
Plan(r) ==
  /\ At(r, "plan")
  /\ IF \E c \in Cells : Conflict(run[r].call, c)
     THEN End(r)
     ELSE /\ run' = [run EXCEPT ![r].steps = [c \in Cells |-> PlannedStep(run[r].call, c)],
                                ![r].pc = "adopt"]
          /\ UNCHANGED lock
  /\ UNCHANGED <<db, forked, minted, foreign>>

\* The cells whose step is `action` and that the loop has not come to.
Pending(r, action) ==
  {c \in Cells : run[r].steps[c].action = action /\ run[r].out[c] = "unreported"}

\* _adopt_stored_rows, one row: the archived original, then the stamp.  A row
\* that is gone rolls every adoption back.
AdoptRow(r, c) ==
  LET k == run[r].call
      source == run[r].steps[c].source
      archived == Archived(View(r), r, source, c, run[r].steps[c].archive)
      rows == archived.results
      row == rows[source][c]
      stamped == [row EXCEPT !.fingerprint = k.fingerprint[c]]
      moved == [rows EXCEPT ![source][c] = NoRow, ![k.experiment][c] = stamped] IN
  /\ At(r, "adopt") /\ c \in Pending(r, "adopt")
  /\ IF row = NoRow
     THEN End(r)
     ELSE /\ run' = [run EXCEPT
               ![r].tx = [archived EXCEPT !.results = moved],
               ![r].out[c] = "skipped"]
          /\ UNCHANGED lock
  /\ UNCHANGED <<db, forked, minted, foreign>>

\* One commit covers every adoption.
CommitAdoptions(r) ==
  /\ At(r, "adopt") /\ Pending(r, "adopt") = {}
  /\ db' = View(r)
  /\ run' = [run EXCEPT ![r].tx = NoTx, ![r].pc = "next"]
  /\ UNCHANGED <<lock, forked, minted, foreign>>

\* The loop over the steps, in the caller's order: any order.
Skip(r, c) ==
  /\ At(r, "next") /\ c \in Pending(r, "skip")
  /\ run' = [run EXCEPT ![r].out[c] = "skipped"]
  /\ UNCHANGED <<db, lock, forked, minted, foreign>>

\* _begin_attempt: INSERT and commit, before makedirs and before run_cell.
BeginAttempt(r, c) ==
  /\ At(r, "next") /\ c \in Pending(r, "run")
  /\ minted' = minted + 1
  /\ db' = [db EXCEPT !.attempts = @ \cup
       {[attempt_id |-> minted + 1, experiment |-> run[r].call.experiment, cell |-> c,
         fingerprint |-> run[r].call.fingerprint[c], status |-> "running"]}]
  /\ run' = [run EXCEPT ![r].cell = c, ![r].attempt_id = minted + 1,
                        ![r].standin = FALSE, ![r].pc = "cell"]
  /\ UNCHANGED <<lock, forked, foreign>>

\* makedirs, run_cell and json.dumps: done, or failed whichever of them raised.
RunCell(r) ==
  /\ At(r, "cell")
  /\ \E s \in Statuses : run' = [run EXCEPT ![r].status = s, ![r].pc = "archive"]
  /\ UNCHANGED <<db, lock, forked, minted, foreign>>

\* run_cell forks a child, which inherits the descriptor of the lock.
Fork(r) ==
  /\ At(r, "cell")
  /\ forked' = forked \cup {r}
  /\ UNCHANGED <<db, run, lock, minted, foreign>>

ChildExit(r) ==
  /\ r \in forked
  /\ forked' = forked \ {r}
  /\ lock' = IF lock = r /\ ~Inside(r) THEN NoRun ELSE lock
  /\ UNCHANGED <<db, run, minted, foreign>>

-----------------------------------------------------------------------------
\* _finalise: statements of one transaction.
StepOf(r) == run[r].steps[run[r].cell]
Statement(r, from, to, tables) ==
  /\ At(r, from)
  /\ run' = [run EXCEPT ![r].tx = tables, ![r].pc = to]
  /\ UNCHANGED <<db, lock, forked, minted, foreign>>

\* Mutant of ArchiveRow: the replay with the stand-in redoes only the writes.
ArchiveNotReplayed(r) ==
  Statement(r, "archive", "insert",
    IF StepOf(r).archive = NULL \/ run[r].standin THEN run[r].tx
    ELSE Archived(View(r), r, StepOf(r).source, run[r].cell, StepOf(r).archive))

ArchiveRow(r) ==
  Statement(r, "archive", "insert",
    IF StepOf(r).archive = NULL THEN run[r].tx
    ELSE Archived(View(r), r, StepOf(r).source, run[r].cell, StepOf(r).archive))

InsertRow(r) ==
  LET k == run[r].call  c == run[r].cell IN
  Statement(r, "insert", "delete",
    [View(r) EXCEPT !.results[k.experiment][c] =
       [fingerprint |-> k.fingerprint[c], status |-> run[r].status,
        attempt |-> run[r].attempt_id]])

DeleteSource(r) ==
  Statement(r, "delete", "stamp",
    IF StepOf(r).source = run[r].call.experiment THEN View(r)
    ELSE [View(r) EXCEPT !.results[StepOf(r).source][run[r].cell] = NoRow])

\* Mutant of StampAttempt: the rowcount is not looked at.
StampUnguarded(r) ==
  LET mine == {a \in View(r).attempts : a.attempt_id = run[r].attempt_id} IN
  /\ At(r, "stamp")
  /\ run' = [run EXCEPT
       ![r].tx = [View(r) EXCEPT !.attempts = (@ \ mine) \cup
                    {[a EXCEPT !.status = run[r].status] : a \in mine}],
       ![r].pc = "commit"]
  /\ UNCHANGED <<db, lock, forked, minted, foreign>>

\* The attempt's row; when it is gone the transaction is rolled back and the
\* run stops.
StampAttempt(r) ==
  LET mine == {a \in View(r).attempts : a.attempt_id = run[r].attempt_id} IN
  /\ At(r, "stamp")
  /\ IF mine = {}
     THEN End(r)
     ELSE /\ run' = [run EXCEPT
               ![r].tx = [View(r) EXCEPT !.attempts = (@ \ mine) \cup
                            {[a EXCEPT !.status = run[r].status] : a \in mine}],
               ![r].pc = "commit"]
          /\ UNCHANGED lock
  /\ UNCHANGED <<db, forked, minted, foreign>>

\* con.commit(), and the cell is reported.
CommitOutcome(r) ==
  /\ At(r, "commit")
  /\ db' = View(r)
  /\ run' = [run EXCEPT ![r].tx = NoTx, ![r].out[run[r].cell] = run[r].status,
                        ![r].pc = "next"]
  /\ UNCHANGED <<lock, forked, minted, foreign>>

\* Mutant of Oversized: the refused transaction is not rolled back.
OversizedKeepsTx(r) ==
  /\ run[r].pc \in {"archive", "insert", "stamp", "commit"}
  /\ IF run[r].standin
     THEN End(r)
     ELSE /\ run' = [run EXCEPT ![r].standin = TRUE, ![r].status = "failed",
                                ![r].pc = "archive"]
          /\ UNCHANGED lock
  /\ UNCHANGED <<db, forked, minted, foreign>>

\* Mutant of Oversized: a refused stand-in is replayed like the first outcome.
OversizedForever(r) ==
  /\ run[r].pc \in {"archive", "insert", "stamp", "commit"}
  /\ run' = [run EXCEPT ![r].tx = NoTx, ![r].standin = TRUE,
                        ![r].status = "failed", ![r].pc = "archive"]
  /\ UNCHANGED <<db, lock, forked, minted, foreign>>

\* SQLITE_TOOBIG from any of them: rolled back, and the whole finalisation is
\* replayed, once, with the stand-in outcome.
Oversized(r) ==
  /\ run[r].pc \in {"archive", "insert", "stamp", "commit"}
  /\ IF run[r].standin
     THEN End(r)
     ELSE /\ run' = [run EXCEPT ![r].tx = NoTx, ![r].standin = TRUE,
                                ![r].status = "failed", ![r].pc = "archive"]
          /\ UNCHANGED lock
  /\ UNCHANGED <<db, forked, minted, foreign>>

\* Every step is reported: run_matrix returns.
Return(r) ==
  /\ At(r, "next") /\ \A c \in Cells : run[r].out[c] # "unreported"
  /\ End(r)
  /\ UNCHANGED <<db, forked, minted, foreign>>

\* The run stops where it is: killed, interrupted, or raising because sqlite
\* refused a statement for any other reason.
Stop(r) ==
  /\ Inside(r)
  /\ End(r)
  /\ UNCHANGED <<db, forked, minted, foreign>>

\* Something that takes no lock deletes a row between two transactions.
ForeignDelete ==
  /\ foreign < MaxForeign /\ Quiescent
  /\ foreign' = foreign + 1
  /\ \/ \E a \in db.attempts : db' = [db EXCEPT !.attempts = @ \ {a}]
     \/ \E x \in Strata, c \in Cells :
          db.results[x][c] # NoRow /\ db' = [db EXCEPT !.results[x][c] = NoRow]
  /\ UNCHANGED <<run, lock, forked, minted>>

\* Steps a run takes by itself once run_cell has answered.
Own(r) ==
  \/ Plan(r) \/ CommitAdoptions(r) \/ Return(r)
  \/ \E c \in Cells : AdoptRow(r, c) \/ Skip(r, c) \/ BeginAttempt(r, c)
  \/ ArchiveRow(r) \/ InsertRow(r) \/ DeleteSource(r) \/ StampAttempt(r)
  \/ CommitOutcome(r) \/ Oversized(r)

RunStep(r) == Start(r) \/ Own(r) \/ RunCell(r) \/ Fork(r) \/ ChildExit(r) \/ Stop(r)

Next == (\E r \in Runs : RunStep(r)) \/ ForeignDelete

Spec == Init /\ [][Next]_vars

\* A run is scheduled, and a forked child does not live for ever; run_cell may
\* never return.
Fairness == \A r \in Runs : WF_vars(Own(r)) /\ WF_vars(ChildExit(r))
FairSpec == Spec /\ Fairness

-----------------------------------------------------------------------------
Gone(x, c) == db.results[x][c] # NoRow /\ db'.results[x][c] # db.results[x][c]
Copies(x, c) == {s \in db'.superseded \ db.superseded :
                   s.experiment = x /\ s.cell = c /\ s.row = db.results[x][c]}

\* "no historical row is destroyed without a record" (_plan), and a completed
\* one never is: a row a run's commit displaces is copied to the archive by
\* that commit, unless it is a failed attempt at this same definition.
Displaced ==
  \A x \in Strata, c \in Cells :
    (foreign' = foreign /\ Gone(x, c)) =>
      \/ Copies(x, c) # {}
      \/ /\ db.results[x][c].status = "failed"
         /\ db'.results[x][c] # NoRow
         /\ db'.results[x][c].fingerprint = db.results[x][c].fingerprint
NothingDisplacedUnarchived == [][Displaced]_vars

\* "An archive row states that a supersession happened, so it comes into being
\* exactly when the supersession does": every new record copies a row that the
\* same commit displaces, no row is copied twice, and no record is ever changed
\* or removed.
Exact ==
  /\ db.superseded \subseteq db'.superseded
  /\ \A s \in db'.superseded \ db.superseded :
       /\ Gone(s.experiment, s.cell)
       /\ Copies(s.experiment, s.cell) = {s}
ArchiveIsExact == [][Exact]_vars

\* seq orders the archive: no two records share one.
ArchiveIsOrdered ==
  \A s, t \in db.superseded : s.seq = t.seq => s = t

\* The results write and the attempt's finalisation are one fact: an attempt
\* leaves `running` in the commit that installs its row, with its status, and
\* never changes again; a row is installed for no other attempt.
Attested ==
  foreign' = foreign =>
    /\ \A a \in db.attempts :
         a \notin db'.attempts =>
           /\ a.status = "running"
           /\ LET row == db'.results[a.experiment][a.cell] IN
              /\ row # NoRow /\ row.attempt = a.attempt_id
              /\ row.fingerprint = a.fingerprint
              /\ [a EXCEPT !.status = row.status] \in db'.attempts
    /\ \A x \in Strata, c \in Cells :
         LET row == db'.results[x][c] IN
         row # db.results[x][c] /\ row # NoRow /\ row.attempt # 0 =>
           \E a \in db.attempts : a.attempt_id = row.attempt /\ a \notin db'.attempts
OutcomesAreAttested == [][Attested]_vars

\* A run never starts a cell whose row, as it stands then, is completed for the
\* definition the run would run, however old the plan is.  A cell completed once
\* may run again if another definition's outcome displaced that row meanwhile.
Kept ==
  \A r \in Runs, c \in Cells :
    At(r, "next") /\ At(r, "cell")' /\ run'[r].cell = c /\ foreign = 0 =>
      LET row == db.results[run[r].call.experiment][c] IN
      row # NoRow /\ row.status = "done" => row.fingerprint # run[r].call.fingerprint[c]
CompletedCellsAreNotRerun == [][Kept]_vars

\* Runs on one results db are exclusive.
OneRunAtATime == \A r \in Runs : Inside(r) => lock = r

\* A run that has its outcome returns or stops, and then the lock is free
\* again as soon as no child of it lives.
LockIsFreed ==
  \A r \in Runs : (lock = r /\ ~At(r, "cell")) ~> (lock # r \/ At(r, "cell"))
=============================================================================
