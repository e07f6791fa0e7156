-------------------------- MODULE MatrixRunProofs ---------------------------
\* Proofs about MatrixRun, for every set of runs, cells, experiments and
\* fingerprints, and any number of rows deleted behind the lock's back.
EXTENDS MatrixRun, TLAPS

\* The locals of a run are known per run.
RunsKnown == run = [r \in Runs |-> run[r]]

\* Exclusion needs no more than what the lock says of who is inside.
Exclusion == RunsKnown /\ OneRunAtATime

\* End takes its run out, and gives the lock up unless a child keeps it.
LEMMA EndExcludes ==
  ASSUME Exclusion, NEW r \in Runs, End(r)
  PROVE Exclusion'
  BY DEF Exclusion, RunsKnown, OneRunAtATime, End, Inside, Ended

\* A step that keeps a run inside, and the lock with it.
LEMMA StayExcludes ==
  ASSUME Exclusion, NEW r \in Runs, Inside(r), UNCHANGED lock,
         NEW locals, run' = [run EXCEPT ![r] = locals]
  PROVE Exclusion'
  BY DEF Exclusion, RunsKnown, OneRunAtATime, Inside

\* Every action of a run keeps the exclusion.
LEMMA RunStepExcludes ==
  ASSUME Exclusion, NEW r \in Runs, RunStep(r)
  PROVE Exclusion'
<1> USE DEF At
<1>1. CASE Start(r)
  <2>1. CASE lock = NoRun
    <3>1. \A s \in Runs : ~Inside(s)
      BY <2>1, NobodyAssumption DEF Exclusion, OneRunAtATime
    <3> QED BY <1>1, <2>1, <3>1 DEF Start, Exclusion, RunsKnown, OneRunAtATime, Inside
  <2>2. CASE lock # NoRun
    BY <1>1, <2>2 DEF Start, Exclusion, RunsKnown, OneRunAtATime, Inside, Ended
  <2> QED BY <2>1, <2>2
<1>2. CASE Plan(r)
  BY <1>2, EndExcludes DEF Plan, Exclusion, RunsKnown, OneRunAtATime, Inside
<1>3. ASSUME NEW c \in Cells, AdoptRow(r, c) PROVE Exclusion'
  BY Zenon, <1>3, EndExcludes DEF AdoptRow, Exclusion, RunsKnown, OneRunAtATime, Inside
<1>4. CASE CommitAdoptions(r)
  BY <1>4 DEF CommitAdoptions, Exclusion, RunsKnown, OneRunAtATime, Inside
<1>5. ASSUME NEW c \in Cells, Skip(r, c) \/ BeginAttempt(r, c) PROVE Exclusion'
  BY <1>5 DEF Skip, BeginAttempt, Exclusion, RunsKnown, OneRunAtATime, Inside
<1>6. CASE RunCell(r) \/ Fork(r)
  BY <1>6 DEF RunCell, Fork, Exclusion, RunsKnown, OneRunAtATime, Inside
<1>7. CASE ChildExit(r)
  BY <1>7 DEF ChildExit, Exclusion, RunsKnown, OneRunAtATime, Inside
<1>8. CASE ArchiveRow(r) \/ InsertRow(r) \/ DeleteSource(r)
  BY <1>8 DEF ArchiveRow, InsertRow, DeleteSource, Statement, Exclusion, RunsKnown,
              OneRunAtATime, Inside
<1>9. CASE StampAttempt(r)
  BY <1>9, EndExcludes DEF StampAttempt, Exclusion, RunsKnown, OneRunAtATime, Inside
<1>10. CASE CommitOutcome(r)
  BY <1>10 DEF CommitOutcome, Exclusion, RunsKnown, OneRunAtATime, Inside
<1>11. CASE Oversized(r)
  BY <1>11, EndExcludes DEF Oversized, Exclusion, RunsKnown, OneRunAtATime, Inside
<1>12. CASE Return(r) \/ Stop(r)
  BY <1>12, EndExcludes DEF Return, Stop
<1> QED
  BY <1>1, <1>2, <1>3, <1>4, <1>5, <1>6, <1>7, <1>8, <1>9, <1>10, <1>11, <1>12
     DEF RunStep, Own

LEMMA NextExcludes ==
  ASSUME Exclusion, [Next]_vars PROVE Exclusion'
<1>1. CASE ForeignDelete
  BY <1>1 DEF ForeignDelete, Exclusion, RunsKnown, OneRunAtATime, Inside
<1>2. CASE UNCHANGED vars
  BY <1>2 DEF vars, Exclusion, RunsKnown, OneRunAtATime, Inside
<1> QED BY <1>1, <1>2, RunStepExcludes DEF Next

\* lock.py: runs on one results db are exclusive, however they are killed and
\* whichever of them forked.
THEOREM RunsAreExclusive == Spec => []OneRunAtATime
<1>1. Init => Exclusion
  BY DEF Init, Exclusion, RunsKnown, OneRunAtATime, Inside, Idle
<1>2. Exclusion /\ [Next]_vars => Exclusion'
  BY NextExcludes
<1>3. Exclusion => OneRunAtATime
  BY DEF Exclusion
<1> QED BY <1>1, <1>2, <1>3, PTL DEF Spec

-----------------------------------------------------------------------------
\* Typing.  What a run may hold is Locals while it is inside.

LEMMA InsideIsTyped ==
  ASSUME TypeOK, NEW r \in Runs, run[r].pc \in Labels
  PROVE  run[r] \in Locals
  BY DEF TypeOK, Labels, Idle, Ended

LEMMA EndIsTyped ==
  ASSUME TypeOK, NEW r \in Runs, End(r), UNCHANGED <<db, forked, minted, foreign>>
  PROVE  TypeOK'
  BY DEF TypeOK, End

LEMMA ViewIsTyped ==
  ASSUME TypeOK, NEW r \in Runs, run[r].pc \in Labels
  PROVE  View(r) \in Tables
  BY InsideIsTyped DEF TypeOK, View, Locals

\* _next_seq answers a number: the archive's numbers have a highest, because
\* they are 1..n.
Numbered(tables) ==
  /\ \E n \in Nat : {s.seq : s \in tables.superseded} = 1..n
  /\ \A s, t \in tables.superseded : s.seq = t.seq => s = t

LEMMA NextSeqIsNext ==
  ASSUME NEW tables \in Tables, NEW n \in Nat,
         {s.seq : s \in tables.superseded} = 1..n
  PROVE  NextSeq(tables) = n + 1
<1> DEFINE seqs == {s.seq : s \in tables.superseded}
           Above(k) == k \in {m + 1 : m \in seqs \cup {0}} /\ \A m \in seqs : m < k
<1>0. seqs = 1..n
  OBVIOUS
<1> HIDE DEF seqs
<1>1. Above(n + 1)
  <2>1. n \in seqs \cup {0}
    BY <1>0
  <2>2. n + 1 \in {m + 1 : m \in seqs \cup {0}}
    BY <2>1
  <2> QED BY <1>0, <2>2
<1>2. ASSUME NEW k, Above(k) PROVE k = n + 1
  <2>1. PICK m \in seqs \cup {0} : k = m + 1
    BY <1>2
  <2>2. m \in 0..n
    BY <2>1, <1>0
  <2>3. n > 0 => n < k
    BY <1>2, <1>0
  <2> QED BY <2>1, <2>2, <2>3
<1> HIDE DEF Above
<1>3. (CHOOSE k : Above(k)) = n + 1
  BY <1>1, <1>2
<1> QED BY <1>3 DEF NextSeq, Above, seqs

\* _archive keeps the numbering.
LEMMA ArchivedIsNumbered ==
  ASSUME NEW tables \in Tables, Numbered(tables), NEW r \in Runs,
         NEW source \in Strata, NEW c \in Cells, NEW reason \in Reasons
  PROVE  /\ Archived(tables, r, source, c, reason) \in Tables
         /\ Numbered(Archived(tables, r, source, c, reason))
<1> DEFINE new == [experiment |-> source, cell |-> c, row |-> tables.results[source][c],
                   reason |-> reason, displaced_by |-> r, seq |-> NextSeq(tables)]
           more == [tables EXCEPT !.superseded = @ \cup {new}]
<1>1. PICK n \in Nat : {s.seq : s \in tables.superseded} = 1..n
  BY DEF Numbered
<1>2. new.seq = n + 1
  BY <1>1, NextSeqIsNext
<1>3. CASE tables.results[source][c] = NoRow
  BY <1>3 DEF Archived
<1>4. CASE tables.results[source][c] # NoRow
  <2>1. tables.results[source][c] \in Row
    BY <1>4 DEF Tables
  <2>2. new \in Superseded
    BY <1>2, <2>1 DEF Superseded
  <2>3. more \in Tables /\ more.superseded = tables.superseded \cup {new}
    BY <2>2 DEF Tables
  <2>4. \A s \in tables.superseded : s.seq \in 1..n
    BY <1>1
  <2>5. {s.seq : s \in more.superseded} = 1..(n + 1)
    <3>1. \A m \in 1..(n + 1) : m \in {s.seq : s \in more.superseded}
      <4> TAKE m \in 1..(n + 1)
      <4>1. CASE m = n + 1
        BY <4>1, <2>3, <1>2
      <4>2. CASE m # n + 1
        <5>1. m \in 1..n
          BY <4>2
        <5>2. m \in {s.seq : s \in tables.superseded}
          BY <5>1, <1>1, Zenon
        <5> QED BY <5>2, <2>3
      <4> QED BY <4>1, <4>2
    <3>2. \A s \in more.superseded : s.seq \in 1..(n + 1)
      BY <2>3, <2>4, <1>2
    <3> QED BY <3>1, <3>2
  <2>6. \A s, t \in more.superseded : s.seq = t.seq => s = t
    BY <2>3, <2>4, <1>2 DEF Numbered
  <2>7. Numbered(more)
    BY <2>5, <2>6 DEF Numbered
  <2> QED BY <1>4, <2>3, <2>7 DEF Archived
<1> QED BY <1>3, <1>4

\* The committed archive and the one each open transaction would commit are
\* numbered 1..n without repetition.
AllNumbered ==
  /\ Numbered(db)
  /\ \A r \in Runs :
       run[r].pc \in Labels /\ run[r].tx # NoTx => Numbered(run[r].tx)

IInv == TypeOK /\ AllNumbered

LEMMA ViewIsNumbered ==
  ASSUME IInv, NEW r \in Runs, run[r].pc \in Labels
  PROVE  View(r) \in Tables /\ Numbered(View(r))
  BY ViewIsTyped DEF IInv, AllNumbered, View

\* How a step of one run is shown to keep IInv: its new locals are Locals.
LEMMA RunMoves ==
  ASSUME IInv, NEW r \in Runs, NEW locals \in Locals,
         run' = [run EXCEPT ![r] = locals],
         locals.tx = NoTx \/ Numbered(locals.tx),
         db' \in Tables, Numbered(db'),
         lock' \in Runs \cup {NoRun}, forked' \subseteq Runs,
         minted' \in Nat, foreign' \in 0..MaxForeign
  PROVE  IInv'
<1>1. TypeOK'
  BY DEF IInv, TypeOK
<1>2. \A q \in Runs : run'[q].pc \in Labels /\ run'[q].tx # NoTx => Numbered(run'[q].tx)
  BY DEF IInv, TypeOK, AllNumbered
<1> QED BY <1>1, <1>2 DEF IInv, AllNumbered

LEMMA RunEnds ==
  ASSUME IInv, NEW r \in Runs, End(r), UNCHANGED <<db, forked, minted, foreign>>
  PROVE  IInv'
<1>1. TypeOK'
  BY EndIsTyped DEF IInv
<1>2. Ended.pc \notin Labels
  BY DEF Ended, Labels
<1>3. \A q \in Runs : run'[q].pc \in Labels /\ run'[q].tx # NoTx => Numbered(run'[q].tx)
  BY <1>2 DEF IInv, TypeOK, AllNumbered, End
<1> QED BY <1>1, <1>3 DEF IInv, AllNumbered

LEMMA StartKeeps ==
  ASSUME IInv, NEW r \in Runs, Start(r) PROVE IInv'
<1>1. CASE lock = NoRun
  <2>1. PICK k \in Call : run' = [run EXCEPT ![r] = Admitted(k)]
    BY <1>1 DEF Start
  <2>2. Admitted(k) \in Locals /\ Admitted(k).tx = NoTx
    BY CellsAssumption, NobodyAssumption
       DEF Admitted, Locals, Labels, Call, Step, Strata, Statuses, Reasons
  <2> QED BY <1>1, <2>1, <2>2, RunMoves DEF Start, IInv, TypeOK, AllNumbered
<1>2. CASE lock # NoRun
  <2>1. End(r) \/ run' = [run EXCEPT ![r] = Ended]
    BY <1>2 DEF Start
  <2>2. Ended.pc \notin Labels
    BY DEF Ended, Labels
  <2>3. TypeOK'
    BY <1>2 DEF Start, IInv, TypeOK
  <2> QED BY <1>2, <2>2, <2>3 DEF Start, IInv, TypeOK, AllNumbered
<1> QED BY <1>1, <1>2

LEMMA PlannedStepIsTyped ==
  ASSUME TypeOK, NEW k \in Call, NEW c \in Cells
  PROVE  PlannedStep(k, c) \in Step
<1>1. Source(k, c) \in Strata
  BY DEF Source, Call, Strata
<1> QED BY <1>1, NobodyAssumption, PolicyAssumption
        DEF PlannedStep, Step, Call, Strata, Reasons

LEMMA PlanKeeps ==
  ASSUME IInv, NEW r \in Runs, Plan(r) PROVE IInv'
<1>1. CASE \E c \in Cells : Conflict(run[r].call, c)
  BY <1>1, RunEnds DEF Plan
<1>2. CASE ~\E c \in Cells : Conflict(run[r].call, c)
  <2> DEFINE plan == [c \in Cells |-> PlannedStep(run[r].call, c)]
             locals == [run[r] EXCEPT !.steps = plan, !.pc = "adopt"]
  <2>1. run[r] \in Locals
    BY InsideIsTyped DEF IInv, Plan, At, Labels
  <2>2. plan \in [Cells -> Step]
    BY <2>1, PlannedStepIsTyped DEF IInv, Locals
  <2>3. run' = [run EXCEPT ![r] = locals]
    BY <1>2 DEF Plan
  <2>4. locals \in Locals /\ locals.tx = run[r].tx
    BY <2>1, <2>2 DEF Locals, Labels
  <2>5. locals.tx = NoTx \/ Numbered(locals.tx)
    BY <2>1, <2>4 DEF IInv, AllNumbered, Locals
  <2> QED BY <1>2, <2>3, <2>4, <2>5, RunMoves DEF Plan, IInv, TypeOK, AllNumbered
<1> QED BY <1>1, <1>2

LEMMA AdoptRowKeeps ==
  ASSUME IInv, NEW r \in Runs, NEW c \in Cells, AdoptRow(r, c) PROVE IInv'
<1> DEFINE k == run[r].call
           source == run[r].steps[c].source
           archived == Archived(View(r), r, source, c, run[r].steps[c].archive)
           rows == archived.results
           row == rows[source][c]
           stamped == [row EXCEPT !.fingerprint = k.fingerprint[c]]
           moved == [rows EXCEPT ![source][c] = NoRow, ![k.experiment][c] = stamped]
           tables == [archived EXCEPT !.results = moved]
           locals == [run[r] EXCEPT !.tx = tables, !.out[c] = "skipped"]
<1>1. run[r] \in Locals /\ run[r].pc \in Labels
  BY Zenon, InsideIsTyped DEF IInv, AdoptRow, At, Labels
<1>2. run[r].steps[c] \in Step /\ run[r].steps[c].action = "adopt"
  BY Zenon, <1>1 DEF AdoptRow, Pending, Locals
<1>3. source \in Strata /\ run[r].steps[c].archive \in Reasons
  BY <1>2 DEF Step, Reasons
<1>4. archived \in Tables /\ Numbered(archived)
  BY <1>1, <1>3, ViewIsNumbered, ArchivedIsNumbered
<1>5. CASE row = NoRow
  BY <1>5, RunEnds DEF AdoptRow
<1>6. CASE row # NoRow
  <2>1. row \in Row /\ rows \in [Strata -> [Cells -> Row \cup {NoRow}]]
    BY Zenon, <1>3, <1>4, <1>6 DEF Tables
  <2>2. k.experiment \in Strata /\ k.fingerprint[c] \in Fingerprints
    BY <1>1 DEF Locals, Call, Strata
  <2>3. stamped \in Row
    BY Zenon, <2>1, <2>2 DEF Row
  <2>4. moved \in [Strata -> [Cells -> Row \cup {NoRow}]]
    BY Zenon, <1>3, <2>1, <2>2, <2>3
  <2>5. tables \in Tables /\ tables.superseded = archived.superseded
    BY Zenon, <1>4, <2>4 DEF Tables
  <2>6. Numbered(tables)
    BY Zenon, <1>4, <2>5 DEF Numbered
  <2>7. run' = [run EXCEPT ![r] = locals]
    BY Zenon, <1>6 DEF AdoptRow
  <2>8. locals \in Locals /\ locals.tx = tables
    BY Zenon, <1>1, <2>5 DEF Locals
  <2> QED
    BY Zenon, <1>6, <2>6, <2>7, <2>8, RunMoves DEF AdoptRow, IInv, TypeOK, AllNumbered
<1> QED BY <1>5, <1>6

LEMMA LoopKeeps ==
  ASSUME IInv, NEW r \in Runs,
         \/ CommitAdoptions(r) \/ RunCell(r) \/ CommitOutcome(r)
         \/ \E c \in Cells : Skip(r, c) \/ BeginAttempt(r, c)
  PROVE  IInv'
<1>1. run[r] \in Locals /\ run[r].pc \in Labels
  BY InsideIsTyped
     DEF IInv, CommitAdoptions, RunCell, CommitOutcome, Skip, BeginAttempt, At, Labels
<1>2. run[r].tx = NoTx \/ Numbered(run[r].tx)
  BY <1>1 DEF IInv, AllNumbered
<1>3. CASE CommitAdoptions(r)
  <2> DEFINE locals == [run[r] EXCEPT !.tx = NoTx, !.pc = "next"]
  <2>1. run' = [run EXCEPT ![r] = locals]
    BY <1>3 DEF CommitAdoptions
  <2>2. locals \in Locals /\ locals.tx = NoTx
    BY <1>1 DEF Locals, Labels
  <2>3. db' \in Tables /\ Numbered(db')
    BY <1>1, <1>3, ViewIsNumbered DEF CommitAdoptions
  <2> QED BY <1>3, <2>1, <2>2, <2>3, RunMoves DEF CommitAdoptions, IInv, TypeOK
<1>4. CASE RunCell(r)
  <2>1. PICK s \in Statuses :
          run' = [run EXCEPT ![r] = [run[r] EXCEPT !.status = s, !.pc = "archive"]]
    BY <1>4 DEF RunCell
  <2> DEFINE locals == [run[r] EXCEPT !.status = s, !.pc = "archive"]
  <2>2. locals \in Locals /\ locals.tx = run[r].tx
    BY <1>1 DEF Locals, Labels
  <2> QED BY <1>2, <1>4, <2>1, <2>2, RunMoves DEF RunCell, IInv, TypeOK, AllNumbered
<1>5. CASE CommitOutcome(r)
  <2> DEFINE locals == [run[r] EXCEPT !.tx = NoTx, !.out[run[r].cell] = run[r].status,
                                      !.pc = "next"]
  <2>1. run' = [run EXCEPT ![r] = locals]
    BY <1>5 DEF CommitOutcome
  <2>2. locals \in Locals /\ locals.tx = NoTx
    BY <1>1 DEF Locals, Labels
  <2>3. db' \in Tables /\ Numbered(db')
    BY <1>1, <1>5, ViewIsNumbered DEF CommitOutcome, View
  <2> QED BY <1>5, <2>1, <2>2, <2>3, RunMoves DEF CommitOutcome, IInv, TypeOK
<1>6. ASSUME NEW c \in Cells, Skip(r, c) PROVE IInv'
  <2> DEFINE locals == [run[r] EXCEPT !.out[c] = "skipped"]
  <2>1. run' = [run EXCEPT ![r] = locals]
    BY <1>6 DEF Skip
  <2>2. locals \in Locals /\ locals.tx = run[r].tx
    BY <1>1 DEF Locals
  <2> QED BY <1>2, <1>6, <2>1, <2>2, RunMoves DEF Skip, IInv, TypeOK, AllNumbered
<1>7. ASSUME NEW c \in Cells, BeginAttempt(r, c) PROVE IInv'
  <2> DEFINE locals == [run[r] EXCEPT !.cell = c, !.attempt_id = minted + 1,
                                      !.standin = FALSE, !.pc = "cell"]
  <2>1. run' = [run EXCEPT ![r] = locals]
    BY <1>7 DEF BeginAttempt
  <2>2. minted \in Nat /\ minted + 1 \in Nat
    BY DEF IInv, TypeOK
  <2>3. locals \in Locals /\ locals.tx = run[r].tx
    BY <1>1, <2>2 DEF Locals, Labels
  <2>4. [attempt_id |-> minted + 1, experiment |-> run[r].call.experiment, cell |-> c,
         fingerprint |-> run[r].call.fingerprint[c], status |-> "running"] \in Attempt
    BY <1>1 DEF Locals, Call, Attempt, IInv, TypeOK
  <2>5. db' \in Tables /\ db'.superseded = db.superseded
    BY <1>7, <2>4 DEF BeginAttempt, IInv, TypeOK, Tables
  <2>6. Numbered(db')
    BY <2>5 DEF Numbered, IInv, AllNumbered
  <2>7. /\ lock' \in Runs \cup {NoRun} /\ forked' \subseteq Runs
        /\ minted' \in Nat /\ foreign' \in 0..MaxForeign
    BY <1>7, <2>2 DEF BeginAttempt, IInv, TypeOK
  <2>8. locals.tx = NoTx \/ Numbered(locals.tx)
    BY <1>2, <2>3
  <2> HIDE DEF locals
  <2> QED BY <2>1, <2>3, <2>5, <2>6, <2>7, <2>8, RunMoves
<1> QED BY <1>3, <1>4, <1>5, <1>6, <1>7

\* A statement of _finalise keeps IInv when the tables it leaves are typed and
\* numbered, or there is still no transaction.
LEMMA StatementKeeps ==
  ASSUME IInv, NEW r \in Runs, NEW from \in Labels, NEW to \in Labels, NEW tables,
         Statement(r, from, to, tables),
         tables = NoTx \/ (tables \in Tables /\ Numbered(tables))
  PROVE  IInv'
<1> DEFINE locals == [run[r] EXCEPT !.tx = tables, !.pc = to]
<1>1. run[r] \in Locals
  BY InsideIsTyped DEF IInv, Statement, At
<1>2. run' = [run EXCEPT ![r] = locals]
  BY DEF Statement
<1>3. locals \in Locals /\ locals.tx = tables
  BY <1>1 DEF Locals
<1> QED BY <1>2, <1>3, RunMoves DEF Statement, IInv, TypeOK, AllNumbered

LEMMA FinaliseKeeps ==
  ASSUME IInv, NEW r \in Runs,
         \/ ArchiveRow(r) \/ InsertRow(r) \/ DeleteSource(r)
         \/ StampAttempt(r) \/ Oversized(r)
  PROVE  IInv'
<1>1. run[r] \in Locals /\ run[r].pc \in Labels
  BY InsideIsTyped
     DEF IInv, ArchiveRow, InsertRow, DeleteSource, Statement, StampAttempt, Oversized,
         At, Labels
<1>2. run[r].tx = NoTx \/ (run[r].tx \in Tables /\ Numbered(run[r].tx))
  BY <1>1 DEF IInv, AllNumbered, Locals
<1>3. View(r) \in Tables /\ Numbered(View(r))
  BY <1>1, ViewIsNumbered
<1>4. run[r].cell \in Cells /\ StepOf(r) \in Step /\ run[r].call \in Call
  BY <1>1 DEF Locals, StepOf
<1>5. StepOf(r).source \in Strata /\ run[r].call.experiment \in Strata
  BY <1>4 DEF Step, Call, Strata
<1>6. "archive" \in Labels /\ "insert" \in Labels /\ "delete" \in Labels
      /\ "stamp" \in Labels
  BY DEF Labels
<1>7. CASE ArchiveRow(r)
  <2> DEFINE copied == Archived(View(r), r, StepOf(r).source, run[r].cell, StepOf(r).archive)
             tables == IF StepOf(r).archive = NULL THEN run[r].tx ELSE copied
  <2>1. StepOf(r).archive # NULL => StepOf(r).archive \in Reasons
    BY <1>4 DEF Step
  <2>2. StepOf(r).archive # NULL => copied \in Tables /\ Numbered(copied)
    BY <1>3, <1>4, <1>5, <2>1, ArchivedIsNumbered
  <2>3. tables = NoTx \/ (tables \in Tables /\ Numbered(tables))
    BY <1>2, <2>2
  <2>4. Statement(r, "archive", "insert", tables)
    BY <1>7 DEF ArchiveRow
  <2> HIDE DEF tables
  <2> QED BY <1>6, <2>3, <2>4, StatementKeeps
<1>8. CASE InsertRow(r)
  <2> DEFINE row == [fingerprint |-> run[r].call.fingerprint[run[r].cell],
                     status |-> run[r].status, attempt |-> run[r].attempt_id]
             tables == [View(r) EXCEPT !.results[run[r].call.experiment][run[r].cell] = row]
  <2>1. row \in Row
    BY <1>1, <1>4 DEF Row, Locals, Call
  <2>2. tables \in Tables /\ tables.superseded = View(r).superseded
    BY <1>3, <1>4, <1>5, <2>1 DEF Tables
  <2>3. Numbered(tables)
    BY <1>3, <2>2 DEF Numbered
  <2>4. Statement(r, "insert", "delete", tables)
    BY <1>8 DEF InsertRow
  <2> HIDE DEF tables
  <2> QED BY <1>6, <2>2, <2>3, <2>4, StatementKeeps
<1>9. CASE DeleteSource(r)
  <2> DEFINE cleared == [View(r) EXCEPT !.results[StepOf(r).source][run[r].cell] = NoRow]
             tables == IF StepOf(r).source = run[r].call.experiment THEN View(r) ELSE cleared
  <2>1. cleared \in Tables /\ cleared.superseded = View(r).superseded
    BY <1>3, <1>4, <1>5 DEF Tables
  <2>2. tables \in Tables /\ Numbered(tables)
    BY <1>3, <2>1 DEF Numbered
  <2>3. Statement(r, "delete", "stamp", tables)
    BY <1>9 DEF DeleteSource
  <2> HIDE DEF tables
  <2> QED BY <1>6, <2>2, <2>3, StatementKeeps
<1>10. CASE StampAttempt(r)
  <2> DEFINE mine == {a \in View(r).attempts : a.attempt_id = run[r].attempt_id}
             stamped == {[a EXCEPT !.status = run[r].status] : a \in mine}
             tables == [View(r) EXCEPT !.attempts = (@ \ mine) \cup stamped]
             locals == [run[r] EXCEPT !.tx = tables, !.pc = "commit"]
  <2>1. CASE mine = {}
    BY <1>10, <2>1, RunEnds DEF StampAttempt
  <2>2. CASE mine # {}
    <3>1. stamped \subseteq Attempt
      BY <1>1, <1>3 DEF Tables, Attempt, Locals
    <3>2. tables \in Tables /\ tables.superseded = View(r).superseded
      BY <1>3, <3>1 DEF Tables
    <3>3. Numbered(tables)
      BY <1>3, <3>2 DEF Numbered
    <3>4. run' = [run EXCEPT ![r] = locals]
      BY <1>10, <2>2 DEF StampAttempt
    <3>5. locals \in Locals /\ locals.tx = tables
      BY <1>1, <3>2 DEF Locals, Labels
    <3>6. UNCHANGED <<db, lock, forked, minted, foreign>>
      BY <1>10, <2>2 DEF StampAttempt
    <3> HIDE DEF locals, tables
    <3> QED BY <3>3, <3>4, <3>5, <3>6, RunMoves DEF IInv, TypeOK, AllNumbered
  <2> QED BY <2>1, <2>2
<1>11. CASE Oversized(r)
  <2> DEFINE locals == [run[r] EXCEPT !.tx = NoTx, !.standin = TRUE,
                                      !.status = "failed", !.pc = "archive"]
  <2>1. CASE run[r].standin
    BY <1>11, <2>1, RunEnds DEF Oversized
  <2>2. CASE ~run[r].standin
    <3>1. run' = [run EXCEPT ![r] = locals]
      BY <1>11, <2>2 DEF Oversized
    <3>2. locals \in Locals /\ locals.tx = NoTx
      BY <1>1 DEF Locals, Labels, Statuses
    <3> QED BY <1>11, <2>2, <3>1, <3>2, RunMoves DEF Oversized, IInv, TypeOK, AllNumbered
  <2> QED BY <2>1, <2>2
<1> QED BY <1>7, <1>8, <1>9, <1>10, <1>11

LEMMA OutsideKeeps ==
  ASSUME IInv,
         \/ ForeignDelete
         \/ \E r \in Runs : Fork(r) \/ ChildExit(r)
         \/ UNCHANGED vars
  PROVE  IInv'
<1>1. CASE ForeignDelete
  <2>1. db' \in Tables /\ db'.superseded = db.superseded
    BY <1>1 DEF ForeignDelete, IInv, TypeOK, Tables
  <2>2. Numbered(db')
    BY <2>1 DEF Numbered, IInv, AllNumbered
  <2>3. foreign' \in 0..MaxForeign
    BY <1>1, MaxForeignAssumption DEF ForeignDelete, IInv, TypeOK
  <2> QED BY <1>1, <2>1, <2>2, <2>3 DEF ForeignDelete, IInv, TypeOK, AllNumbered
<1>2. CASE \E r \in Runs : Fork(r) \/ ChildExit(r)
  BY <1>2 DEF Fork, ChildExit, IInv, TypeOK, AllNumbered
<1>3. CASE UNCHANGED vars
  BY <1>3 DEF vars, IInv, TypeOK, AllNumbered
<1> QED BY <1>1, <1>2, <1>3

LEMMA InitIsGood ==
  ASSUME Init PROVE IInv
<1>1. db \in Tables /\ db.superseded = {}
  BY DEF Init, Tables, Row, Strata, Statuses
<1>2. Numbered(db)
  <2>1. {s.seq : s \in db.superseded} = 1..0
    BY <1>1
  <2> QED BY <1>1, <2>1 DEF Numbered
<1>3. TypeOK
  BY <1>1, MaxForeignAssumption DEF Init, TypeOK
<1> QED BY <1>2, <1>3 DEF Init, IInv, AllNumbered, Idle, Labels

LEMMA NextIsGood ==
  ASSUME IInv, [Next]_vars PROVE IInv'
<1>1. ASSUME NEW r \in Runs, RunStep(r) PROVE IInv'
  <2>1. CASE Stop(r) \/ Return(r)
    BY <2>1, RunEnds DEF Stop, Return
  <2>2. ASSUME NEW c \in Cells, AdoptRow(r, c) PROVE IInv'
    BY <2>2, AdoptRowKeeps
  <2> QED
    BY <1>1, <2>1, <2>2, StartKeeps, PlanKeeps, LoopKeeps, FinaliseKeeps, OutsideKeeps
       DEF RunStep, Own
<1> QED BY <1>1, OutsideKeeps DEF Next

LEMMA Inductive == Spec => []IInv
  BY InitIsGood, NextIsGood, PTL DEF Spec

\* The committed tables and every run's locals keep their types.
THEOREM TypeCorrect == Spec => []TypeOK
<1>1. IInv => TypeOK
  BY DEF IInv
<1> QED BY <1>1, Inductive, PTL

\* _archive: two supersessions never take one number, whatever was rolled back
\* or killed in between.
THEOREM ArchiveOrder == Spec => []ArchiveIsOrdered
<1>1. IInv => ArchiveIsOrdered
  BY DEF IInv, AllNumbered, Numbered, ArchiveIsOrdered
<1> QED BY <1>1, Inductive, PTL

-----------------------------------------------------------------------------
\* The archive against the results.  tables is what a run's transaction would
\* commit, db what it would replace.
Fresh(tables) == tables.superseded \ db.superseded
Copied(tables, x, c) ==
  \E s \in Fresh(tables) :
    s.experiment = x /\ s.cell = c /\ s.row = db.results[x][c]
Changed(tables, x, c) == tables.results[x][c] # db.results[x][c]
Retried(tables, x, c) ==
  /\ db.results[x][c].status = "failed"
  /\ tables.results[x][c] # NoRow
  /\ tables.results[x][c].fingerprint = db.results[x][c].fingerprint

\* No row goes without its copy, and no copy is of anything but a row that was
\* there, or the second of one row.
Recorded(tables) ==
  /\ db.superseded \subseteq tables.superseded
  /\ \A x \in Strata, c \in Cells :
       Changed(tables, x, c) /\ db.results[x][c] # NoRow =>
         Copied(tables, x, c) \/ Retried(tables, x, c)
  /\ \A s \in Fresh(tables) :
       /\ db.results[s.experiment][s.cell] # NoRow
       /\ s.row = db.results[s.experiment][s.cell]
  /\ \A s, t \in Fresh(tables) :
       s.experiment = t.experiment /\ s.cell = t.cell => s = t

\* Every copy is of a row that goes: what a transaction owes when it commits.
Earned(tables) == \A s \in Fresh(tables) : Changed(tables, s.experiment, s.cell)

\* Rows older than provenance carry no fingerprint.
Unstamped(tables) ==
  \A c \in Cells : tables.results[Legacy][c] # NoRow =>
                     tables.results[Legacy][c].fingerprint = NULL

\* A planned step still answers to the row it was planned for, or that row is
\* gone.
StepIsSound(r, c) ==
  LET k == run[r].call  s == run[r].steps[c]  row == db.results[s.source][c] IN
  /\ s.source \in {k.experiment, Legacy}
  /\ s.source # k.experiment => db.results[k.experiment][c] = NoRow
  /\ s.archive # NULL => row = NoRow \/ row.fingerprint # k.fingerprint[c]
  /\ s.action = "run" /\ s.archive = NULL =>
       /\ s.source = k.experiment
       /\ row = NoRow \/ (row.status = "failed" /\ row.fingerprint = k.fingerprint[c])

\* What holds of a run inside, by where it is.
Adopting(r) ==
  /\ \A x \in Strata, c \in Cells :
       Changed(View(r), x, c) => run[r].out[c] # "unreported"
  /\ \A s \in Fresh(View(r)) : run[r].out[s.cell] # "unreported"
  /\ Earned(View(r))

Finalising(r) ==
  /\ run[r].out[run[r].cell] = "unreported"
  /\ StepOf(r).action = "run"
  /\ \A x \in Strata, c \in Cells : Changed(View(r), x, c) => c = run[r].cell
  /\ \A s \in Fresh(View(r)) :
       s.experiment = StepOf(r).source /\ s.cell = run[r].cell /\ StepOf(r).archive # NULL

Archiving(r) ==
  StepOf(r).archive # NULL =>
    \/ db.results[StepOf(r).source][run[r].cell] = NoRow
    \/ Copied(View(r), StepOf(r).source, run[r].cell)

Installed(r) ==
  LET k == run[r].call  row == View(r).results[k.experiment][run[r].cell] IN
  /\ run[r].tx # NoTx
  /\ row # NoRow /\ row.fingerprint = k.fingerprint[run[r].cell]

Cleared(r) ==
  StepOf(r).source # run[r].call.experiment =>
    View(r).results[StepOf(r).source][run[r].cell] = NoRow

Accounted(r) ==
  /\ run[r].pc \in {"plan", "next", "cell", "archive"} => run[r].tx = NoTx
  /\ run[r].pc # "plan" =>
       \A c \in Cells : run[r].out[c] = "unreported" => StepIsSound(r, c)
  /\ Recorded(View(r)) /\ Unstamped(View(r))
  /\ run[r].pc = "adopt" => Adopting(r)
  /\ run[r].pc \in {"cell", "archive", "insert", "delete", "stamp", "commit"} => Finalising(r)
  /\ run[r].pc \in {"insert", "delete", "stamp", "commit"} => Archiving(r)
  /\ run[r].pc \in {"delete", "stamp", "commit"} => Installed(r)
  /\ run[r].pc \in {"stamp", "commit"} => Cleared(r)

AInv ==
  /\ Unstamped(db)
  /\ \A r \in Runs : run[r].pc \in Labels => Accounted(r)

\* Types, numbering, exclusion and accounts: inductive together.
DInv == IInv /\ Exclusion /\ AInv

\* Only one run is inside.
LEMMA InsideAlone ==
  ASSUME DInv, NEW r \in Runs, run[r].pc \in Labels,
         NEW q \in Runs, run[q].pc \in Labels
  PROVE  q = r
  BY DEF DInv, Exclusion, OneRunAtATime, Inside, Labels

\* A run whose locals stay and a db that stays: nothing of it changes.
LEMMA UntouchedIsAccounted ==
  ASSUME NEW q \in Runs, Accounted(q), run'[q] = run[q], db' = db
  PROVE  Accounted(q)'
<1>1. View(q)' = View(q) /\ StepOf(q)' = StepOf(q)
  BY DEF View, StepOf
<1>2. Recorded(View(q))' = Recorded(View(q)) /\ Unstamped(View(q))' = Unstamped(View(q))
  BY <1>1 DEF Recorded, Unstamped, Fresh, Copied, Changed, Retried
<1>3. Adopting(q)' = Adopting(q) /\ Finalising(q)' = Finalising(q)
  BY <1>1 DEF Adopting, Finalising, Fresh, Changed, Earned
<1>4. /\ Archiving(q)' = Archiving(q) /\ Installed(q)' = Installed(q)
      /\ Cleared(q)' = Cleared(q)
  BY <1>1 DEF Archiving, Installed, Cleared, Fresh, Copied
<1>5. \A c \in Cells : StepIsSound(q, c)' = StepIsSound(q, c)
  BY DEF StepIsSound
<1> QED BY <1>2, <1>3, <1>4, <1>5 DEF Accounted

\* Without a transaction a run has nothing to answer for.
LEMMA NothingIsOpen ==
  ASSUME NEW r \in Runs, run'[r].tx = NoTx
  PROVE  /\ View(r)' = db' /\ Fresh(View(r))' = {}
         /\ \A x \in Strata, c \in Cells : ~Changed(View(r), x, c)'
         /\ Recorded(View(r))' /\ Earned(View(r))'
<1>1. View(r)' = db'
  BY DEF View
<1>2. Fresh(View(r))' = {}
  BY <1>1 DEF Fresh
<1>3. \A x \in Strata, c \in Cells : ~Changed(View(r), x, c)'
  BY <1>1 DEF Changed
<1> QED BY <1>1, <1>2, <1>3 DEF Recorded, Earned

\* How a step of the run inside is shown to keep AInv.
LEMMA TheRunInsideMoves ==
  ASSUME DInv, NEW r \in Runs, run[r].pc \in Labels,
         NEW locals, run' = [run EXCEPT ![r] = locals],
         Unstamped(db)', Accounted(r)'
  PROVE  AInv'
<1>1. \A q \in Runs : q # r => run'[q] = run[q]
  BY DEF DInv, IInv, TypeOK
<1>2. \A q \in Runs : q # r => run[q].pc \notin Labels
  BY InsideAlone
<1> QED BY <1>1, <1>2 DEF AInv

LEMMA TheRunInsideEnds ==
  ASSUME DInv, NEW r \in Runs, run[r].pc \in Labels, End(r), UNCHANGED db
  PROVE  AInv'
<1>1. \A q \in Runs : q # r => run'[q] = run[q]
  BY DEF DInv, IInv, TypeOK, End
<1>2. \A q \in Runs : q # r => run[q].pc \notin Labels
  BY InsideAlone
<1>3. run'[r].pc \notin Labels
  BY DEF DInv, IInv, TypeOK, End, Ended, Labels
<1>4. Unstamped(db)'
  BY DEF DInv, AInv, Unstamped
<1> QED BY <1>1, <1>2, <1>3, <1>4 DEF AInv

LEMMA StartAccounts ==
  ASSUME DInv, NEW r \in Runs, Start(r) PROVE AInv'
<1>1. Unstamped(db)'
  BY DEF DInv, AInv, Unstamped, Start
<1>2. CASE lock = NoRun
  <2>1. \A q \in Runs : run[q].pc \notin Labels
    BY <1>2, NobodyAssumption DEF DInv, Exclusion, OneRunAtATime, Inside, Labels
  <2>2. PICK k \in Call : run' = [run EXCEPT ![r] = Admitted(k)]
    BY <1>2 DEF Start
  <2>3. run'[r] = Admitted(k) /\ \A q \in Runs : q # r => run'[q] = run[q]
    BY <2>2 DEF DInv, IInv, TypeOK
  <2>4. run'[r].tx = NoTx /\ run'[r].pc = "plan"
    BY <2>3 DEF Admitted
  <2>5. Unstamped(View(r))'
    BY <1>1, <2>4 DEF View, Unstamped
  <2>6. Accounted(r)'
    BY <2>4, <2>5, NothingIsOpen DEF Accounted
  <2> QED BY <1>1, <2>1, <2>3, <2>6 DEF AInv
<1>3. CASE lock # NoRun
  <2>1. run'[r].pc \notin Labels /\ \A q \in Runs : q # r => run'[q] = run[q]
    BY <1>3 DEF Start, DInv, IInv, TypeOK, Ended, Labels
  <2>2. \A q \in Runs : run'[q].pc \in Labels => run'[q] = run[q] /\ Accounted(q)
    BY <2>1 DEF DInv, AInv
  <2>3. db' = db
    BY DEF Start
  <2> QED BY <1>1, <2>2, <2>3, UntouchedIsAccounted DEF AInv
<1> QED BY <1>2, <1>3

\* _plan: every step answers to the row it was planned for.
LEMMA PlannedStepIsSound ==
  ASSUME DInv, NEW k \in Call, NEW c \in Cells
  PROVE  LET s == PlannedStep(k, c)  row == db.results[s.source][c] IN
         /\ s.source \in {k.experiment, Legacy}
         /\ s.source # k.experiment => db.results[k.experiment][c] = NoRow
         /\ s.archive # NULL => row = NoRow \/ row.fingerprint # k.fingerprint[c]
         /\ s.action = "run" /\ s.archive = NULL =>
              /\ s.source = k.experiment
              /\ row = NoRow \/ (row.status = "failed" /\ row.fingerprint = k.fingerprint[c])
<1>1. k.experiment \in Experiments /\ k.fingerprint[c] \in Fingerprints
  BY DEF Call
<1>2. Source(k, c) \in {k.experiment, Legacy}
      /\ (Source(k, c) # k.experiment => db.results[k.experiment][c] = NoRow)
  BY DEF Source
<1>3. Stored(k, c) # NoRow /\ Source(k, c) # k.experiment => ~Matches(k, c)
  BY <1>1, <1>2, AbsenceAssumption DEF Stored, Matches, DInv, AInv, Unstamped
<1>4. Stored(k, c) # NoRow => Stored(k, c).status \in Statuses
  BY <1>1, <1>2 DEF Stored, DInv, IInv, TypeOK, Tables, Row, Strata
<1>5. CASE Stored(k, c) = NoRow
  BY <1>2, <1>5 DEF PlannedStep, Source, Stored
<1>6. CASE Stored(k, c) # NoRow /\ Matches(k, c)
  BY <1>2, <1>3, <1>4, <1>6 DEF PlannedStep, Stored, Matches, Statuses
<1>7. CASE Stored(k, c) # NoRow /\ ~Matches(k, c)
  BY <1>2, <1>7, NobodyAssumption DEF PlannedStep, Stored, Matches, Reasons
<1> QED BY <1>5, <1>6, <1>7

LEMMA PlanAccounts ==
  ASSUME DInv, NEW r \in Runs, Plan(r) PROVE AInv'
<1>1. run[r] \in Locals /\ run[r].pc \in Labels /\ run[r].pc = "plan"
  BY InsideIsTyped DEF DInv, IInv, Plan, At, Labels
<1>2. CASE \E c \in Cells : Conflict(run[r].call, c)
  BY <1>1, <1>2, TheRunInsideEnds DEF Plan
<1>3. CASE ~\E c \in Cells : Conflict(run[r].call, c)
  <2> DEFINE plan == [c \in Cells |-> PlannedStep(run[r].call, c)]
             locals == [run[r] EXCEPT !.steps = plan, !.pc = "adopt"]
  <2>1. run' = [run EXCEPT ![r] = locals] /\ db' = db
    BY <1>3 DEF Plan
  <2>2. /\ run'[r].pc = "adopt" /\ run'[r].tx = run[r].tx
        /\ run'[r].call = run[r].call /\ run'[r].steps = plan
    BY <1>1, <2>1 DEF DInv, IInv, TypeOK, Locals
  <2>3. run'[r].tx = NoTx
    BY <1>1, <2>2 DEF DInv, AInv, Accounted
  <2>4. \A c \in Cells : StepIsSound(r, c)'
    BY <1>1, <2>1, <2>2, PlannedStepIsSound DEF StepIsSound, Locals
  <2>5. Unstamped(db)' /\ Unstamped(View(r))'
    BY <2>1, <2>3 DEF DInv, AInv, Unstamped, View
  <2>6. Adopting(r)'
    BY <2>3, NothingIsOpen DEF Adopting
  <2>7. Accounted(r)'
    BY <2>2, <2>3, <2>4, <2>5, <2>6, NothingIsOpen DEF Accounted
  <2> QED BY <1>1, <2>1, <2>5, <2>7, TheRunInsideMoves
<1> QED BY <1>2, <1>3

\* What is known of a run inside.
LEMMA WhatIsInside ==
  ASSUME DInv, NEW r \in Runs, run[r].pc \in Labels
  PROVE  /\ run[r] \in Locals /\ View(r) \in Tables /\ Numbered(View(r))
         /\ Recorded(View(r)) /\ Unstamped(View(r)) /\ Accounted(r)
         /\ run[r].call.experiment \in Experiments
         /\ run[r].call.experiment \in Strata /\ run[r].call.experiment # Legacy
         /\ run[r].call.fingerprint \in [Cells -> Fingerprints]
<1>1. run[r] \in Locals
  BY InsideIsTyped DEF DInv, IInv
<1>2. View(r) \in Tables /\ Numbered(View(r))
  BY ViewIsNumbered DEF DInv
<1>3. Accounted(r)
  BY DEF DInv, AInv
<1>4. run[r].call \in Call
  BY <1>1 DEF Locals
<1> QED BY <1>1, <1>2, <1>3, <1>4, StratumAssumption DEF Accounted, Call, Strata

\* _archive copies a row that no record of the transaction is of yet.
LEMMA ArchivedRecords ==
  ASSUME NEW tables \in Tables, Numbered(tables), Recorded(tables), NEW r \in Runs,
         NEW source \in Strata, NEW c \in Cells, NEW reason \in Reasons,
         ~Changed(tables, source, c),
         \A s \in Fresh(tables) : ~(s.experiment = source /\ s.cell = c),
         NEW more, more = Archived(tables, r, source, c, reason)
  PROVE  /\ more.results = tables.results
         /\ tables.superseded \subseteq more.superseded
         /\ \A s \in Fresh(more) :
              s \in Fresh(tables) \/ (s.experiment = source /\ s.cell = c)
         /\ db.results[source][c] # NoRow => Copied(more, source, c)
         /\ Recorded(more)
<1> DEFINE new == [experiment |-> source, cell |-> c, row |-> tables.results[source][c],
                   reason |-> reason, displaced_by |-> r, seq |-> NextSeq(tables)]
<1>0. tables.results[source][c] = db.results[source][c]
  BY DEF Changed
<1>1. CASE tables.results[source][c] = NoRow
  BY <1>0, <1>1 DEF Archived
<1>2. CASE tables.results[source][c] # NoRow
  <2>1. more.results = tables.results /\ more.superseded = tables.superseded \cup {new}
    BY <1>2 DEF Archived, Tables
  <2>2. new \notin db.superseded
    <3>1. PICK n \in Nat : {s.seq : s \in tables.superseded} = 1..n
      BY DEF Numbered
    <3>2. new.seq = n + 1
      BY <3>1, NextSeqIsNext
    <3>3. \A s \in tables.superseded : s.seq \in 1..n
      BY <3>1
    <3> QED BY <3>2, <3>3 DEF Recorded
  <2>3. Fresh(more) = Fresh(tables) \cup {new}
    BY <2>1, <2>2 DEF Fresh
  <2>4. new.experiment = source /\ new.cell = c /\ new.row = db.results[source][c]
    BY <1>0
  <2> HIDE DEF new
  <2>5. Copied(more, source, c)
    BY <2>3, <2>4 DEF Copied
  <2>6. \A x \in Strata, d \in Cells : Copied(tables, x, d) => Copied(more, x, d)
    BY <2>3 DEF Copied
  <2>7. \A x \in Strata, d \in Cells :
          /\ Changed(more, x, d) <=> Changed(tables, x, d)
          /\ Retried(more, x, d) <=> Retried(tables, x, d)
    BY <2>1 DEF Changed, Retried
  <2>8. db.superseded \subseteq more.superseded
    BY <2>1 DEF Recorded
  <2>9. \A s \in Fresh(more) : /\ db.results[s.experiment][s.cell] # NoRow
                               /\ s.row = db.results[s.experiment][s.cell]
    BY <1>0, <1>2, <2>3, <2>4 DEF Recorded
  <2>10. \A s, t \in Fresh(more) :
           s.experiment = t.experiment /\ s.cell = t.cell => s = t
    BY <2>3, <2>4 DEF Recorded
  <2>11. Recorded(more)
    BY <2>6, <2>7, <2>8, <2>9, <2>10 DEF Recorded
  <2> QED BY <2>1, <2>3, <2>4, <2>5, <2>11
<1> QED BY <1>1, <1>2

LEMMA AdoptRowAccounts ==
  ASSUME DInv, NEW r \in Runs, NEW c \in Cells, AdoptRow(r, c) PROVE AInv'
<1> DEFINE k == run[r].call
           source == run[r].steps[c].source
           more == Archived(View(r), r, source, c, run[r].steps[c].archive)
           row == more.results[source][c]
           stamped == [row EXCEPT !.fingerprint = k.fingerprint[c]]
           moved == [more.results EXCEPT ![source][c] = NoRow, ![k.experiment][c] = stamped]
           tables == [more EXCEPT !.results = moved]
           locals == [run[r] EXCEPT !.tx = tables, !.out[c] = "skipped"]
<1>1. run[r].pc = "adopt" /\ run[r].pc \in Labels /\ run[r].out[c] = "unreported"
      /\ run[r].steps[c].action = "adopt"
  BY Zenon DEF AdoptRow, At, Pending, Labels
<1>2. Accounted(r) /\ StepIsSound(r, c) /\ Adopting(r) /\ run[r] \in Locals
  BY <1>1, WhatIsInside DEF Accounted
<1>3. run[r].steps[c].archive = "adopted"
  BY <1>1, <1>2 DEF Locals, Step
<1>4. source \in Strata /\ source \in {k.experiment, Legacy}
  BY <1>1, <1>2, WhatIsInside DEF StepIsSound, Strata
<1>5. ~Changed(View(r), source, c) /\ \A s \in Fresh(View(r)) : s.cell # c
  BY <1>1, <1>2, <1>4 DEF Adopting
<1>6. /\ more.results = View(r).results
      /\ \A s \in Fresh(more) : s \in Fresh(View(r)) \/ (s.experiment = source /\ s.cell = c)
      /\ db.results[source][c] # NoRow => Copied(more, source, c)
      /\ Recorded(more)
  <2>1. run[r].steps[c].archive \in Reasons
    BY <1>3 DEF Reasons
  <2> HIDE DEF more
  <2>2. more = Archived(View(r), r, source, c, run[r].steps[c].archive)
    BY DEF more
  <2> QED BY <1>1, <1>4, <1>5, <2>1, <2>2, WhatIsInside, ArchivedRecords
<1>7. more \in Tables
  BY <1>1, <1>3, <1>4, WhatIsInside, ArchivedIsNumbered DEF Reasons
<1>8. row = db.results[source][c]
  BY <1>5, <1>6 DEF Changed
<1>9. CASE row = NoRow
  BY <1>1, <1>9, TheRunInsideEnds DEF AdoptRow
<1>10. CASE row # NoRow
  <2>1. run' = [run EXCEPT ![r] = locals] /\ db' = db
    BY Zenon, <1>10 DEF AdoptRow
  <2>2. tables.superseded = more.superseded /\ tables.results = moved /\ tables \in Tables
    <3>1. row \in Row
      BY <1>4, <1>7, <1>10 DEF Tables
    <3>2. stamped \in Row
      BY Zenon, <1>1, <3>1, WhatIsInside DEF Row
    <3>3. moved \in [Strata -> [Cells -> Row \cup {NoRow}]]
      BY Zenon, <1>1, <1>4, <1>7, <3>2, WhatIsInside DEF Tables
    <3> QED BY Zenon, <1>7, <3>3 DEF Tables
  <2>3. /\ \A x \in Strata, d \in Cells : d # c => moved[x][d] = View(r).results[x][d]
        /\ \A x \in Strata : x # source /\ x # k.experiment =>
             moved[x][c] = View(r).results[x][c]
        /\ moved[k.experiment][c] = stamped
        /\ source # k.experiment => moved[source][c] = NoRow
    BY Zenon, <1>1, <1>4, <1>6, WhatIsInside DEF Tables
  <2>4. stamped.fingerprint = k.fingerprint[c]
    <3>1. row \in Row
      BY <1>4, <1>7, <1>10 DEF Tables
    <3> QED BY <3>1 DEF Row
  <2>5. stamped # row
    BY Zenon, <1>2, <1>3, <1>8, <1>10, <2>4, NobodyAssumption DEF StepIsSound, Reasons
  <2> HIDE DEF stamped, moved
  <2>6. Changed(tables, source, c)
    BY Zenon, <1>8, <1>10, <2>2, <2>3, <2>5 DEF Changed
  <2>7. Fresh(tables) = Fresh(more)
    BY <2>2 DEF Fresh
  <2>8. \A x \in Strata, d \in Cells : Changed(tables, x, d) =>
          \/ d # c /\ Changed(View(r), x, d)
          \/ d = c /\ x \in {source, k.experiment}
    BY <1>1, <1>2, <2>2, <2>3 DEF Changed, Adopting
  <2>9. Recorded(tables)
    <3>1. ASSUME NEW x \in Strata, NEW d \in Cells,
                 Changed(tables, x, d), db.results[x][d] # NoRow
          PROVE  Copied(tables, x, d) \/ Retried(tables, x, d)
      <4>1. CASE d # c
        <5>1. Changed(more, x, d)
          BY <1>6, <2>8, <3>1, <4>1 DEF Changed
        <5>2. Copied(more, x, d) \/ Retried(more, x, d)
          BY <1>6, <3>1, <5>1 DEF Recorded
        <5> QED BY Zenon, <1>6, <2>2, <2>3, <2>7, <4>1, <5>2 DEF Copied, Retried
      <4>2. CASE d = c
        <5>1. x = source
          BY <1>2, <2>8, <3>1, <4>2 DEF StepIsSound
        <5> QED BY Zenon, <1>6, <2>7, <3>1, <4>2, <5>1 DEF Copied
      <4> QED BY <4>1, <4>2
    <3> QED BY Zenon, <1>6, <2>2, <2>7, <3>1 DEF Recorded
  <2>10. Unstamped(tables)
    <3>1. \A d \in Cells : moved[Legacy][d] = NoRow \/ moved[Legacy][d] = View(r).results[Legacy][d]
      BY <1>1, <1>4, <2>3, WhatIsInside DEF Strata
    <3> QED BY <1>1, <2>2, <3>1, WhatIsInside DEF Unstamped
  <2>11. Earned(tables)
    <3>1. ASSUME NEW s \in Fresh(tables), s \in Fresh(View(r))
          PROVE  Changed(tables, s.experiment, s.cell)
      <4>1. s \in Superseded
        BY <1>1, <3>1, WhatIsInside DEF Fresh, Tables
      <4>2. Changed(View(r), s.experiment, s.cell) /\ s.cell # c
        BY <1>2, <1>5, <3>1 DEF Adopting, Earned
      <4> QED BY <2>2, <2>3, <4>1, <4>2 DEF Changed, Superseded
    <3> QED BY Zenon, <1>6, <2>6, <2>7, <3>1 DEF Earned
  <2>12. /\ run'[r].pc = "adopt" /\ run'[r].tx = tables /\ run'[r].call = k
         /\ run'[r].steps = run[r].steps
         /\ run'[r].out = [run[r].out EXCEPT ![c] = "skipped"]
    BY <1>1, <1>2, <2>1 DEF DInv, IInv, TypeOK, Locals
  <2> HIDE DEF tables
  <2>13. View(r)' = tables
    BY <2>2, <2>12, AbsenceAssumption DEF View
  <2>14. Adopting(r)'
    <3>1. \A x \in Strata, d \in Cells : Changed(tables, x, d) => run'[r].out[d] # "unreported"
      BY <1>2, <2>8, <2>12 DEF Adopting, Locals
    <3>2. \A s \in Fresh(tables) : run'[r].out[s.cell] # "unreported"
      <4> TAKE s \in Fresh(tables)
      <4>1. s.cell \in Cells
        BY <2>2 DEF Fresh, Tables, Superseded
      <4> QED BY <1>2, <1>6, <2>7, <2>12, <4>1 DEF Adopting, Locals
    <3> QED BY <2>1, <2>11, <2>13, <3>1, <3>2 DEF Adopting, Earned, Changed, Fresh
  <2>15. \A d \in Cells : run'[r].out[d] = "unreported" => StepIsSound(r, d)'
    <3>1. \A d \in Cells : run'[r].out[d] = "unreported" => StepIsSound(r, d)
      BY <1>1, <1>2, <2>12 DEF Accounted, Locals
    <3>2. /\ db' = db /\ run'[r].call = run[r].call /\ run'[r].steps = run[r].steps
      BY <2>1, <2>12
    <3>3. \A d \in Cells : StepIsSound(r, d) => StepIsSound(r, d)'
      BY <3>2 DEF StepIsSound
    <3> QED BY <3>1, <3>3
  <2>16. Recorded(View(r))' /\ Unstamped(View(r))' /\ Unstamped(db)'
    BY <2>1, <2>9, <2>10, <2>13
       DEF Recorded, Unstamped, Fresh, Copied, Changed, Retried, DInv, AInv
  <2>17. Accounted(r)'
    BY <2>12, <2>14, <2>15, <2>16 DEF Accounted
  <2> QED BY <1>1, <2>1, <2>16, <2>17, TheRunInsideMoves
<1> QED BY <1>9, <1>10

\* A planned step stays sound while the rows of its cell stay.
LEMMA SoundStays ==
  ASSUME NEW r \in Runs, NEW c \in Cells, StepIsSound(r, c),
         run[r].call.experiment \in Strata,
         run'[r].call = run[r].call, run'[r].steps = run[r].steps,
         \A x \in Strata : db'.results[x][c] = db.results[x][c]
  PROVE  StepIsSound(r, c)'
<1>1. run[r].steps[c].source \in Strata
  BY DEF StepIsSound, Strata
<1>2. /\ db'.results[run[r].steps[c].source][c] = db.results[run[r].steps[c].source][c]
      /\ db'.results[run[r].call.experiment][c] = db.results[run[r].call.experiment][c]
  BY <1>1
<1> QED BY <1>2 DEF StepIsSound

\* How a run comes back to the loop, with no transaction.
LEMMA BackToTheLoop ==
  ASSUME DInv, NEW r \in Runs, run[r].pc \in Labels, run[r].pc # "plan",
         NEW locals, run' = [run EXCEPT ![r] = locals],
         locals.pc = "next", locals.tx = NoTx,
         locals.call = run[r].call, locals.steps = run[r].steps, Unstamped(db)',
         \A c \in Cells : locals.out[c] = "unreported" =>
           /\ run[r].out[c] = "unreported"
           /\ \A x \in Strata : db'.results[x][c] = db.results[x][c]
  PROVE  AInv'
<1>1. run'[r] = locals
  BY DEF DInv, IInv, TypeOK
<1>2. \A c \in Cells : run'[r].out[c] = "unreported" => StepIsSound(r, c)'
  <2> SUFFICES ASSUME NEW c \in Cells, run'[r].out[c] = "unreported"
               PROVE  StepIsSound(r, c)'
    OBVIOUS
  <2>1. StepIsSound(r, c)
    BY <1>1, WhatIsInside DEF Accounted
  <2> QED BY <1>1, <2>1, SoundStays, WhatIsInside
<1>3. Recorded(View(r))' /\ Unstamped(View(r))'
  BY <1>1, NothingIsOpen DEF View, Unstamped
<1>4. Accounted(r)'
  BY <1>1, <1>2, <1>3 DEF Accounted
<1> QED BY <1>4, TheRunInsideMoves

LEMMA LoopAccounts ==
  ASSUME DInv, NEW r \in Runs,
         \/ CommitAdoptions(r) \/ CommitOutcome(r) \/ \E c \in Cells : Skip(r, c)
  PROVE  AInv'
<1>1. run[r].pc \in Labels /\ run[r].pc # "plan"
  BY DEF CommitAdoptions, CommitOutcome, Skip, At, Labels
<1>2. run[r] \in Locals /\ Accounted(r) /\ Unstamped(View(r))
  BY <1>1, WhatIsInside
<1>3. CASE CommitAdoptions(r)
  <2> DEFINE locals == [run[r] EXCEPT !.tx = NoTx, !.pc = "next"]
  <2>1. run' = [run EXCEPT ![r] = locals] /\ db' = View(r)
    BY <1>3 DEF CommitAdoptions
  <2>2. /\ locals.pc = "next" /\ locals.tx = NoTx /\ locals.call = run[r].call
        /\ locals.steps = run[r].steps /\ locals.out = run[r].out
    BY <1>2 DEF Locals
  <2>3. \A c \in Cells : run[r].out[c] = "unreported" =>
          \A x \in Strata : db'.results[x][c] = db.results[x][c]
    BY <1>2, <1>3, <2>1 DEF CommitAdoptions, At, Accounted, Adopting, Changed
  <2>4. Unstamped(db)'
    BY <1>2, <2>1 DEF Unstamped
  <2> HIDE DEF locals
  <2>5. \A c \in Cells : locals.out[c] = "unreported" =>
          /\ run[r].out[c] = "unreported"
          /\ \A x \in Strata : db'.results[x][c] = db.results[x][c]
    BY <2>2, <2>3
  <2> QED BY Zenon, <1>1, <2>1, <2>2, <2>4, <2>5, BackToTheLoop
<1>4. CASE CommitOutcome(r)
  <2> DEFINE locals == [run[r] EXCEPT !.tx = NoTx, !.out[run[r].cell] = run[r].status,
                                      !.pc = "next"]
  <2>1. run' = [run EXCEPT ![r] = locals] /\ db' = View(r)
    BY <1>4 DEF CommitOutcome
  <2>2. /\ locals.pc = "next" /\ locals.tx = NoTx /\ locals.call = run[r].call
        /\ locals.steps = run[r].steps
        /\ locals.out = [run[r].out EXCEPT ![run[r].cell] = run[r].status]
    BY <1>2 DEF Locals
  <2>3. run[r].status # "unreported"
    BY <1>2 DEF Locals, Statuses
  <2>4. \A c \in Cells : locals.out[c] = "unreported" =>
          c # run[r].cell /\ run[r].out[c] = "unreported"
    BY <1>2, <2>2, <2>3 DEF Locals
  <2>5. \A c \in Cells : c # run[r].cell =>
          \A x \in Strata : db'.results[x][c] = db.results[x][c]
    BY <1>2, <1>4, <2>1 DEF CommitOutcome, At, Accounted, Finalising, Changed
  <2>6. Unstamped(db)'
    BY <1>2, <2>1 DEF Unstamped
  <2> HIDE DEF locals
  <2>7. \A c \in Cells : locals.out[c] = "unreported" =>
          /\ run[r].out[c] = "unreported"
          /\ \A x \in Strata : db'.results[x][c] = db.results[x][c]
    BY <2>4, <2>5
  <2>8. /\ locals.pc = "next" /\ locals.tx = NoTx
        /\ locals.call = run[r].call /\ locals.steps = run[r].steps
    BY <2>2
  <2> QED BY Zenon, <1>1, <2>1, <2>6, <2>7, <2>8, BackToTheLoop
<1>5. ASSUME NEW c \in Cells, Skip(r, c) PROVE AInv'
  <2> DEFINE locals == [run[r] EXCEPT !.out[c] = "skipped"]
  <2>1. run' = [run EXCEPT ![r] = locals] /\ db' = db
    BY <1>5 DEF Skip
  <2>2. /\ locals.pc = "next" /\ locals.tx = NoTx /\ locals.call = run[r].call
        /\ locals.steps = run[r].steps /\ locals.out = [run[r].out EXCEPT ![c] = "skipped"]
    BY <1>2, <1>5 DEF Skip, At, Locals, Accounted
  <2>3. \A d \in Cells : locals.out[d] = "unreported" => run[r].out[d] = "unreported"
    BY <1>2, <2>2 DEF Locals
  <2>4. Unstamped(db)'
    BY <2>1 DEF DInv, AInv, Unstamped
  <2> HIDE DEF locals
  <2> QED BY <1>1, <2>1, <2>2, <2>3, <2>4, BackToTheLoop
<1> QED BY <1>3, <1>4, <1>5

\* The cell a run begins is one whose step is to run it.
LEMMA CellAccounts ==
  ASSUME DInv, NEW r \in Runs, RunCell(r) \/ \E c \in Cells : BeginAttempt(r, c)
  PROVE  AInv'
<1>1. run[r].pc \in Labels /\ run[r].pc \in {"next", "cell"}
  BY DEF RunCell, BeginAttempt, At, Labels
<1>2. run[r] \in Locals /\ Accounted(r) /\ run[r].tx = NoTx
  BY <1>1, WhatIsInside DEF Accounted
<1>3. PICK locals :
        /\ run' = [run EXCEPT ![r] = locals]
        /\ locals.pc \in {"cell", "archive"} /\ locals.tx = NoTx
        /\ locals.call = run[r].call /\ locals.steps = run[r].steps
        /\ locals.out = run[r].out /\ locals.cell \in Cells
        /\ locals.out[locals.cell] = "unreported"
        /\ locals.steps[locals.cell].action = "run"
  <2>1. CASE RunCell(r)
    <3>1. PICK s \in Statuses :
            run' = [run EXCEPT ![r] = [run[r] EXCEPT !.status = s, !.pc = "archive"]]
      BY <2>1 DEF RunCell
    <3>2. Finalising(r)
      BY <1>2, <2>1 DEF RunCell, At, Accounted
    <3> DEFINE over == [run[r] EXCEPT !.status = s, !.pc = "archive"]
    <3>3. /\ over.pc = "archive" /\ over.tx = NoTx
          /\ over.call = run[r].call /\ over.steps = run[r].steps
          /\ over.out = run[r].out /\ over.cell = run[r].cell /\ over.cell \in Cells
      BY <1>2 DEF Locals
    <3>4. run' = [run EXCEPT ![r] = over]
      BY <3>1
    <3>5. over.out[over.cell] = "unreported" /\ over.steps[over.cell].action = "run"
      BY <3>2, <3>3 DEF Finalising, StepOf
    <3> HIDE DEF over
    <3> QED BY <3>3, <3>4, <3>5
  <2>2. ASSUME NEW c \in Cells, BeginAttempt(r, c)
        PROVE  \E locals :
                 /\ run' = [run EXCEPT ![r] = locals]
                 /\ locals.pc \in {"cell", "archive"} /\ locals.tx = NoTx
                 /\ locals.call = run[r].call /\ locals.steps = run[r].steps
                 /\ locals.out = run[r].out /\ locals.cell \in Cells
                 /\ locals.out[locals.cell] = "unreported"
                 /\ locals.steps[locals.cell].action = "run"
    <3> DEFINE begun == [run[r] EXCEPT !.cell = c, !.attempt_id = minted + 1,
                                       !.standin = FALSE, !.pc = "cell"]
    <3>1. run' = [run EXCEPT ![r] = begun]
      BY <2>2 DEF BeginAttempt
    <3>2. /\ begun.pc = "cell" /\ begun.tx = NoTx
          /\ begun.call = run[r].call /\ begun.steps = run[r].steps
          /\ begun.out = run[r].out /\ begun.cell = c
      BY <1>2 DEF Locals
    <3>3. run[r].out[c] = "unreported" /\ run[r].steps[c].action = "run"
      BY <2>2 DEF BeginAttempt, Pending
    <3> HIDE DEF begun
    <3> QED BY <3>1, <3>2, <3>3
  <2> QED BY <2>1, <2>2
<1>4. db'.results = db.results
  BY <1>2 DEF RunCell, BeginAttempt, DInv, IInv, TypeOK, Tables
<1>5. run'[r] = locals
  BY <1>3 DEF DInv, IInv, TypeOK
<1>6. \A c \in Cells : run'[r].out[c] = "unreported" => StepIsSound(r, c)'
  BY <1>1, <1>2, <1>3, <1>4, <1>5, SoundStays, WhatIsInside DEF Accounted
<1>7. Unstamped(db)' /\ Recorded(View(r))' /\ Unstamped(View(r))'
  BY <1>3, <1>4, <1>5, NothingIsOpen DEF View, Unstamped, DInv, AInv
<1>8. Finalising(r)'
  BY <1>3, <1>5, NothingIsOpen DEF Finalising, StepOf
<1>9. Accounted(r)'
  BY <1>3, <1>5, <1>6, <1>7, <1>8 DEF Accounted
<1> QED BY <1>1, <1>3, <1>7, <1>9, TheRunInsideMoves

\* How a statement of _finalise is shown to keep AInv: `after` is what the run
\* sees when it has executed.
LEMMA FinalisingStep ==
  ASSUME DInv, NEW r \in Runs,
         run[r].pc \in {"archive", "insert", "delete", "stamp", "commit"},
         NEW locals, run' = [run EXCEPT ![r] = locals], db' = db,
         locals.call = run[r].call, locals.steps = run[r].steps,
         locals.out = run[r].out, locals.cell = run[r].cell,
         locals.pc \in {"archive", "insert", "delete", "stamp", "commit"},
         NEW after, after = IF locals.tx = NoTx THEN db ELSE locals.tx,
         locals.pc = "archive" => locals.tx = NoTx,
         Recorded(after), Unstamped(after),
         \A x \in Strata, c \in Cells : Changed(after, x, c) => c = run[r].cell,
         \A s \in Fresh(after) : /\ s.experiment = StepOf(r).source
                                 /\ s.cell = run[r].cell /\ StepOf(r).archive # NULL,
         locals.pc # "archive" /\ StepOf(r).archive # NULL =>
           \/ db.results[StepOf(r).source][run[r].cell] = NoRow
           \/ Copied(after, StepOf(r).source, run[r].cell),
         locals.pc \in {"delete", "stamp", "commit"} =>
           LET row == after.results[run[r].call.experiment][run[r].cell] IN
           /\ locals.tx # NoTx /\ row # NoRow
           /\ row.fingerprint = run[r].call.fingerprint[run[r].cell],
         locals.pc \in {"stamp", "commit"} /\ StepOf(r).source # run[r].call.experiment =>
           after.results[StepOf(r).source][run[r].cell] = NoRow
  PROVE  AInv'
<1>1. run[r].pc \in Labels /\ Accounted(r) /\ Finalising(r)
  BY WhatIsInside DEF Labels, Accounted
<1>2. run'[r] = locals
  BY DEF DInv, IInv, TypeOK
<1>3. View(r)' = after /\ StepOf(r)' = StepOf(r)
  <2>1. View(r)' = IF locals.tx = NoTx THEN db' ELSE locals.tx
    BY <1>2 DEF View
  <2>2. StepOf(r)' = locals.steps[locals.cell]
    BY Zenon, <1>2 DEF StepOf
  <2> QED BY Zenon, <2>1, <2>2 DEF StepOf
<1>4. \A c \in Cells : run'[r].out[c] = "unreported" => StepIsSound(r, c)'
  BY <1>1, <1>2, SoundStays, WhatIsInside DEF Accounted
<1>5. Unstamped(db)' /\ Recorded(View(r))' /\ Unstamped(View(r))'
  BY <1>3 DEF Recorded, Unstamped, Fresh, Copied, Changed, Retried, DInv, AInv
<1>6. Finalising(r)'
  BY <1>1, <1>2, <1>3 DEF Finalising, Changed, Fresh
<1>7. locals.pc # "archive" => Archiving(r)'
  BY <1>2, <1>3 DEF Archiving, Copied, Fresh
<1>8. locals.pc \in {"delete", "stamp", "commit"} => Installed(r)'
  BY <1>2, <1>3 DEF Installed
<1>9. locals.pc \in {"stamp", "commit"} => Cleared(r)'
  BY <1>2, <1>3 DEF Cleared
<1>10. Accounted(r)'
  BY <1>2, <1>4, <1>5, <1>6, <1>7, <1>8, <1>9 DEF Accounted
<1> QED BY <1>1, <1>5, <1>10, TheRunInsideMoves

\* What a run in _finalise has promised.
LEMMA WhatIsFinalised ==
  ASSUME DInv, NEW r \in Runs,
         run[r].pc \in {"archive", "insert", "delete", "stamp", "commit"}
  PROVE  /\ run[r].pc \in Labels /\ run[r] \in Locals /\ run[r].cell \in Cells
         /\ Accounted(r) /\ Finalising(r) /\ StepIsSound(r, run[r].cell)
         /\ StepOf(r) \in Step /\ StepOf(r) = run[r].steps[run[r].cell]
         /\ StepOf(r).source \in Strata
         /\ StepOf(r).source \in {run[r].call.experiment, Legacy}
<1>1. run[r].pc \in Labels
  BY DEF Labels
<1>2. run[r] \in Locals /\ Accounted(r) /\ Finalising(r)
  BY <1>1, WhatIsInside DEF Accounted
<1>3. run[r].cell \in Cells /\ StepOf(r) \in Step /\ StepOf(r) = run[r].steps[run[r].cell]
  BY <1>2 DEF Locals, StepOf
<1>4. StepIsSound(r, run[r].cell)
  BY <1>2, <1>3 DEF Accounted, Finalising
<1> QED BY Zenon, <1>1, <1>2, <1>3, <1>4, WhatIsInside DEF StepIsSound, Strata

\* A transaction that is not open records nothing.
LEMMA NothingIsRecorded ==
  /\ Recorded(db) /\ Fresh(db) = {}
  /\ \A x \in Strata, c \in Cells : ~Changed(db, x, c)
<1>1. Fresh(db) = {} /\ \A x \in Strata, c \in Cells : ~Changed(db, x, c)
  BY DEF Fresh, Changed
<1> QED BY <1>1 DEF Recorded

LEMMA ArchiveRowAccounts ==
  ASSUME DInv, NEW r \in Runs, ArchiveRow(r) PROVE AInv'
<1> DEFINE source == StepOf(r).source
           c == run[r].cell
           copied == Archived(View(r), r, source, c, StepOf(r).archive)
           tables == IF StepOf(r).archive = NULL THEN run[r].tx ELSE copied
           locals == [run[r] EXCEPT !.tx = tables, !.pc = "insert"]
<1>1. run[r].pc = "archive"
  BY DEF ArchiveRow, Statement, At
<1>2. run[r].tx = NoTx /\ View(r) = db /\ Unstamped(db)
  BY <1>1, WhatIsFinalised DEF Accounted, View, DInv, AInv
<1>3. run' = [run EXCEPT ![r] = locals] /\ db' = db
  BY DEF ArchiveRow, Statement
<1>4. /\ locals.pc = "insert" /\ locals.call = run[r].call
      /\ locals.steps = run[r].steps /\ locals.out = run[r].out
      /\ locals.cell = run[r].cell /\ locals.tx = tables
  BY <1>1, WhatIsFinalised DEF Locals
<1>5. CASE StepOf(r).archive = NULL
  <2>1. locals.tx = NoTx
    BY <1>2, <1>4, <1>5
  <2> HIDE DEF locals
  <2> QED BY <1>1, <1>2, <1>3, <1>4, <1>5, <2>1, NothingIsRecorded, FinalisingStep
<1>6. CASE StepOf(r).archive # NULL
  <2>1. StepOf(r).archive \in Reasons
    BY <1>1, <1>6, WhatIsFinalised DEF Step
  <2>2. db \in Tables /\ Numbered(db)
    BY DEF DInv, IInv, TypeOK, AllNumbered
  <2>3. copied \in Tables
    BY <1>1, <1>2, <2>1, <2>2, WhatIsFinalised, ArchivedIsNumbered
  <2> HIDE DEF copied
  <2>4. copied = Archived(db, r, source, c, StepOf(r).archive)
    BY <1>2 DEF copied
  <2>5. /\ copied.results = db.results
        /\ \A s \in Fresh(copied) : s.experiment = source /\ s.cell = c
        /\ db.results[source][c] # NoRow => Copied(copied, source, c)
        /\ Recorded(copied)
    <3>1. source \in Strata /\ c \in Cells
      BY <1>1, WhatIsFinalised
    <3>2. ~Changed(db, source, c) /\ Fresh(db) = {}
      BY <3>1, NothingIsRecorded
    <3> QED BY <2>1, <2>2, <2>4, <3>1, <3>2, NothingIsRecorded, ArchivedRecords
  <2>6. locals.tx = copied /\ copied # NoTx
    BY <1>4, <1>6, <2>3, AbsenceAssumption
  <2>7. Unstamped(copied) /\ \A x \in Strata, d \in Cells : ~Changed(copied, x, d)
    BY <1>2, <2>5 DEF Unstamped, Changed
  <2> HIDE DEF locals
  <2> QED BY <1>1, <1>3, <1>4, <1>6, <2>5, <2>6, <2>7, FinalisingStep
<1> QED BY <1>5, <1>6

LEMMA InsertRowAccounts ==
  ASSUME DInv, NEW r \in Runs, InsertRow(r) PROVE AInv'
<1> DEFINE k == run[r].call
           c == run[r].cell
           V == View(r)
           row == [fingerprint |-> k.fingerprint[c], status |-> run[r].status,
                   attempt |-> run[r].attempt_id]
           tables == [V EXCEPT !.results[k.experiment][c] = row]
           locals == [run[r] EXCEPT !.tx = tables, !.pc = "delete"]
<1>1. run[r].pc = "insert" /\ run[r].pc \in Labels
  BY DEF InsertRow, Statement, At, Labels
<1>2. /\ run[r] \in Locals /\ V \in Tables /\ Recorded(V) /\ Unstamped(V)
      /\ c \in Cells /\ k.experiment \in Strata /\ k.experiment # Legacy
      /\ Finalising(r) /\ Archiving(r) /\ StepIsSound(r, c)
      /\ StepOf(r) = run[r].steps[c]
  BY <1>1, WhatIsInside, WhatIsFinalised DEF Accounted
<1>3. row \in Row /\ row # NoRow /\ row.fingerprint = k.fingerprint[c]
  BY <1>1, <1>2, WhatIsInside, AbsenceAssumption DEF Row, Locals
<1>4. run' = [run EXCEPT ![r] = locals] /\ db' = db
  BY DEF InsertRow, Statement
<1> HIDE DEF row
<1>5. /\ tables \in Tables /\ tables.superseded = V.superseded
      /\ tables.results[k.experiment][c] = row
      /\ \A x \in Strata, d \in Cells : ~(x = k.experiment /\ d = c) =>
           tables.results[x][d] = V.results[x][d]
  BY <1>2, <1>3 DEF Tables
<1>6. /\ locals.pc = "delete" /\ locals.call = run[r].call
      /\ locals.steps = run[r].steps /\ locals.out = run[r].out
      /\ locals.cell = run[r].cell /\ locals.tx = tables
  BY <1>2 DEF Locals
<1> HIDE DEF tables, locals
<1>7. tables # NoTx
  BY <1>5, AbsenceAssumption
<1>8. Fresh(tables) = Fresh(V)
      /\ \A x \in Strata, d \in Cells : Copied(V, x, d) => Copied(tables, x, d)
  BY <1>5 DEF Fresh, Copied
<1>9. \A x \in Strata, d \in Cells : Changed(tables, x, d) => d = c
  BY <1>2, <1>5 DEF Finalising, Changed
<1>10. db.results[k.experiment][c] # NoRow =>
         Copied(tables, k.experiment, c) \/ Retried(tables, k.experiment, c)
  <2>1. CASE StepOf(r).archive = NULL
    BY Zenon, <1>2, <1>3, <1>5, <2>1 DEF StepIsSound, Finalising, Retried
  <2>2. CASE StepOf(r).archive # NULL
    BY Zenon, <1>2, <1>8, <2>2 DEF StepIsSound, Archiving
  <2> QED BY <2>1, <2>2
<1>11. Recorded(tables)
  <2>1. ASSUME NEW x \in Strata, NEW d \in Cells,
               Changed(tables, x, d), db.results[x][d] # NoRow
        PROVE  Copied(tables, x, d) \/ Retried(tables, x, d)
    <3>1. CASE x = k.experiment /\ d = c
      BY <1>10, <2>1, <3>1
    <3>2. CASE ~(x = k.experiment /\ d = c)
      <4>1. Copied(V, x, d) \/ Retried(V, x, d)
        BY <1>2, <1>5, <2>1, <3>2 DEF Recorded, Changed
      <4> QED BY <1>5, <1>8, <3>2, <4>1 DEF Retried
    <3> QED BY <3>1, <3>2
  <2> QED BY <1>2, <1>5, <1>8, <2>1 DEF Recorded
<1>12. Unstamped(tables)
  BY <1>2, <1>5 DEF Unstamped, Strata
<1>13. \A s \in Fresh(tables) : /\ s.experiment = StepOf(r).source
                                /\ s.cell = run[r].cell /\ StepOf(r).archive # NULL
  BY <1>2, <1>8 DEF Finalising
<1>14. StepOf(r).archive # NULL =>
         \/ db.results[StepOf(r).source][run[r].cell] = NoRow
         \/ Copied(tables, StepOf(r).source, run[r].cell)
  BY <1>1, <1>2, <1>8, WhatIsFinalised DEF Archiving
<1> QED
  BY <1>1, <1>3, <1>4, <1>5, <1>6, <1>7, <1>9, <1>11, <1>12, <1>13, <1>14, FinalisingStep

LEMMA DeleteSourceAccounts ==
  ASSUME DInv, NEW r \in Runs, DeleteSource(r) PROVE AInv'
<1> DEFINE k == run[r].call
           c == run[r].cell
           V == View(r)
           source == StepOf(r).source
           cleared == [V EXCEPT !.results[source][c] = NoRow]
           tables == IF source = k.experiment THEN V ELSE cleared
           locals == [run[r] EXCEPT !.tx = tables, !.pc = "stamp"]
<1>1. run[r].pc = "delete" /\ run[r].pc \in Labels
  BY DEF DeleteSource, Statement, At, Labels
<1>2. /\ run[r] \in Locals /\ V \in Tables /\ Recorded(V) /\ Unstamped(V)
      /\ c \in Cells /\ k.experiment \in Strata /\ source \in Strata
      /\ Finalising(r) /\ Archiving(r) /\ Installed(r) /\ StepIsSound(r, c)
      /\ StepOf(r) = run[r].steps[c]
  BY <1>1, WhatIsInside, WhatIsFinalised DEF Accounted
<1>3. run' = [run EXCEPT ![r] = locals] /\ db' = db
  BY DEF DeleteSource, Statement
<1>4. /\ tables \in Tables /\ tables.superseded = V.superseded
      /\ source # k.experiment => tables.results[source][c] = NoRow
      /\ \A x \in Strata, d \in Cells : ~(source # k.experiment /\ x = source /\ d = c) =>
           tables.results[x][d] = V.results[x][d]
  BY Zenon, <1>2 DEF Tables
<1>5. /\ locals.pc = "stamp" /\ locals.call = run[r].call
      /\ locals.steps = run[r].steps /\ locals.out = run[r].out
      /\ locals.cell = run[r].cell /\ locals.tx = tables
  BY <1>2 DEF Locals
<1> HIDE DEF tables, locals
<1>6. tables # NoTx
  BY <1>4, AbsenceAssumption
<1>7. Fresh(tables) = Fresh(V)
      /\ \A x \in Strata, d \in Cells : Copied(V, x, d) => Copied(tables, x, d)
  BY <1>4 DEF Fresh, Copied
<1>8. \A x \in Strata, d \in Cells : Changed(tables, x, d) => d = c
  BY <1>2, <1>4 DEF Finalising, Changed
<1>9. source # k.experiment /\ db.results[source][c] # NoRow => Copied(tables, source, c)
  BY Zenon, <1>2, <1>7 DEF StepIsSound, Finalising, Archiving
<1>10. Recorded(tables)
  <2>1. ASSUME NEW x \in Strata, NEW d \in Cells,
               Changed(tables, x, d), db.results[x][d] # NoRow
        PROVE  Copied(tables, x, d) \/ Retried(tables, x, d)
    <3>1. CASE source # k.experiment /\ x = source /\ d = c
      BY <1>9, <2>1, <3>1
    <3>2. CASE ~(source # k.experiment /\ x = source /\ d = c)
      <4>1. Copied(V, x, d) \/ Retried(V, x, d)
        BY <1>2, <1>4, <2>1, <3>2 DEF Recorded, Changed
      <4> QED BY <1>4, <1>7, <3>2, <4>1 DEF Retried
    <3> QED BY <3>1, <3>2
  <2> QED BY <1>2, <1>4, <1>7, <2>1 DEF Recorded
<1>11. Unstamped(tables)
  <2>1. \A d \in Cells : tables.results[Legacy][d] \in {NoRow, V.results[Legacy][d]}
    BY <1>2, <1>4 DEF Strata
  <2> QED BY <1>2, <2>1 DEF Unstamped
<1>12. \A s \in Fresh(tables) : /\ s.experiment = StepOf(r).source
                                /\ s.cell = run[r].cell /\ StepOf(r).archive # NULL
  BY <1>2, <1>7 DEF Finalising
<1>13. StepOf(r).archive # NULL =>
         \/ db.results[StepOf(r).source][run[r].cell] = NoRow
         \/ Copied(tables, StepOf(r).source, run[r].cell)
  BY <1>2, <1>7 DEF Archiving
<1>14. /\ tables.results[k.experiment][c] # NoRow
       /\ tables.results[k.experiment][c].fingerprint = k.fingerprint[c]
  BY <1>2, <1>4 DEF Installed
<1> QED
  BY Zenon, <1>1, <1>3, <1>4, <1>5, <1>6, <1>8, <1>10, <1>11, <1>12, <1>13, <1>14, FinalisingStep

LEMMA StampAttemptAccounts ==
  ASSUME DInv, NEW r \in Runs, StampAttempt(r) PROVE AInv'
<1> DEFINE k == run[r].call
           c == run[r].cell
           V == View(r)
           mine == {a \in V.attempts : a.attempt_id = run[r].attempt_id}
           stamped == {[a EXCEPT !.status = run[r].status] : a \in mine}
           tables == [V EXCEPT !.attempts = (@ \ mine) \cup stamped]
           locals == [run[r] EXCEPT !.tx = tables, !.pc = "commit"]
<1>1. run[r].pc = "stamp" /\ run[r].pc \in Labels
  BY DEF StampAttempt, At, Labels
<1>2. /\ run[r] \in Locals /\ V \in Tables /\ Recorded(V) /\ Unstamped(V)
      /\ Finalising(r) /\ Archiving(r) /\ Installed(r) /\ Cleared(r)
  BY <1>1, WhatIsInside DEF Accounted
<1>3. CASE mine = {}
  BY <1>1, <1>3, TheRunInsideEnds DEF StampAttempt
<1>4. CASE mine # {}
  <2>1. run' = [run EXCEPT ![r] = locals] /\ db' = db
    BY <1>4 DEF StampAttempt
  <2>2. stamped \subseteq Attempt
    BY <1>2 DEF Tables, Attempt, Locals
  <2> HIDE DEF mine, stamped
  <2>3. /\ tables \in Tables /\ tables.superseded = V.superseded
        /\ tables.results = V.results
    BY <1>2, <2>2 DEF Tables
  <2>4. /\ locals.pc = "commit" /\ locals.call = run[r].call
        /\ locals.steps = run[r].steps /\ locals.out = run[r].out
        /\ locals.cell = run[r].cell /\ locals.tx = tables
    BY <1>2 DEF Locals
  <2> HIDE DEF tables, locals
  <2>5. tables # NoTx
    BY <2>3, AbsenceAssumption
  <2>6. /\ Recorded(tables) /\ Unstamped(tables) /\ Fresh(tables) = Fresh(V)
        /\ \A x \in Strata, d \in Cells : Changed(tables, x, d) <=> Changed(V, x, d)
    BY <1>2, <2>3 DEF Recorded, Unstamped, Fresh, Changed, Copied, Retried
  <2>7. \A x \in Strata, d \in Cells : Changed(tables, x, d) => d = c
    BY <1>2, <2>6 DEF Finalising
  <2>8. \A s \in Fresh(tables) : /\ s.experiment = StepOf(r).source
                                 /\ s.cell = run[r].cell /\ StepOf(r).archive # NULL
    BY <1>2, <2>6 DEF Finalising
  <2>9. StepOf(r).archive # NULL =>
          \/ db.results[StepOf(r).source][run[r].cell] = NoRow
          \/ Copied(tables, StepOf(r).source, run[r].cell)
    BY <1>2, <2>6 DEF Archiving, Copied
  <2>10. /\ tables.results[k.experiment][c] # NoRow
         /\ tables.results[k.experiment][c].fingerprint = k.fingerprint[c]
    BY <1>2, <2>3 DEF Installed
  <2>11. StepOf(r).source # k.experiment => tables.results[StepOf(r).source][c] = NoRow
    BY <1>2, <2>3 DEF Cleared
  <2> QED BY Zenon, <1>1, <2>1, <2>4, <2>5, <2>6, <2>7, <2>8, <2>9, <2>10, <2>11, FinalisingStep
<1> QED BY <1>3, <1>4

LEMMA OversizedAccounts ==
  ASSUME DInv, NEW r \in Runs, Oversized(r) PROVE AInv'
<1> DEFINE locals == [run[r] EXCEPT !.tx = NoTx, !.standin = TRUE,
                                    !.status = "failed", !.pc = "archive"]
<1>1. run[r].pc \in {"archive", "insert", "stamp", "commit"} /\ run[r].pc \in Labels
  BY DEF Oversized, Labels
<1>2. CASE run[r].standin
  BY <1>1, <1>2, TheRunInsideEnds DEF Oversized
<1>3. CASE ~run[r].standin
  <2>1. run' = [run EXCEPT ![r] = locals] /\ db' = db
    BY <1>3 DEF Oversized
  <2>2. /\ locals.pc = "archive" /\ locals.call = run[r].call
        /\ locals.steps = run[r].steps /\ locals.out = run[r].out
        /\ locals.cell = run[r].cell /\ locals.tx = NoTx
    BY <1>1, WhatIsInside DEF Locals
  <2>3. Unstamped(db)
    BY DEF DInv, AInv
  <2> HIDE DEF locals
  <2> QED BY <1>1, <2>1, <2>2, <2>3, NothingIsRecorded, FinalisingStep
<1> QED BY <1>2, <1>3

\* Something that ignores the lock only takes rows away, and only between
\* transactions.
LEMMA ForeignDeleteAccounts ==
  ASSUME DInv, ForeignDelete PROVE AInv'
<1>1. \A r \in Runs : run[r].pc \in Labels => run[r].tx = NoTx
  BY DEF ForeignDelete, Quiescent, Inside, Labels
<1>2. run' = run
  BY DEF ForeignDelete
<1>3. /\ db'.superseded = db.superseded
      /\ \A x \in Strata, c \in Cells : db'.results[x][c] \in {db.results[x][c], NoRow}
  BY DEF ForeignDelete, DInv, IInv, TypeOK, Tables
<1>4. Unstamped(db)'
  BY <1>3 DEF Unstamped, Strata, DInv, AInv
<1>5. ASSUME NEW r \in Runs, run[r].pc \in Labels PROVE Accounted(r)'
  <2>1. run[r].tx = NoTx /\ run'[r].tx = NoTx /\ View(r) = db /\ View(r)' = db'
    BY <1>1, <1>2, <1>5 DEF View
  <2>2. Accounted(r) /\ run[r] \in Locals
    BY <1>5, WhatIsInside
  <2>3. ASSUME NEW c \in Cells, StepIsSound(r, c) PROVE StepIsSound(r, c)'
    <3>1. run[r].steps[c].source \in Strata /\ run[r].call.experiment \in Strata
      BY <1>5, <2>3, WhatIsInside DEF StepIsSound, Strata
    <3>2. /\ db'.results[run[r].steps[c].source][c]
               \in {db.results[run[r].steps[c].source][c], NoRow}
          /\ db'.results[run[r].call.experiment][c]
               \in {db.results[run[r].call.experiment][c], NoRow}
      BY <1>3, <3>1
    <3> QED BY Zenon, <1>2, <2>3, <3>2 DEF StepIsSound
  <2>4. run'[r].pc # "plan" =>
          \A c \in Cells : run'[r].out[c] = "unreported" => StepIsSound(r, c)'
    BY <1>2, <2>2, <2>3 DEF Accounted
  <2>5. Recorded(View(r))' /\ Unstamped(View(r))' /\ Adopting(r)'
    BY <1>4, <2>1, NothingIsOpen DEF Unstamped, Adopting
  <2>6. Finalising(r) => Finalising(r)'
    BY <1>2, <2>1, NothingIsOpen DEF Finalising, StepOf
  <2>7. run[r].pc \notin {"delete", "stamp", "commit"}
    BY <2>1, <2>2 DEF Accounted, Installed
  <2>8. run[r].pc = "insert" => Archiving(r)'
    <3>1. SUFFICES ASSUME run[r].pc = "insert", StepOf(r).archive # NULL
                   PROVE  db'.results[StepOf(r).source][run[r].cell] = NoRow
      BY <1>2 DEF Archiving, StepOf
    <3>2. db.results[StepOf(r).source][run[r].cell] = NoRow
      BY <2>1, <2>2, <3>1, NothingIsRecorded DEF Accounted, Archiving, Copied
    <3> QED BY <1>3, <3>1, <3>2, WhatIsFinalised
  <2> QED BY <1>2, <2>1, <2>2, <2>4, <2>5, <2>6, <2>7, <2>8 DEF Accounted
<1> QED BY <1>2, <1>4, <1>5 DEF AInv

LEMMA ForkAccounts ==
  ASSUME DInv, \/ UNCHANGED vars
               \/ \E r \in Runs : Fork(r) \/ ChildExit(r)
  PROVE  AInv'
<1>1. run' = run /\ db' = db
  BY DEF Fork, ChildExit, vars
<1>2. Unstamped(db)'
  BY <1>1 DEF Unstamped, DInv, AInv
<1> QED BY <1>1, <1>2, UntouchedIsAccounted DEF DInv, AInv

LEMMA AccountInductive == Spec => []DInv
<1>1. Init => DInv
  <2> SUFFICES ASSUME Init PROVE DInv
    OBVIOUS
  <2>1. IInv /\ Exclusion
    BY InitIsGood DEF Init, Exclusion, RunsKnown, OneRunAtATime, Inside, Idle
  <2>2. Unstamped(db)
    BY DEF Init, Unstamped, Strata
  <2>3. \A r \in Runs : run[r].pc \notin Labels
    BY DEF Init, Idle, Labels
  <2> QED BY <2>1, <2>2, <2>3 DEF DInv, AInv
<1>2. DInv /\ [Next]_vars => DInv'
  <2> SUFFICES ASSUME DInv, [Next]_vars PROVE DInv'
    OBVIOUS
  <2>1. IInv' /\ Exclusion'
    BY NextIsGood, NextExcludes DEF DInv
  <2>2. ASSUME NEW r \in Runs, RunStep(r) PROVE AInv'
    <3>1. CASE Stop(r) \/ Return(r)
      <4>1. run[r].pc \in Labels
        BY <3>1 DEF Stop, Return, Inside, At, DInv, IInv, TypeOK, Locals, Idle, Ended, Labels
      <4> QED BY <3>1, <4>1, TheRunInsideEnds DEF Stop, Return
    <3>2. ASSUME NEW c \in Cells, AdoptRow(r, c) PROVE AInv'
      BY <3>2, AdoptRowAccounts
    <3> QED
      BY <2>2, <3>1, <3>2, StartAccounts, PlanAccounts, LoopAccounts, CellAccounts,
         ArchiveRowAccounts, InsertRowAccounts, DeleteSourceAccounts,
         StampAttemptAccounts, OversizedAccounts, ForkAccounts
         DEF RunStep, Own
  <2>3. AInv'
    BY <2>2, ForeignDeleteAccounts, ForkAccounts DEF Next
  <2> QED BY <2>1, <2>3 DEF DInv
<1> QED BY <1>1, <1>2, PTL DEF Spec

\* A commit of recorded and earned tables displaces nothing unarchived, and
\* archives nothing but what it displaces.
LEMMA CommitIsExact ==
  ASSUME NEW tables, db' = tables, Recorded(tables), Earned(tables)
  PROVE  Displaced /\ Exact
<1>1. \A x \in Strata, c \in Cells : Copied(tables, x, c) => Copies(x, c) # {}
  BY DEF Copied, Copies, Fresh
<1>2. Displaced
  BY <1>1 DEF Displaced, Gone, Recorded, Changed, Retried
<1>3. ASSUME NEW s \in db'.superseded \ db.superseded
      PROVE  Gone(s.experiment, s.cell) /\ Copies(s.experiment, s.cell) = {s}
  <2>1. s \in Fresh(tables)
    BY <1>3 DEF Fresh
  <2>2. Gone(s.experiment, s.cell)
    BY <2>1 DEF Gone, Recorded, Earned, Changed
  <2>3. Copies(s.experiment, s.cell) = {s}
    BY <2>1 DEF Copies, Recorded, Fresh
  <2> QED BY <2>2, <2>3
<1> QED BY <1>2, <1>3 DEF Exact, Recorded

\* What a finished transaction of _finalise has copied, it has displaced.
LEMMA OutcomeIsEarned ==
  ASSUME DInv, NEW r \in Runs, run[r].pc = "commit" PROVE Earned(View(r))
<1>1. /\ Finalising(r) /\ Installed(r) /\ Cleared(r) /\ Recorded(View(r))
      /\ StepIsSound(r, run[r].cell) /\ StepOf(r) = run[r].steps[run[r].cell]
  BY WhatIsFinalised DEF Accounted
<1>2. SUFFICES ASSUME NEW s \in Fresh(View(r))
               PROVE  Changed(View(r), s.experiment, s.cell)
  BY DEF Earned
<1>3. /\ s.experiment = StepOf(r).source /\ s.cell = run[r].cell
      /\ StepOf(r).archive # NULL
      /\ db.results[s.experiment][s.cell] # NoRow
  BY <1>1 DEF Finalising, Recorded
<1>4. CASE StepOf(r).source = run[r].call.experiment
  BY <1>1, <1>3, <1>4 DEF StepIsSound, Installed, Changed
<1>5. CASE StepOf(r).source # run[r].call.experiment
  BY <1>1, <1>3, <1>5 DEF Cleared, Changed
<1> QED BY <1>4, <1>5

LEMMA StepsAreExact ==
  ASSUME DInv, [Next]_vars PROVE Displaced /\ Exact
<1>1. ASSUME db'.results = db.results, db'.superseded = db.superseded
      PROVE  Displaced /\ Exact
  BY <1>1 DEF Displaced, Exact, Gone
<1>2. CASE ForeignDelete
  <2>1. db'.superseded = db.superseded /\ foreign' # foreign
    BY <1>2 DEF ForeignDelete, DInv, IInv, TypeOK, Tables
  <2> QED BY <2>1 DEF Displaced, Exact
<1>3. CASE UNCHANGED vars
  BY <1>1, <1>3 DEF vars
<1>4. ASSUME NEW r \in Runs, RunStep(r) PROVE Displaced /\ Exact
  <2>1. CASE CommitAdoptions(r)
    <3>1. run[r].pc = "adopt" /\ run[r].pc \in Labels /\ db' = View(r)
      BY <2>1 DEF CommitAdoptions, At, Labels
    <3>2. Recorded(View(r)) /\ Earned(View(r))
      BY <3>1, WhatIsInside DEF Accounted, Adopting
    <3> QED BY <3>1, <3>2, CommitIsExact
  <2>2. CASE CommitOutcome(r)
    <3>1. run[r].pc = "commit" /\ run[r].pc \in Labels /\ db' = View(r)
      BY <2>2 DEF CommitOutcome, At, Labels
    <3>2. Recorded(View(r)) /\ Earned(View(r))
      BY <3>1, WhatIsInside, OutcomeIsEarned
    <3> QED BY <3>1, <3>2, CommitIsExact
  <2>3. ASSUME NEW c \in Cells, BeginAttempt(r, c) PROVE Displaced /\ Exact
    BY <1>1, <2>3 DEF BeginAttempt, DInv, IInv, TypeOK, Tables
  <2>4. ASSUME NEW c \in Cells, AdoptRow(r, c) \/ Skip(r, c) PROVE db' = db
    BY Zenon, <2>4 DEF AdoptRow, Skip
  <2>5. CASE \/ Start(r) \/ Plan(r) \/ Return(r) \/ ArchiveRow(r) \/ InsertRow(r)
             \/ DeleteSource(r) \/ StampAttempt(r) \/ Oversized(r) \/ RunCell(r)
             \/ Fork(r) \/ ChildExit(r) \/ Stop(r)
    <3>1. db' = db
      BY Zenon, <2>5 DEF Start, Plan, Return, ArchiveRow, InsertRow, DeleteSource, StampAttempt,
                  Oversized, RunCell, Fork, ChildExit, Stop, Statement
    <3> QED BY <1>1, <3>1
  <2> QED BY <1>1, <1>4, <2>1, <2>2, <2>3, <2>4, <2>5 DEF RunStep, Own
<1> QED BY <1>2, <1>3, <1>4 DEF Next

\* _plan and _finalise: no historical row is destroyed without a record, for
\* any number of runs, cells and experiments, killed or refused anywhere.
THEOREM NothingIsLost == Spec => NothingDisplacedUnarchived
<1>1. DInv /\ [Next]_vars => [Displaced]_vars
  BY StepsAreExact
<1> QED BY <1>1, AccountInductive, PTL DEF Spec, NothingDisplacedUnarchived

\* _archive: an archive row comes into being exactly when its supersession
\* does, once, and stays.
THEOREM ArchiveExact == Spec => ArchiveIsExact
<1>1. DInv /\ [Next]_vars => [Exact]_vars
  BY StepsAreExact
<1> QED BY <1>1, AccountInductive, PTL DEF Spec, ArchiveIsExact

LEMMA BegunIsNotComplete ==
  ASSUME DInv, NEW r \in Runs, NEW c \in Cells, BeginAttempt(r, c)
  PROVE  LET row == db.results[run[r].call.experiment][c] IN
         row # NoRow /\ row.status = "done" => row.fingerprint # run[r].call.fingerprint[c]
<1>1. run[r].pc \in Labels /\ run[r].pc = "next"
  BY DEF BeginAttempt, At, Labels
<1>2. run[r].steps[c].action = "run" /\ run[r].out[c] = "unreported"
  BY DEF BeginAttempt, Pending
<1>3. StepIsSound(r, c)
  BY <1>1, <1>2, WhatIsInside DEF Accounted
<1> QED BY <1>2, <1>3 DEF StepIsSound

LEMMA OnlyBeginsEnterACell ==
  ASSUME DInv, [Next]_vars, NEW r \in Runs, At(r, "next"), At(r, "cell")'
  PROVE  \E c \in Cells : BeginAttempt(r, c) /\ run'[r].cell = c
<1>1. run[r] \in Locals
  BY InsideIsTyped DEF DInv, IInv, At, Labels
<1>2. run'[r] # run[r]
  BY DEF At
<1>3. PICK q \in Runs : RunStep(q)
  BY <1>2 DEF Next, ForeignDelete, vars
<1>4. q = r
  <2>1. q # r => run'[r] = run[r]
    BY Zenon, <1>3
       DEF RunStep, Own, Start, Plan, CommitAdoptions, Return, AdoptRow, Skip, BeginAttempt,
           ArchiveRow, InsertRow, DeleteSource, Statement, StampAttempt, CommitOutcome,
           Oversized, RunCell, Fork, ChildExit, Stop, End, DInv, IInv, TypeOK
  <2> QED BY <1>2, <2>1
<1>5. run \in [Runs -> Locals \cup {Idle, Ended}]
  BY DEF DInv, IInv, TypeOK
<1>6. ~Start(r) /\ ~Plan(r) /\ ~CommitAdoptions(r)
      /\ ~\E c \in Cells : AdoptRow(r, c)
  BY DEF At, Start, Plan, CommitAdoptions, AdoptRow
<1>7. ~ArchiveRow(r) /\ ~InsertRow(r) /\ ~DeleteSource(r) /\ ~StampAttempt(r)
      /\ ~CommitOutcome(r) /\ ~Oversized(r) /\ ~RunCell(r) /\ ~Fork(r)
  BY DEF At, ArchiveRow, InsertRow, DeleteSource, Statement, StampAttempt, CommitOutcome,
         Oversized, RunCell, Fork
<1>8. ~Return(r) /\ ~Stop(r) /\ ~ChildExit(r)
  BY <1>2, <1>5 DEF At, Return, Stop, End, ChildExit, Ended
<1>9. ~\E c \in Cells : Skip(r, c)
  BY <1>1, <1>5 DEF Skip, At, Locals
<1>10. PICK c \in Cells : BeginAttempt(r, c)
  BY <1>3, <1>4, <1>6, <1>7, <1>8, <1>9 DEF RunStep, Own
<1>11. run'[r].cell = c
  BY <1>1, <1>5, <1>10 DEF BeginAttempt, Locals
<1> QED BY <1>10, <1>11

\* _plan: no run starts a cell whose row is completed for its definition by then,
\* although the plan is older than the row the run begins on.
THEOREM CompletedCellsStay == Spec => CompletedCellsAreNotRerun
<1>1. DInv /\ [Next]_vars => [Kept]_vars
  BY OnlyBeginsEnterACell, BegunIsNotComplete DEF Kept
<1> QED BY <1>1, AccountInductive, PTL DEF Spec, CompletedCellsAreNotRerun

-----------------------------------------------------------------------------
\* The attempts against the results.

\* A row without a fingerprint is evidence of no attempt.
Unattempted(tables) ==
  \A x \in Strata, c \in Cells :
    LET row == tables.results[x][c] IN
    row # NoRow /\ row.fingerprint = NULL => row.attempt = 0

\* Tokens are never minted twice.
Minted ==
  /\ \A a \in db.attempts : a.attempt_id \in 1..minted
  /\ \A a, b \in db.attempts : a.attempt_id = b.attempt_id => a = b

\* The attempt of the cell in hand, and the row and the record it ends as.
Begun(r) == [attempt_id |-> run[r].attempt_id, experiment |-> run[r].call.experiment,
             cell |-> run[r].cell, fingerprint |-> run[r].call.fingerprint[run[r].cell],
             status |-> "running"]
OutcomeRow(r) == [fingerprint |-> run[r].call.fingerprint[run[r].cell],
                  status |-> run[r].status, attempt |-> run[r].attempt_id]
Finalised(r) == [Begun(r) EXCEPT !.status = run[r].status]

AdoptsUnattempted(r) ==
  /\ \A c \in Cells :
       LET row == db.results[run[r].steps[c].source][c] IN
       run[r].out[c] = "unreported" /\ run[r].steps[c].action = "adopt" =>
         row = NoRow \/ row.fingerprint = NULL
  /\ \A x \in Strata, c \in Cells :
       Changed(View(r), x, c) /\ View(r).results[x][c] # NoRow =>
         View(r).results[x][c].attempt = 0

OneAttempt(r) ==
  /\ run[r].attempt_id \in 1..minted
  /\ \A a \in db.attempts : a.attempt_id = run[r].attempt_id => a = Begun(r)
  /\ \A x \in Strata, c \in Cells :
       Changed(View(r), x, c) /\ View(r).results[x][c] # NoRow =>
         x = run[r].call.experiment

Stamped(r) ==
  /\ Begun(r) \in db.attempts
  /\ View(r).attempts = (db.attempts \ {Begun(r)}) \cup {Finalised(r)}

Attesting(r) ==
  /\ Unattempted(View(r))
  /\ run[r].pc # "commit" => View(r).attempts = db.attempts
  /\ run[r].pc = "adopt" => AdoptsUnattempted(r)
  /\ run[r].pc \in {"cell", "archive", "insert", "delete", "stamp", "commit"} => OneAttempt(r)
  /\ run[r].pc \in {"delete", "stamp", "commit"} =>
       View(r).results[run[r].call.experiment][run[r].cell] = OutcomeRow(r)
  /\ run[r].pc = "commit" => Stamped(r)

TInv ==
  /\ Unattempted(db) /\ Minted
  /\ \A r \in Runs : run[r].pc \in Labels => Attesting(r)

LEMMA UntouchedAttests ==
  ASSUME NEW q \in Runs, Attesting(q), run'[q] = run[q], db' = db, minted' = minted
  PROVE  Attesting(q)'
<1>1. /\ View(q)' = View(q) /\ Begun(q)' = Begun(q) /\ OutcomeRow(q)' = OutcomeRow(q)
      /\ Finalised(q)' = Finalised(q)
  BY DEF View, Begun, OutcomeRow, Finalised
<1>2. AdoptsUnattempted(q)' = AdoptsUnattempted(q) /\ OneAttempt(q)' = OneAttempt(q)
  BY <1>1 DEF AdoptsUnattempted, OneAttempt, Changed
<1>3. Stamped(q)' = Stamped(q) /\ Unattempted(View(q))' = Unattempted(View(q))
  BY <1>1 DEF Stamped, Unattempted
<1> QED BY <1>1, <1>2, <1>3 DEF Attesting

LEMMA TheRunAttests ==
  ASSUME DInv, TInv, NEW r \in Runs, run[r].pc \in Labels,
         NEW locals, run' = [run EXCEPT ![r] = locals],
         Unattempted(db)', Minted', Attesting(r)'
  PROVE  TInv'
<1>1. \A q \in Runs : q # r => run'[q] = run[q]
  BY DEF DInv, IInv, TypeOK
<1>2. \A q \in Runs : q # r => run[q].pc \notin Labels
  BY InsideAlone
<1> QED BY <1>1, <1>2 DEF TInv

\* The tables of attempts and the evidence of the rows, when db stays.
LEMMA DbStays ==
  ASSUME TInv, db' = db, minted' = minted PROVE Unattempted(db)' /\ Minted'
  BY DEF TInv, Unattempted, Minted

LEMMA TheRunEndsAttested ==
  ASSUME DInv, TInv, NEW r \in Runs, run[r].pc \in Labels, End(r), UNCHANGED <<db, minted>>
  PROVE  TInv'
<1>1. \A q \in Runs : q # r => run'[q] = run[q]
  BY DEF DInv, IInv, TypeOK, End
<1>2. \A q \in Runs : q # r => run[q].pc \notin Labels
  BY InsideAlone
<1>3. run'[r].pc \notin Labels
  BY DEF DInv, IInv, TypeOK, End, Ended, Labels
<1> QED BY <1>1, <1>2, <1>3, DbStays DEF TInv

LEMMA StartAttests ==
  ASSUME DInv, TInv, NEW r \in Runs, Start(r) PROVE TInv'
<1>1. Unattempted(db)' /\ Minted' /\ db' = db /\ minted' = minted
  BY DbStays DEF Start
<1>2. CASE lock = NoRun
  <2>1. \A q \in Runs : run[q].pc \notin Labels
    BY <1>2, NobodyAssumption DEF DInv, Exclusion, OneRunAtATime, Inside, Labels
  <2>2. PICK k \in Call : run' = [run EXCEPT ![r] = Admitted(k)]
    BY <1>2 DEF Start
  <2>3. run'[r] = Admitted(k) /\ \A q \in Runs : q # r => run'[q] = run[q]
    BY <2>2 DEF DInv, IInv, TypeOK
  <2>4. run'[r].tx = NoTx /\ run'[r].pc = "plan"
    BY <2>3 DEF Admitted
  <2>5. Attesting(r)'
    BY <1>1, <2>4, NothingIsOpen DEF Attesting, Unattempted
  <2> QED BY <1>1, <2>1, <2>3, <2>5 DEF TInv
<1>3. CASE lock # NoRun
  <2>1. run'[r].pc \notin Labels /\ \A q \in Runs : q # r => run'[q] = run[q]
    BY <1>3 DEF Start, DInv, IInv, TypeOK, Ended, Labels
  <2>2. \A q \in Runs : run'[q].pc \in Labels => run'[q] = run[q] /\ Attesting(q)
    BY <2>1 DEF TInv
  <2> QED BY <1>1, <2>2, UntouchedAttests DEF TInv
<1> QED BY <1>2, <1>3

\* _plan adopts only rows that carry no fingerprint.
LEMMA AdoptedIsUnstamped ==
  ASSUME NEW k \in Call, NEW c \in Cells, PlannedStep(k, c).action = "adopt"
  PROVE  LET row == db.results[PlannedStep(k, c).source][c] IN
         row = NoRow \/ row.fingerprint = NULL
<1>1. k.on_mismatch \in {"error", "rerun"}
  BY PolicyAssumption DEF Call
<1>2. Policy(k, c) = "adopt" /\ PlannedStep(k, c).source = Source(k, c)
  BY DEF PlannedStep
<1> QED BY <1>1, <1>2 DEF Policy, Stored

LEMMA PlanAttests ==
  ASSUME DInv, TInv, NEW r \in Runs, Plan(r) PROVE TInv'
<1>1. run[r] \in Locals /\ run[r].pc \in Labels /\ run[r].pc = "plan"
  BY InsideIsTyped DEF DInv, IInv, Plan, At, Labels
<1>2. CASE \E c \in Cells : Conflict(run[r].call, c)
  BY <1>1, <1>2, TheRunEndsAttested DEF Plan
<1>3. CASE ~\E c \in Cells : Conflict(run[r].call, c)
  <2> DEFINE plan == [c \in Cells |-> PlannedStep(run[r].call, c)]
             locals == [run[r] EXCEPT !.steps = plan, !.pc = "adopt"]
  <2>1. run' = [run EXCEPT ![r] = locals] /\ db' = db /\ minted' = minted
    BY <1>3 DEF Plan
  <2>2. run'[r].pc = "adopt" /\ run'[r].tx = run[r].tx /\ run'[r].steps = plan
    BY <1>1, <2>1 DEF DInv, IInv, TypeOK, Locals
  <2>3. run'[r].tx = NoTx
    BY <1>1, <2>2, WhatIsInside DEF Accounted
  <2>4. run[r].call \in Call
    BY <1>1 DEF Locals
  <2>5. \A c \in Cells :
          run'[r].steps[c].action = "adopt" =>
            LET row == db'.results[run'[r].steps[c].source][c] IN
            row = NoRow \/ row.fingerprint = NULL
    BY <2>1, <2>2, <2>4, AdoptedIsUnstamped
  <2>6. AdoptsUnattempted(r)'
    BY <2>3, <2>5, NothingIsOpen DEF AdoptsUnattempted
  <2>7. Unattempted(db)' /\ Minted'
    BY <2>1, DbStays
  <2>8. Attesting(r)'
    BY <2>2, <2>3, <2>6, <2>7, NothingIsOpen DEF Attesting, Unattempted
  <2> QED BY <1>1, <2>1, <2>7, <2>8, TheRunAttests
<1> QED BY <1>2, <1>3

LEMMA ArchivedKeepsAttempts ==
  ASSUME NEW tables \in Tables, NEW r, NEW source, NEW c, NEW reason,
         NEW more, more = Archived(tables, r, source, c, reason)
  PROVE  more.results = tables.results /\ more.attempts = tables.attempts
  BY DEF Archived, Tables

LEMMA AdoptRowAttests ==
  ASSUME DInv, TInv, NEW r \in Runs, NEW c \in Cells, AdoptRow(r, c) PROVE TInv'
<1> DEFINE k == run[r].call
           source == run[r].steps[c].source
           more == Archived(View(r), r, source, c, run[r].steps[c].archive)
           row == more.results[source][c]
           stamped == [row EXCEPT !.fingerprint = k.fingerprint[c]]
           moved == [more.results EXCEPT ![source][c] = NoRow, ![k.experiment][c] = stamped]
           tables == [more EXCEPT !.results = moved]
           locals == [run[r] EXCEPT !.tx = tables, !.out[c] = "skipped"]
<1>1. run[r].pc = "adopt" /\ run[r].pc \in Labels /\ run[r].out[c] = "unreported"
      /\ run[r].steps[c].action = "adopt"
  BY Zenon DEF AdoptRow, At, Pending, Labels
<1>2. /\ Attesting(r) /\ AdoptsUnattempted(r) /\ Adopting(r) /\ StepIsSound(r, c)
      /\ run[r] \in Locals
  BY <1>1, WhatIsInside DEF Accounted, TInv, Attesting
<1>3. run[r].steps[c].archive \in Reasons
  BY <1>1, <1>2 DEF Locals, Step, Reasons
<1>4. source \in Strata
  BY <1>1, <1>2, WhatIsInside DEF StepIsSound, Strata
<1>5. more.results = View(r).results /\ more.attempts = View(r).attempts
  BY <1>1, WhatIsInside, ArchivedKeepsAttempts
<1>6. more \in Tables
  BY <1>1, <1>3, <1>4, WhatIsInside, ArchivedIsNumbered
<1>7. row = db.results[source][c]
  BY <1>1, <1>2, <1>4, <1>5 DEF Adopting, Changed
<1>8. CASE row = NoRow
  BY <1>1, <1>8, TheRunEndsAttested DEF AdoptRow
<1>9. CASE row # NoRow
  <2>1. run' = [run EXCEPT ![r] = locals] /\ db' = db /\ minted' = minted
    BY Zenon, <1>9 DEF AdoptRow
  <2>2. stamped \in Row /\ stamped.attempt = 0 /\ stamped.fingerprint # NULL
    <3>1. row \in Row
      BY <1>4, <1>6, <1>9 DEF Tables
    <3>2. row.fingerprint = NULL
      BY Zenon, <1>1, <1>2, <1>7, <1>9 DEF AdoptsUnattempted
    <3>3. row.attempt = 0
      BY <1>4, <1>7, <1>9, <3>2 DEF TInv, Unattempted
    <3>4. k.fingerprint[c] \in Fingerprints
      BY <1>1, WhatIsInside
    <3> QED BY Zenon, <3>1, <3>3, <3>4, AbsenceAssumption DEF Row
  <2>3. /\ tables \in Tables /\ tables.attempts = View(r).attempts
        /\ tables.results = moved
    <3>1. moved \in [Strata -> [Cells -> Row \cup {NoRow}]]
      BY Zenon, <1>1, <1>4, <1>6, <2>2, WhatIsInside DEF Tables
    <3> QED BY Zenon, <1>5, <1>6, <3>1 DEF Tables
  <2>4. \A x \in Strata, d \in Cells :
          moved[x][d] = View(r).results[x][d] \/ moved[x][d] \in {stamped, NoRow}
    <3>1. /\ View(r).results \in [Strata -> [Cells -> Row \cup {NoRow}]]
          /\ k.experiment \in Strata
      BY <1>1, WhatIsInside DEF Tables
    <3> HIDE DEF stamped, more
    <3>2. moved = [View(r).results EXCEPT ![source][c] = NoRow, ![k.experiment][c] = stamped]
      BY <1>5
    <3> HIDE DEF moved
    <3> QED BY Zenon, <1>4, <3>1, <3>2
  <2> HIDE DEF stamped, moved
  <2>5. Unattempted(tables)
    BY <1>2, <2>2, <2>3, <2>4 DEF Unattempted, Attesting
  <2>6. \A x \in Strata, d \in Cells :
          Changed(tables, x, d) /\ tables.results[x][d] # NoRow =>
            tables.results[x][d].attempt = 0
    BY <1>2, <2>2, <2>3, <2>4 DEF AdoptsUnattempted, Changed
  <2>7. /\ run'[r].pc = "adopt" /\ run'[r].tx = tables /\ run'[r].call = k
        /\ run'[r].steps = run[r].steps
        /\ run'[r].out = [run[r].out EXCEPT ![c] = "skipped"]
    BY <1>1, <1>2, <2>1 DEF DInv, IInv, TypeOK, Locals
  <2> HIDE DEF tables
  <2>8. View(r)' = tables
    BY <2>3, <2>7, AbsenceAssumption DEF View
  <2>9. \A d \in Cells :
          LET old == db.results[run[r].steps[d].source][d] IN
          run'[r].out[d] = "unreported" /\ run[r].steps[d].action = "adopt" =>
            old = NoRow \/ old.fingerprint = NULL
    BY <1>2, <2>7 DEF AdoptsUnattempted, Locals
  <2>10. db' = db /\ run'[r].steps = run[r].steps
    BY <2>1, <2>7
  <2>11. AdoptsUnattempted(r)'
    BY <2>6, <2>8, <2>9, <2>10 DEF AdoptsUnattempted, Changed
  <2>12. Unattempted(db)' /\ Minted'
    BY <2>1, DbStays
  <2>13. View(r)'.attempts = db'.attempts /\ Unattempted(View(r))'
    BY <1>1, <1>2, <2>3, <2>5, <2>8, <2>10 DEF Attesting, Unattempted
  <2>14. Attesting(r)'
    BY <2>7, <2>11, <2>13 DEF Attesting
  <2> QED BY <1>1, <2>1, <2>12, <2>14, TheRunAttests
<1> QED BY <1>8, <1>9

\* Back in the loop, without a transaction, there is only db to answer for.
LEMMA TheLoopAttests ==
  ASSUME DInv, TInv, NEW r \in Runs, run[r].pc \in Labels,
         NEW locals, run' = [run EXCEPT ![r] = locals],
         locals.pc = "next", locals.tx = NoTx, Unattempted(db)', Minted'
  PROVE  TInv'
<1>1. run'[r] = locals
  BY DEF DInv, IInv, TypeOK
<1>2. Attesting(r)'
  BY <1>1, NothingIsOpen DEF Attesting, Unattempted
<1> QED BY <1>2, TheRunAttests

LEMMA LoopAttests ==
  ASSUME DInv, TInv, NEW r \in Runs,
         \/ CommitAdoptions(r) \/ CommitOutcome(r) \/ \E c \in Cells : Skip(r, c)
  PROVE  TInv'
<1>1. run[r].pc \in Labels
  BY DEF CommitAdoptions, CommitOutcome, Skip, At, Labels
<1>2. run[r] \in Locals /\ Attesting(r) /\ Unattempted(View(r))
  BY <1>1, WhatIsInside DEF TInv, Attesting
<1>3. CASE CommitAdoptions(r)
  <2> DEFINE locals == [run[r] EXCEPT !.tx = NoTx, !.pc = "next"]
  <2>1. run' = [run EXCEPT ![r] = locals] /\ db' = View(r) /\ minted' = minted
    BY <1>3 DEF CommitAdoptions
  <2>2. locals.pc = "next" /\ locals.tx = NoTx
    BY <1>2 DEF Locals
  <2>3. View(r).attempts = db.attempts
    BY <1>2, <1>3 DEF Attesting, CommitAdoptions, At
  <2>4. Unattempted(db)' /\ Minted'
    BY <1>2, <2>1, <2>3 DEF Unattempted, Minted, TInv
  <2> HIDE DEF locals
  <2> QED BY <1>1, <2>1, <2>2, <2>4, TheLoopAttests
<1>4. CASE CommitOutcome(r)
  <2> DEFINE locals == [run[r] EXCEPT !.tx = NoTx, !.out[run[r].cell] = run[r].status,
                                      !.pc = "next"]
  <2>1. run' = [run EXCEPT ![r] = locals] /\ db' = View(r) /\ minted' = minted
    BY <1>4 DEF CommitOutcome
  <2>2. locals.pc = "next" /\ locals.tx = NoTx
    BY <1>2 DEF Locals
  <2>3. Stamped(r)
    BY <1>2, <1>4 DEF Attesting, CommitOutcome, At
  <2>4. Finalised(r).attempt_id = Begun(r).attempt_id
    BY DEF Finalised, Begun
  <2>5. Minted'
    BY <2>1, <2>3, <2>4 DEF Minted, Stamped, TInv
  <2>6. Unattempted(db)'
    BY <1>2, <2>1 DEF Unattempted
  <2> HIDE DEF locals
  <2> QED BY <1>1, <2>1, <2>2, <2>5, <2>6, TheLoopAttests
<1>5. ASSUME NEW c \in Cells, Skip(r, c) PROVE TInv'
  <2> DEFINE locals == [run[r] EXCEPT !.out[c] = "skipped"]
  <2>1. run' = [run EXCEPT ![r] = locals] /\ db' = db /\ minted' = minted
    BY <1>5 DEF Skip
  <2>2. run[r].pc = "next" /\ run[r].tx = NoTx
    BY <1>1, <1>5, WhatIsInside DEF Skip, At, Accounted
  <2>3. locals.pc = "next" /\ locals.tx = NoTx
    BY <1>2, <2>2 DEF Locals
  <2>4. Unattempted(db)' /\ Minted'
    BY <2>1, DbStays
  <2> HIDE DEF locals
  <2> QED BY <1>1, <2>1, <2>3, <2>4, TheLoopAttests
<1> QED BY <1>3, <1>4, <1>5

\* _begin_attempt: the token is new, and so is the one row that carries it.
LEMMA BeginAttests ==
  ASSUME DInv, TInv, NEW r \in Runs, NEW c \in Cells, BeginAttempt(r, c) PROVE TInv'
<1> DEFINE begun == [attempt_id |-> minted + 1, experiment |-> run[r].call.experiment,
                     cell |-> c, fingerprint |-> run[r].call.fingerprint[c],
                     status |-> "running"]
           locals == [run[r] EXCEPT !.cell = c, !.attempt_id = minted + 1,
                                    !.standin = FALSE, !.pc = "cell"]
<1>1. run[r].pc \in Labels /\ run[r].pc = "next"
  BY DEF BeginAttempt, At, Labels
<1>2. run[r] \in Locals /\ run[r].tx = NoTx /\ minted \in Nat
  BY <1>1, WhatIsInside DEF Accounted, DInv, IInv, TypeOK
<1>3. /\ run' = [run EXCEPT ![r] = locals] /\ minted' = minted + 1
      /\ db'.attempts = db.attempts \cup {begun} /\ db'.results = db.results
  BY DEF BeginAttempt, DInv, IInv, TypeOK, Tables
<1>4. begun.attempt_id = minted + 1
  OBVIOUS
<1>5. /\ locals.pc = "cell" /\ locals.tx = NoTx /\ locals.call = run[r].call
      /\ locals.cell = c /\ locals.attempt_id = minted + 1
  BY <1>2 DEF Locals
<1> HIDE DEF locals
<1>6. run'[r] = locals
  BY <1>3 DEF DInv, IInv, TypeOK
<1>7. Begun(r)' = begun
  BY <1>5, <1>6 DEF Begun
<1> HIDE DEF begun
<1>8. \A a \in db.attempts : a.attempt_id # minted + 1 /\ a.attempt_id \in 1..(minted + 1)
  BY <1>2 DEF TInv, Minted
<1>9. Minted'
  BY <1>2, <1>3, <1>4, <1>8 DEF TInv, Minted
<1>10. Unattempted(db)'
  BY <1>3 DEF TInv, Unattempted
<1>11. OneAttempt(r)'
  <2>1. run'[r].attempt_id \in 1..minted'
    BY <1>2, <1>3, <1>5, <1>6
  <2>2. \A a \in db'.attempts : a.attempt_id = run'[r].attempt_id => a = Begun(r)'
    BY <1>3, <1>5, <1>6, <1>7, <1>8
  <2>3. \A x \in Strata, d \in Cells : ~Changed(View(r), x, d)'
    BY <1>5, <1>6, NothingIsOpen
  <2> QED BY <2>1, <2>2, <2>3 DEF OneAttempt
<1>12. Attesting(r)'
  BY <1>5, <1>6, <1>10, <1>11, NothingIsOpen DEF Attesting, Unattempted
<1> QED BY <1>1, <1>3, <1>9, <1>10, <1>12, TheRunAttests

\* A step of the run in hand that leaves db alone: `after` is what it then sees.
LEMMA TheAttemptGoesOn ==
  ASSUME DInv, TInv, NEW r \in Runs,
         run[r].pc \in {"cell", "archive", "insert", "delete", "stamp", "commit"},
         NEW locals, run' = [run EXCEPT ![r] = locals], db' = db, minted' = minted,
         locals.call = run[r].call, locals.cell = run[r].cell,
         locals.attempt_id = run[r].attempt_id,
         locals.pc \in {"archive", "insert", "delete", "stamp", "commit"},
         NEW after, after = IF locals.tx = NoTx THEN db ELSE locals.tx,
         Unattempted(after),
         \A x \in Strata, c \in Cells :
           Changed(after, x, c) /\ after.results[x][c] # NoRow => x = run[r].call.experiment,
         locals.pc # "commit" => after.attempts = db.attempts,
         locals.pc \in {"delete", "stamp", "commit"} =>
           after.results[run[r].call.experiment][run[r].cell] =
             [OutcomeRow(r) EXCEPT !.status = locals.status],
         locals.pc = "commit" =>
           /\ Begun(r) \in db.attempts
           /\ after.attempts = (db.attempts \ {Begun(r)})
                                 \cup {[Begun(r) EXCEPT !.status = locals.status]}
  PROVE  TInv'
<1>1. run[r].pc \in Labels /\ OneAttempt(r)
  BY DEF Labels, TInv, Attesting
<1>2. run'[r] = locals
  BY DEF DInv, IInv, TypeOK
<1>3. View(r)' = after
  BY <1>2 DEF View
<1>4. Begun(r)' = Begun(r)
  BY <1>2 DEF Begun
<1>5. OutcomeRow(r)' = [OutcomeRow(r) EXCEPT !.status = locals.status]
  BY <1>2 DEF OutcomeRow
<1>6. Finalised(r)' = [Begun(r) EXCEPT !.status = locals.status]
  BY <1>2, <1>4 DEF Finalised
<1>7. Unattempted(db)' /\ Minted'
  BY DbStays
<1>8. OneAttempt(r)'
  BY <1>1, <1>2, <1>3, <1>4 DEF OneAttempt, Changed
<1>9. Unattempted(View(r))'
  BY <1>3 DEF Unattempted
<1>10. locals.pc = "commit" => Stamped(r)'
  BY <1>3, <1>4, <1>6 DEF Stamped
<1>11. Attesting(r)'
  BY <1>2, <1>3, <1>5, <1>8, <1>9, <1>10 DEF Attesting
<1> QED BY <1>1, <1>7, <1>11, TheRunAttests

LEMMA RunCellAttests ==
  ASSUME DInv, TInv, NEW r \in Runs, RunCell(r) PROVE TInv'
<1>1. run[r].pc = "cell" /\ run[r].pc \in Labels
  BY DEF RunCell, At, Labels
<1>2. run[r] \in Locals /\ run[r].tx = NoTx
  BY <1>1, WhatIsInside DEF Accounted
<1>3. PICK s \in Statuses :
        run' = [run EXCEPT ![r] = [run[r] EXCEPT !.status = s, !.pc = "archive"]]
  BY DEF RunCell
<1> DEFINE locals == [run[r] EXCEPT !.status = s, !.pc = "archive"]
<1>4. /\ locals.pc = "archive" /\ locals.tx = NoTx /\ locals.call = run[r].call
      /\ locals.cell = run[r].cell /\ locals.attempt_id = run[r].attempt_id
  BY <1>2 DEF Locals
<1>5. run' = [run EXCEPT ![r] = locals] /\ db' = db /\ minted' = minted
  BY <1>3 DEF RunCell
<1>6. Unattempted(db) /\ \A x \in Strata, c \in Cells : ~Changed(db, x, c)
  BY NothingIsRecorded DEF TInv
<1> HIDE DEF locals
<1> QED BY <1>1, <1>4, <1>5, <1>6, TheAttemptGoesOn

LEMMA OversizedAttests ==
  ASSUME DInv, TInv, NEW r \in Runs, Oversized(r) PROVE TInv'
<1> DEFINE locals == [run[r] EXCEPT !.tx = NoTx, !.standin = TRUE,
                                    !.status = "failed", !.pc = "archive"]
<1>1. run[r].pc \in {"archive", "insert", "stamp", "commit"} /\ run[r].pc \in Labels
  BY DEF Oversized, Labels
<1>2. CASE run[r].standin
  BY <1>1, <1>2, TheRunEndsAttested DEF Oversized
<1>3. CASE ~run[r].standin
  <2>1. run' = [run EXCEPT ![r] = locals] /\ db' = db /\ minted' = minted
    BY <1>3 DEF Oversized
  <2>2. /\ locals.pc = "archive" /\ locals.tx = NoTx /\ locals.call = run[r].call
        /\ locals.cell = run[r].cell /\ locals.attempt_id = run[r].attempt_id
    BY <1>1, WhatIsInside DEF Locals
  <2>3. Unattempted(db) /\ \A x \in Strata, c \in Cells : ~Changed(db, x, c)
    BY NothingIsRecorded DEF TInv
  <2> HIDE DEF locals
  <2> QED BY <1>1, <2>1, <2>2, <2>3, TheAttemptGoesOn
<1> QED BY <1>2, <1>3

LEMMA ArchiveRowAttests ==
  ASSUME DInv, TInv, NEW r \in Runs, ArchiveRow(r) PROVE TInv'
<1> DEFINE copied == Archived(View(r), r, StepOf(r).source, run[r].cell, StepOf(r).archive)
           tables == IF StepOf(r).archive = NULL THEN run[r].tx ELSE copied
           after == IF tables = NoTx THEN db ELSE tables
           locals == [run[r] EXCEPT !.tx = tables, !.pc = "insert"]
<1>1. run[r].pc = "archive" /\ run[r].pc \in Labels
  BY DEF ArchiveRow, Statement, At, Labels
<1>2. run[r] \in Locals /\ run[r].tx = NoTx /\ View(r) = db /\ Unattempted(db)
  BY <1>1, WhatIsFinalised DEF Accounted, View, TInv
<1>3. run' = [run EXCEPT ![r] = locals] /\ db' = db /\ minted' = minted
  BY DEF ArchiveRow, Statement
<1>4. /\ locals.pc = "insert" /\ locals.tx = tables /\ locals.call = run[r].call
      /\ locals.cell = run[r].cell /\ locals.attempt_id = run[r].attempt_id
  BY <1>2 DEF Locals
<1>5. copied.results = db.results /\ copied.attempts = db.attempts
  <2>1. db \in Tables
    BY DEF DInv, IInv, TypeOK
  <2> HIDE DEF copied
  <2>2. copied = Archived(db, r, StepOf(r).source, run[r].cell, StepOf(r).archive)
    BY <1>2 DEF copied
  <2> QED BY <2>1, <2>2, ArchivedKeepsAttempts
<1>6. after.results = db.results /\ after.attempts = db.attempts
  BY <1>2, <1>5
<1> HIDE DEF after
<1>7. Unattempted(after) /\ \A x \in Strata, c \in Cells : ~Changed(after, x, c)
  BY <1>2, <1>6 DEF Unattempted, Changed
<1>8. after = IF locals.tx = NoTx THEN db ELSE locals.tx
  BY <1>4 DEF after
<1> HIDE DEF tables, locals
<1> QED BY <1>1, <1>3, <1>4, <1>6, <1>7, <1>8, TheAttemptGoesOn

\* The statements after the archive's, each by the tables it leaves.
LEMMA InsertRowAttests ==
  ASSUME DInv, TInv, NEW r \in Runs, InsertRow(r) PROVE TInv'
<1> DEFINE k == run[r].call
           c == run[r].cell
           V == View(r)
           tables == [V EXCEPT !.results[k.experiment][c] = OutcomeRow(r)]
           locals == [run[r] EXCEPT !.tx = tables, !.pc = "delete"]
<1>1. run[r].pc = "insert" /\ run[r].pc \in Labels
  BY DEF InsertRow, Statement, At, Labels
<1>2. /\ run[r] \in Locals /\ V \in Tables /\ c \in Cells /\ k.experiment \in Strata
      /\ k.fingerprint[c] \in Fingerprints
      /\ Attesting(r) /\ OneAttempt(r) /\ Unattempted(V) /\ V.attempts = db.attempts
  BY <1>1, WhatIsInside, WhatIsFinalised DEF TInv, Attesting
<1>3. run' = [run EXCEPT ![r] = locals] /\ db' = db /\ minted' = minted
  BY DEF InsertRow, Statement, OutcomeRow
<1>4. OutcomeRow(r) \in Row /\ OutcomeRow(r).fingerprint # NULL
      /\ [OutcomeRow(r) EXCEPT !.status = run[r].status] = OutcomeRow(r)
  BY <1>2, AbsenceAssumption DEF OutcomeRow, Row, Locals
<1>5. /\ tables \in Tables /\ tables.attempts = V.attempts
      /\ tables.results[k.experiment][c] = OutcomeRow(r)
      /\ \A x \in Strata, d \in Cells : ~(x = k.experiment /\ d = c) =>
           tables.results[x][d] = V.results[x][d]
  BY <1>2, <1>4 DEF Tables
<1>6. /\ locals.pc = "delete" /\ locals.tx = tables /\ locals.call = run[r].call
      /\ locals.cell = run[r].cell /\ locals.attempt_id = run[r].attempt_id
      /\ locals.status = run[r].status
  BY <1>2 DEF Locals
<1> HIDE DEF tables, locals
<1>7. tables = IF locals.tx = NoTx THEN db ELSE locals.tx
  BY <1>5, <1>6, AbsenceAssumption
<1>8. Unattempted(tables)
  BY <1>2, <1>4, <1>5 DEF Unattempted
<1>9. \A x \in Strata, d \in Cells :
        Changed(tables, x, d) /\ tables.results[x][d] # NoRow => x = run[r].call.experiment
  BY <1>2, <1>5 DEF OneAttempt, Changed
<1>10. /\ tables.results[run[r].call.experiment][run[r].cell] =
            [OutcomeRow(r) EXCEPT !.status = locals.status]
       /\ tables.attempts = db.attempts
  BY <1>2, <1>4, <1>5, <1>6
<1> QED BY <1>1, <1>3, <1>6, <1>7, <1>8, <1>9, <1>10, TheAttemptGoesOn

LEMMA DeleteSourceAttests ==
  ASSUME DInv, TInv, NEW r \in Runs, DeleteSource(r) PROVE TInv'
<1> DEFINE k == run[r].call
           c == run[r].cell
           V == View(r)
           source == StepOf(r).source
           cleared == [V EXCEPT !.results[source][c] = NoRow]
           tables == IF source = k.experiment THEN V ELSE cleared
           locals == [run[r] EXCEPT !.tx = tables, !.pc = "stamp"]
<1>1. run[r].pc = "delete" /\ run[r].pc \in Labels
  BY DEF DeleteSource, Statement, At, Labels
<1>2. /\ run[r] \in Locals /\ V \in Tables /\ c \in Cells /\ k.experiment \in Strata
      /\ source \in Strata
      /\ OneAttempt(r) /\ Unattempted(V) /\ V.attempts = db.attempts
      /\ V.results[k.experiment][c] = OutcomeRow(r)
  BY <1>1, WhatIsInside, WhatIsFinalised DEF TInv, Attesting
<1>3. run' = [run EXCEPT ![r] = locals] /\ db' = db /\ minted' = minted
  BY DEF DeleteSource, Statement
<1>4. [OutcomeRow(r) EXCEPT !.status = run[r].status] = OutcomeRow(r)
  BY DEF OutcomeRow
<1>5. /\ tables \in Tables /\ tables.attempts = V.attempts
      /\ tables.results[k.experiment][c] = OutcomeRow(r)
      /\ \A x \in Strata, d \in Cells : tables.results[x][d] \in {NoRow, V.results[x][d]}
  BY <1>2 DEF Tables
<1>6. /\ locals.pc = "stamp" /\ locals.tx = tables /\ locals.call = run[r].call
      /\ locals.cell = run[r].cell /\ locals.attempt_id = run[r].attempt_id
      /\ locals.status = run[r].status
  BY <1>2 DEF Locals
<1> HIDE DEF tables, locals
<1>7. tables = IF locals.tx = NoTx THEN db ELSE locals.tx
  BY <1>5, <1>6, AbsenceAssumption
<1>8. Unattempted(tables)
  BY <1>2, <1>5 DEF Unattempted
<1>9. \A x \in Strata, d \in Cells :
        Changed(tables, x, d) /\ tables.results[x][d] # NoRow => x = run[r].call.experiment
  BY <1>2, <1>5 DEF OneAttempt, Changed
<1>10. /\ tables.results[run[r].call.experiment][run[r].cell] =
            [OutcomeRow(r) EXCEPT !.status = locals.status]
       /\ tables.attempts = db.attempts
  BY <1>2, <1>4, <1>5, <1>6
<1> QED BY <1>1, <1>3, <1>6, <1>7, <1>8, <1>9, <1>10, TheAttemptGoesOn

LEMMA StampAttemptAttests ==
  ASSUME DInv, TInv, NEW r \in Runs, StampAttempt(r) PROVE TInv'
<1> DEFINE k == run[r].call
           V == View(r)
           mine == {a \in V.attempts : a.attempt_id = run[r].attempt_id}
           stamped == {[a EXCEPT !.status = run[r].status] : a \in mine}
           tables == [V EXCEPT !.attempts = (@ \ mine) \cup stamped]
           locals == [run[r] EXCEPT !.tx = tables, !.pc = "commit"]
<1>1. run[r].pc = "stamp" /\ run[r].pc \in Labels
  BY DEF StampAttempt, At, Labels
<1>2. /\ run[r] \in Locals /\ V \in Tables
      /\ OneAttempt(r) /\ Unattempted(V) /\ V.attempts = db.attempts
      /\ V.results[k.experiment][run[r].cell] = OutcomeRow(r)
  BY <1>1, WhatIsInside DEF TInv, Attesting
<1>3. CASE mine = {}
  BY <1>1, <1>3, TheRunEndsAttested DEF StampAttempt
<1>4. CASE mine # {}
  <2>1. run' = [run EXCEPT ![r] = locals] /\ db' = db /\ minted' = minted
    BY <1>4 DEF StampAttempt
  <2>2. Begun(r) \in db.attempts /\ mine = {Begun(r)}
    BY <1>2, <1>4 DEF OneAttempt, Begun
  <2>3. stamped = {Finalised(r)}
    BY <2>2 DEF Finalised
  <2>4. stamped \subseteq Attempt
    BY <1>2 DEF Tables, Attempt, Locals
  <2> HIDE DEF mine, stamped
  <2>5. /\ tables \in Tables /\ tables.results = V.results
        /\ tables.attempts = (db.attempts \ {Begun(r)}) \cup {Finalised(r)}
    BY <1>2, <2>2, <2>3, <2>4 DEF Tables
  <2>6. /\ locals.pc = "commit" /\ locals.tx = tables /\ locals.call = run[r].call
        /\ locals.cell = run[r].cell /\ locals.attempt_id = run[r].attempt_id
        /\ locals.status = run[r].status
    BY <1>2 DEF Locals
  <2> HIDE DEF tables, locals
  <2>7. tables = IF locals.tx = NoTx THEN db ELSE locals.tx
    BY <2>5, <2>6, AbsenceAssumption
  <2>8. Unattempted(tables)
    BY <1>2, <2>5 DEF Unattempted
  <2>9. \A x \in Strata, d \in Cells :
          Changed(tables, x, d) /\ tables.results[x][d] # NoRow => x = run[r].call.experiment
    BY <1>2, <2>5 DEF OneAttempt, Changed
  <2>10. /\ tables.results[run[r].call.experiment][run[r].cell] =
              [OutcomeRow(r) EXCEPT !.status = locals.status]
         /\ tables.attempts = (db.attempts \ {Begun(r)})
                                \cup {[Begun(r) EXCEPT !.status = locals.status]}
    BY <1>2, <2>5, <2>6 DEF OutcomeRow, Finalised
  <2> QED BY <1>1, <2>1, <2>2, <2>6, <2>7, <2>8, <2>9, <2>10, TheAttemptGoesOn
<1> QED BY <1>3, <1>4

\* An attempt or a row deleted between transactions leaves the rest as it was.
LEMMA ForeignDeleteAttests ==
  ASSUME DInv, TInv, ForeignDelete PROVE TInv'
<1>1. \A r \in Runs : run[r].pc \in Labels => run[r].tx = NoTx
  BY DEF ForeignDelete, Quiescent, Inside, Labels
<1>2. run' = run /\ minted' = minted
  BY DEF ForeignDelete
<1>3. /\ db'.attempts \subseteq db.attempts
      /\ \A x \in Strata, c \in Cells : db'.results[x][c] \in {db.results[x][c], NoRow}
  <2>1. db \in Tables
    BY DEF DInv, IInv, TypeOK
  <2>2. ASSUME NEW a \in db.attempts, db' = [db EXCEPT !.attempts = @ \ {a}]
        PROVE  db'.attempts \subseteq db.attempts /\ db'.results = db.results
    BY <2>1, <2>2 DEF Tables
  <2>3. ASSUME NEW x \in Strata, NEW c \in Cells,
               db' = [db EXCEPT !.results[x][c] = NoRow]
        PROVE  /\ db'.attempts = db.attempts
               /\ \A y \in Strata, d \in Cells :
                    db'.results[y][d] \in {db.results[y][d], NoRow}
    BY <2>1, <2>3 DEF Tables
  <2> QED BY <2>2, <2>3 DEF ForeignDelete
<1>4. Unattempted(db)' /\ Minted'
  BY <1>2, <1>3 DEF TInv, Unattempted, Minted
<1>5. ASSUME NEW r \in Runs, run[r].pc \in Labels PROVE Attesting(r)'
  <2>1. /\ run[r].tx = NoTx /\ View(r)' = db' /\ Attesting(r) /\ Accounted(r)
        /\ run[r] \in Locals
    BY <1>1, <1>2, <1>5, WhatIsInside DEF View, TInv
  <2>2. \A x \in Strata, c \in Cells : ~Changed(View(r), x, c)'
    BY <1>2, <2>1, NothingIsOpen
  <2>3. run[r].pc = "adopt" => AdoptsUnattempted(r)'
    <3>1. SUFFICES ASSUME run[r].pc = "adopt" PROVE AdoptsUnattempted(r)'
      OBVIOUS
    <3>2. \A c \in Cells : run[r].steps[c].source \in Strata
      BY <2>1 DEF Locals, Step
    <3>3. \A c \in Cells :
            db'.results[run[r].steps[c].source][c]
              \in {db.results[run[r].steps[c].source][c], NoRow}
      BY <1>3, <3>2
    <3> QED BY Zenon, <1>2, <2>1, <2>2, <3>1, <3>3 DEF AdoptsUnattempted, Attesting
  <2>4. OneAttempt(r) => OneAttempt(r)'
    BY <1>2, <1>3, <2>2 DEF OneAttempt, Begun
  <2>5. run[r].pc \notin {"delete", "stamp", "commit"}
    BY <2>1 DEF Accounted, Installed
  <2> QED BY <1>2, <1>4, <2>1, <2>3, <2>4, <2>5 DEF Attesting, Unattempted
<1> QED BY <1>2, <1>4, <1>5 DEF TInv

LEMMA ForkAttests ==
  ASSUME TInv, \/ UNCHANGED vars
               \/ \E r \in Runs : Fork(r) \/ ChildExit(r)
  PROVE  TInv'
<1>1. run' = run /\ db' = db /\ minted' = minted
  BY DEF Fork, ChildExit, vars
<1> QED BY <1>1, DbStays, UntouchedAttests DEF TInv

LEMMA AttestInductive == Spec => [](DInv /\ TInv)
<1>1. Init => TInv
  <2> SUFFICES ASSUME Init PROVE TInv
    OBVIOUS
  <2>1. \A r \in Runs : run[r].pc \notin Labels
    BY DEF Init, Idle, Labels
  <2>2. Unattempted(db) /\ Minted
    BY DEF Init, Unattempted, Minted
  <2> QED BY <2>1, <2>2 DEF TInv
<1>2. DInv /\ TInv /\ [Next]_vars => TInv'
  <2> SUFFICES ASSUME DInv, TInv, [Next]_vars PROVE TInv'
    OBVIOUS
  <2>1. ASSUME NEW r \in Runs, RunStep(r) PROVE TInv'
    <3>1. CASE Stop(r) \/ Return(r)
      <4>1. run[r].pc \in Labels
        BY <3>1 DEF Stop, Return, Inside, At, DInv, IInv, TypeOK, Locals, Idle, Ended, Labels
      <4> QED BY <3>1, <4>1, TheRunEndsAttested DEF Stop, Return
    <3>2. ASSUME NEW c \in Cells, AdoptRow(r, c) \/ BeginAttempt(r, c) PROVE TInv'
      BY <3>2, AdoptRowAttests, BeginAttests
    <3> QED
      BY <2>1, <3>1, <3>2, StartAttests, PlanAttests, LoopAttests, RunCellAttests,
         ArchiveRowAttests, InsertRowAttests, DeleteSourceAttests,
         StampAttemptAttests, OversizedAttests, ForkAttests
         DEF RunStep, Own
  <2> QED BY <2>1, ForeignDeleteAttests, ForkAttests DEF Next
<1> QED BY <1>1, <1>2, AccountInductive, PTL DEF Spec

\* What a commit of _finalise changes: its own attempt, and the row it installs.
LEMMA OutcomeIsAttested ==
  ASSUME DInv, TInv, NEW r \in Runs, CommitOutcome(r) PROVE Attested
<1>1. run[r].pc = "commit" /\ run[r].pc \in Labels /\ db' = View(r)
  BY DEF CommitOutcome, At, Labels
<1>2. /\ Stamped(r) /\ OneAttempt(r) /\ Finalising(r) /\ run[r] \in Locals
      /\ View(r).results[run[r].call.experiment][run[r].cell] = OutcomeRow(r)
      /\ OutcomeRow(r) # NoRow
  BY <1>1, WhatIsInside DEF TInv, Attesting, Accounted, Installed
<1>3. run[r].status \in Statuses
  BY <1>2 DEF Locals
<1>4. Begun(r) # Finalised(r) /\ Begun(r) \notin db'.attempts
  BY <1>1, <1>2, <1>3 DEF Begun, Finalised, Stamped, Statuses
<1>5. ASSUME NEW a \in db.attempts, a \notin db'.attempts
      PROVE  /\ a.status = "running"
             /\ LET row == db'.results[a.experiment][a.cell] IN
                /\ row # NoRow /\ row.attempt = a.attempt_id
                /\ row.fingerprint = a.fingerprint
                /\ [a EXCEPT !.status = row.status] \in db'.attempts
  <2>1. a = Begun(r)
    BY <1>1, <1>2, <1>5 DEF Stamped
  <2>2. a.experiment = run[r].call.experiment /\ a.cell = run[r].cell
        /\ a.status = "running" /\ a.attempt_id = run[r].attempt_id
        /\ a.fingerprint = run[r].call.fingerprint[run[r].cell]
    BY <2>1 DEF Begun
  <2>3. db'.results[a.experiment][a.cell] = OutcomeRow(r)
    BY <1>1, <1>2, <2>2
  <2>4. [a EXCEPT !.status = OutcomeRow(r).status] = Finalised(r)
    BY <2>1 DEF OutcomeRow, Finalised
  <2>5. Finalised(r) \in db'.attempts
    BY <1>1, <1>2 DEF Stamped
  <2> QED BY <1>2, <2>2, <2>3, <2>4, <2>5 DEF OutcomeRow
<1>6. ASSUME NEW x \in Strata, NEW c \in Cells,
             db'.results[x][c] # db.results[x][c], db'.results[x][c] # NoRow
      PROVE  \E a \in db.attempts :
               a.attempt_id = db'.results[x][c].attempt /\ a \notin db'.attempts
  <2>1. x = run[r].call.experiment /\ c = run[r].cell
    BY <1>1, <1>2, <1>6 DEF OneAttempt, Finalising, Changed
  <2>2. db'.results[x][c].attempt = Begun(r).attempt_id
    BY <1>1, <1>2, <2>1 DEF OutcomeRow, Begun
  <2> QED BY <1>2, <1>4, <2>2 DEF Stamped
<1> QED BY <1>5, <1>6 DEF Attested

LEMMA StepsAreAttested ==
  ASSUME DInv, TInv, [Next]_vars PROVE Attested
<1>1. ASSUME db'.results = db.results, db.attempts \subseteq db'.attempts PROVE Attested
  BY <1>1 DEF Attested
<1>2. CASE ForeignDelete
  BY <1>2 DEF ForeignDelete, Attested, DInv, IInv, TypeOK
<1>3. CASE UNCHANGED vars
  BY <1>1, <1>3 DEF vars
<1>4. ASSUME NEW r \in Runs, RunStep(r) PROVE Attested
  <2>1. CASE CommitAdoptions(r)
    <3>1. run[r].pc = "adopt" /\ run[r].pc \in Labels /\ db' = View(r)
      BY <2>1 DEF CommitAdoptions, At, Labels
    <3>2. View(r).attempts = db.attempts /\ AdoptsUnattempted(r)
      BY <3>1 DEF TInv, Attesting
    <3> QED BY <3>1, <3>2 DEF Attested, AdoptsUnattempted, Changed
  <2>2. ASSUME NEW c \in Cells, BeginAttempt(r, c) PROVE Attested
    BY <1>1, <2>2 DEF BeginAttempt, DInv, IInv, TypeOK, Tables
  <2>3. ASSUME NEW c \in Cells, AdoptRow(r, c) \/ Skip(r, c) PROVE db' = db
    BY Zenon, <2>3 DEF AdoptRow, Skip
  <2>4. CASE \/ Start(r) \/ Plan(r) \/ Return(r) \/ ArchiveRow(r) \/ InsertRow(r)
             \/ DeleteSource(r) \/ StampAttempt(r) \/ Oversized(r) \/ RunCell(r)
             \/ Fork(r) \/ ChildExit(r) \/ Stop(r)
    <3>1. db' = db
      BY Zenon, <2>4 DEF Start, Plan, Return, ArchiveRow, InsertRow, DeleteSource, StampAttempt,
                  Oversized, RunCell, Fork, ChildExit, Stop, Statement
    <3> QED BY <1>1, <3>1
  <2> QED
    BY <1>1, <1>4, <2>1, <2>2, <2>3, <2>4, OutcomeIsAttested DEF RunStep, Own
<1> QED BY <1>2, <1>3, <1>4 DEF Next

\* _finalise: the results write and the attempt's finalisation are one fact.
THEOREM OutcomesAttested == Spec => OutcomesAreAttested
<1>1. DInv /\ TInv /\ [Next]_vars => [Attested]_vars
  BY StepsAreAttested
<1> QED BY <1>1, AttestInductive, PTL DEF Spec, OutcomesAreAttested
=============================================================================
