# pyteman in TLA+

pyteman is a fault injector for Python programs. A ruleset names attributes of
the target program (`module:dotted.name`); pyteman replaces each by a
*dispatcher* that runs the rules of that attribute around the original callable,
writes one record per firing to a log shared by several processes, lets threads
meet at named barriers, and runs a matrix of experiments whose outcomes live in
an SQLite file. All of it runs inside somebody else's threads, event loops,
forks and kills. This directory models the parts of pyteman that keep state
across those, checks them with TLC on small instances, and proves part of what
is checked for every instance with TLAPS.

    tlc -workers 2 -config Barriers.cfg Barriers     # one run
    tlapm BarriersProofs.tla                         # one proof module

Source paths below are relative to `src/src/pyteman/`.

## 1. Inventory

| Part | State it keeps | Operations | Hard because |
|---|---|---|---|
| Slot installation (`patcher.py`: `_patch`, `_undo_one`, `_restore`, `_publish`, `_reserve_slot`, `_unextend`, `uninstall`, `displaced`) | the attributes of the target, `_SLOT_RESERVATIONS`, per Patcher `_wrapped`, `_inflight`, `_pending`, `applied`, per dispatcher its composite | install, extend, roll back, uninstall | every read and write may run target code that imports, which calls `_patch` again; threads; rival Patchers; a write that raises before or after it stored |
| Call dispatch (`patcher.py`: `_make_dispatcher`, `_make_coroutine_dispatcher`, `_serve_entries[_async]`; `actions.py`) | `comp.entries`, `comp.exits`, `has_async_sleep`, the per-call context, the log's records | serve a call, run and record an attempt | the ruleset grows and shrinks under calls in flight; each of gate, record, action and original may raise |
| Firing gate (`patcher.py`: `_gate`; `conditions.py`) | per rule a lock, `fires`, `seen_keys` | decide whether a rule fires | operator expressions are evaluated between three lock sections and may overlap, raise or hang |
| Barriers (`barriers.py`) | `_state`, `_generation`, one Event per name | `wait`, `open`, `reset_all` | `reset_all` sets old events after it left the lock |
| Firing log (`firing.py`) | the file, `flock`, `_lock`, `_seq`, `_closed` | `record`, `close` | short writes, failing unlock, several processes, kills, forks |
| Matrix runner (`runner/matrix.py`, `runner/lock.py`) | tables `results`, `superseded`, `attempts`; the run lock | `run_matrix` | kills between statements; policies that move rows; programs that ignore the lock |
| Schema versioning (`sqlitekit/versioning.py`, migrations of `matrix.py`) | the stamp in `schema_meta`, the tables' shape | open, refuse, migrate, stamp | autocommitted DDL mixed with transactions; kills; readers without a lock |
| Import hook and activation (`patcher.py`: `install_hook`, `activate`, `uninstall`; `sitecustomize.py`) | `builtins.__import__`, per Patcher `_hook` and `_orig_import` | hook, retry, unhook | hooks of several owners, uninstalled in any order, while imports go through them |
| Rules, pragmas, targets, integrity, report, notes, `sitecustomize` | none, or what one call builds | parse, classify, resolve, format | sequential; not concurrent, not persistent |

How they meet: the import hook calls `_patch` on every import, on the importing
thread. `_patch` builds dispatchers or extends them. A call of an attribute goes
through its dispatcher, which asks `_gate` for each rule and runs the action
through `run_action`; `run_action` writes to the firing log before and after the
action, and the `barrier` action calls `barriers.wait` or `open`. The matrix
runner is a program of its own that starts the instrumented target once a cell.

What makes each part correct, in one sentence each; the named definitions are in
the modules:

* *Installation*: the window from the second read of a slot to its write is one
  thread's and one Patcher's, nothing live is unrecorded, no dispatcher wraps
  another, a rollback takes out no install but its own, and no rule is lost.
* *Dispatch*: the original runs exactly once or was replaced, a phase serves the
  ruleset in order and each rule once, the log accounts for every attempt.
* *Gate*: one firing per key, `countdown` fires once, a key is consumed by a
  firing only.
* *Barriers*: a pass finds its barrier open, an open barrier admits, no waiter of
  a retired generation stays blocked.
* *Log*: an id names a whole line, a torn line has a poisoned or dead writer.
* *Matrix*: runs exclude each other, a completed row is displaced only with a
  record, an outcome and its attempt are one fact, completed work is not redone.
* *Schema*: a stamp means that nothing skipped was left to do, a refusal changed
  nothing, no reader takes rows of unknown origin for nameless ones.
* *Ledger*: a wrapper that stands is recorded, and an uninstall settles or reports
  all it found.
* *Hooks*: an import misses no Patcher that stayed hooked, and whoever keeps asking
  to leave leaves.

The hazards, each at its line and with the properties that would catch it, are
in `PROJECT.json`.

## 2. Modules

| Module | Models | Proofs |
|---|---|---|
| `GateContract` | abstract: one indivisible decision per visit | |
| `FiringGate` | `_gate` in its three lock sections; implements `GateContract` | `FiringProofs` |
| `Barriers` | `barriers.py` and the `barrier` action's status | `BarriersProofs` |
| `FiringLog`, `MCFiringLog` | `FiringLog.record`, `close`, death and fork | `FiringProofs` |
| `MatrixRun`, `MCMatrixRun` | `run_matrix`, `_plan`, `_adopt_stored_rows`, `_begin_attempt`, `_finalise`, `lock.py` | `MatrixRunProofs` |
| `SlotInstall`, `MCSlotInstall` | the second pass of `_patch`, its rollback, `uninstall` | `SlotInstallProofs` |
| `CallContract` | abstract: what instrumenting may do to a call | |
| `Dispatch`, `MCDispatch` | both dispatchers, `run_action`, extension under calls; implements `CallContract` | `DispatchProofs` |
| `SchemaUpgrade` | abstract: the rows move at once, then order and stamp come at once | |
| `SchemaMigration`, `MCSchemaMigration` | `ensure_schema`, `_setup_or_migrate` and its migrations, `report._read`, `superseded_rows`; implements `SchemaUpgrade` | `SchemaMigrationProofs` |
| `LedgerWalk`, `MCLedgerWalk` | `_restore`, `_undo_one`, and what `_patch` publishes meanwhile | `LedgerWalkProofs` |
| `HookStack` | `install_hook`, the hook, `uninstall`'s part of it, `activate` | `HookStackProofs` |

The definitions whose names say "Mutant of" are not part of any specification:
each is a plausible bug of the definition that follows it, and shows that the
property named for it in `PROJECT.json` can fail.

### FiringGate

One action per statement group of `_gate` that holds or does not hold the rule's
lock: the ticket (`Count`, `ReadTicket`), the schedule, the operator's key
(`EvalKey`), the probe, the operator's condition (`EvalWhen`), and the claim
(`Recheck`, `Add`). A key is a model value, or the visit's own count, which
`key: fires` reads. A key or a condition may raise. Nothing obliges either to
return. The rule's mode is fixed at the start and may be any of the three.

### Barriers

An Event is known by the generation and the name it was created for. Each
`with _lock:` body is one action, since it runs no other code; `is_set`, the
blocked wait, the deadline, the final comparison and each of `reset_all`'s late
sets are steps of their own. `opened`, `found_open` and `expired` are history.

### FiringLog

A line is `LineChunks` chunks, and an `os.write` appends at least one of those
that remain. `Enter` is the section that takes `self._lock` and the next `seq`;
`Flock`, `Write`, `Unlock` and `Finish` are `record`'s phases, each of which may
fail or be interrupted before or after its effect. A flock belongs to the open
file description, which a forked child's copy keeps alive (`DropDescription`).
Names that the gate has too carry the prefix `Log`, so that `FiringProofs`
extends both.

### MatrixRun

`db` is what is committed; an open transaction is the run's own copy, published
by a commit and dropped by a rollback or a death. The rows older than provenance
are in the stratum `Legacy`, with any status, at the start. The plan, each
adopted row, the adoption's commit, the attempt, `run_cell`, each statement of
`_finalise` and its commit are actions. `Stop` is a kill, an interruption or a
refused statement at any of them; `Oversized` is `SQLITE_TOOBIG`, after which
the finalisation is replayed once with a stand-in outcome. `ForeignDelete` is a
program that takes no lock, between transactions.

### SlotInstall

A call of `_patch` is a record of locals with its thread and its depth on that
thread's stack; it goes on when no call nested in it runs (`OnTop`). A call may
start wherever target code can run in another one (`Reentrant`). A dispatcher is
the pair of the call that built it and the slot it was built for. `Read`,
`Decide`, `Reserve`, `Settle`, `Check`, `Store`, `Land` are the second pass in
its order; `RestoreEntry` and `Unwind` the handler; `Publish`, `Handoff` and
`Return` the `finally`. `RestoreEntry` is `_undo_one` in two steps: `Look` reads
the slot and either lets go or decides to write, and `PutBack` writes over whatever
the slot holds by then; target code and other threads run before and between.

`Raise` may happen at every read, check and write, also after a write that stored.
`Stable` slots return the same object on consecutive
reads, which is what `Substituted` can tell; `Replaceable` ones are rebound or
deleted by the program at any moment, once.

### Dispatch

A call walks the list it took at the head of its `for` statement. Each rule is
gated, recorded, run, recorded again, and its override popped; every one of
these may raise. `Extend` and `Retract` rebind the composite's lists and
`Republish` recomputes `has_async_sleep`. `coroutine` says which of the two
dispatchers it is. On one thread the changes happen inside target code and both
at once as far as calls can tell; for the kinds in `Threaded`, between any two
steps. Whether a rule fires is `FiringGate`'s subject, so here the gate answers
either way or raises. `kill` ends the process.

### SchemaMigration

`disk` is what is committed, `tx` the connection's view while a transaction is
open. A statement that changes the schema commits at once outside a transaction
(`Change`), one that changes rows opens one (`Write`); which of the two a
statement does is SQLite's and Python's `sqlite3`, and is why a kill between two
statements leaves what it leaves. A row is what the migrations tell apart: its
experiment and whether it has a fingerprint; `Cell` says which rows collide once
their experiments agree. `Init` is every database that may be found: none, before
provenance (no stamp), before the split of the strata (3), before `displaced_by`
and `seq` (4), current with an archive numbered natively across a clock that may
have stepped back, newer, unreadable; a table widened by an earlier version that
was killed before its stamp, and archives of which only some rows have a number
(`UnstampedDbs`, `HalfNumberedDbs`); and tables of another program under `results`
or `attempts`, among them one that has a fingerprint column and is therefore taken
for the runner's (`LookalikeDbs`). `Trusted` names the databases without a stamp
whose rows no migration touches, since the column is there (`matrix.py:600-605`):
what such a table says is reported as it says it (`report.py:90`).

An opening is one action a statement (`Open` to `CommitStamp`), may fail inside its
transactions, and may be stopped anywhere; then the next opening starts over what it left. The readers
take no lock: the report asks three questions, `superseded_rows` two, each a step.

### LedgerWalk

The list `_wrapped`, the slots its entries name, and a stack of uninstalls:
`_restore` computes its range once and goes down it by index, while the getattr
and the setattr of each restore may run target code, where another uninstall may
begin (`Begin`) and walk the same list. `Claim`, `Land`, `Publish` and `RollBack`
are `_patch`'s, `Replace` is the program's own rebinding. `known`, `inner` are
history: what a walk found, and what walks inside it reported.

### HookStack

A callable on `builtins.__import__` never changes what it delegates to, so each
is known by the chain below it. `Displace` puts one on top; `Unhook` is
`uninstall` with its three cases: the live callable is this Patcher's hook, it
is another Patcher's current hook (refused, nothing changes), or it is a
stranger's, which stays while the hook under it is retired (`Retire`, after the
stranger's attribute was read, which runs its code). An import walks a chain down
and, in `Rise`, up again, where each hook patches if it is still its Patcher's.

## 3. Runs

| Run | Bounds | What it shows |
|---|---|---|
| `FiringGate` | 3 visits, every mode, 2 keys and the visits' own counts, n = 1 | one firing per key, `key: fires` never turns a visit away, a passing visit's key is settled though other conditions hang, the three sections implement `GateContract` |
| `Barriers` | 2 waiters, 2 resets, 1 name | a pass finds the barrier open, a waiter is refused only for a reason that held while it waited, nobody is stranded |
| `FiringLog` | 2 threads on one instance that may fork, 1 on another, 2 chunks a line | lines whole and in order, torn lines excused, `record` returns, a forked child is refused and never hung |
| `MatrixRunResume` | 3 runs, 2 experiments, 1 cell, 2 fingerprints, 1 foreign deletion | exclusion, archive exact, nothing displaced unarchived, no cell started whose row is complete for its definition, no attempt without its row and no row without its attempt |
| `MatrixRunCells` | 2 runs, 1 experiment, 2 cells, 1 fingerprint, fair | archive order over several records of one transaction, the lock is freed |
| `SlotInstallThreads` | 1 Patcher, 2 calls, 2 threads, 2 modules, 3 rules, 2 slots of which one is replaced, re-entry outside the window | nothing unrecorded, no install orphaned, no rule lost, what fires is named, a write displaces what is given back, a rollback takes out no install but its own |
| `SlotInstallNested` | 2 Patchers, 3 calls on 1 thread, re-entry everywhere, slots whose reads are always fresh | exclusive window, no nesting |
| `SlotInstallLostRule` | 1 Patcher, 2 calls, 1 thread | *violated*, the finding of section 4 |
| `Dispatch` | 1 call of either dispatcher, 7 rules of every kind, 5 changes, a plain callable's from another thread and a coroutine's on its loop | order and completeness of service, attempts accounted for, the last override wins, awaited sleeps never block, `CallContract` |
| `SchemaMigration` | every database over 3 rows of 2 cells, up to 2 archived rows on 2 clock readings, with or without numbers, 2 stops, 1 reading | a stamp means complete, refusals touch nothing, reports tell origins apart, the archive is listed by number and only what the migration numbered by the clock, openings end, `SchemaUpgrade` |
| `LedgerWalk` | 4 entries, 2 of them of one slot, 3 slots, 2 nested uninstalls | no wrapper forgotten, each walk settles or reports what it found |
| `HookStack` | 2 Patchers, 1 stranger, 2 callables each, 1 import | no import misses a hooked Patcher, whoever keeps asking leaves |

### Why the bounds are enough

* Gate: the third visit is the one that arrives between another's probe and
  claim while a first already claimed; two keys tell a claim from a claim of
  somebody else's. `n = 1` has a visit before and one after the firing one.
* Barriers: an ABA on the generation needs two resets, the second overtaking the
  late sets of the first; waiters do not interact except through events, and two
  let one pass while the other is stranded. `open` is unbounded. A second name
  would be independent of the first within a generation.
* Log: two threads of one instance contend for the lock, a third process for the
  file. Two chunks make a line that can be torn. `MaxSeq` bounds the records an
  instance starts, but both threads of one may start the last, so an instance
  writes two lines and one of them can follow a torn one.
* Matrix: a third run sees what a second left after displacing what a first
  stored. Two cells give transactions of several adoptions; there one fingerprint
  is enough, since the rows they adopt are those that have none. One foreign
  deletion falls between any two transactions of a run.
* Installation: three nested calls put a rival's and the same Patcher's calls
  inside one window; three rules put two rules of two modules on one slot, and a
  second slot makes a call fail after the first was written. A replacement
  happens once a slot, at any step.
* Dispatch: one call is enough, since calls meet only through the composite and
  the changes to it are free. Five changes grow, shrink and regrow either list
  across both phases.
* Schema: two rows of one cell collide when their strata are joined, and a third
  shows that others are left alone; two archived rows with equal or different
  clock readings make every tie, and with or without numbers every clock that
  contradicts the numbers and every archive that is half numbered, with a gap or
  without. Two stops put a stop into the opening that
  repairs what the first left. A reader's questions fall between any statements.
* Ledger: a walk that raises needs two entries removed below its cursor by an
  inner walk, and a shift that puts another entry at its index needs one above;
  the fourth entry wraps again a slot whose first entry still waits. Three nested
  uninstalls with three entries were checked too and show nothing else.
* Hooks: a Patcher over, between and under others' callables, and a hook
  installed a second time over its own retired one.

Re-entry in these two runs. A call of the same Patcher that target code starts
on the same thread between the second read and the store (`WindowReenters`) is
admitted by the reservation. `SlotInstallNested` has it: that the in-flight map
keeps one dispatcher from wrapping another is true there. `SlotInstallThreads`
leaves it out, for two reasons. `NoInstallIsOrphaned` fails with it, in just the
way the comments of `_patch` and `docs/rules.md` describe. And with several
threads nesting does occur, from three calls on (section 4). The properties that
hold all the same, the window, the rules and what is displaced, are proved with
re-entry on any number of threads.

`CHECK_DEADLOCK FALSE` is said where the modelled program ends: `FiringLog`
(instances close and processes die), `MatrixRun` (every run ended), `Dispatch`
(calls answered, or the process killed), `SchemaMigration` (opened or refused,
and read). Elsewhere deadlock is checked.

### Fairness

* `FiringGate`: each visit's own steps are weakly fair; the operator's key and
  condition are not, so they may hang for ever.
* `Barriers`: a waiter or a reset that has a step is scheduled. No deadline has
  to pass and nobody has to call `open` or `reset_all`.
* `FiringLog`: `record`'s regular steps are strongly fair per thread, because a
  lock that is released again and again is granted some time by the kernel
  (`flock`) and by `threading.Lock`; failures are not owed, so no waiter is saved
  by an interruption. `RecordReturns` exempts a waiter for a flock that a forked
  child holds after its parent has closed: nothing releases it (section 4).
* `MatrixRun`: a run's own steps and the exit of a forked child are weakly fair;
  `run_cell` may never return and is exempted in the property.

* `SchemaMigration`: an opening's next statement is weakly fair, and whoever wants
  the run opens the database again after a stop; stops and failures are not owed.
* `HookStack`: whoever has a Patcher asks it to leave again and again, which is
  what `UninstallOrderError` tells its reader to do. Strangers owe nothing.

`Dispatch`, `SlotInstall` and `LedgerWalk` are checked for safety only.

## 4. Findings

`SlotInstallLostRule` shows one: a rule that a nested call put into a dispatcher
is lost when the outer call, which built that dispatcher, rolls back: not in
force, not pending, not displaced (`patcher.py:3047`), against `docs/rules.md` on
pending rules. `PROJECT.json` quotes the sentence.

The models have these disagreements too, of which no run is kept:

* `barrier_timeout` is logged for a waiter that `reset_all` woke before its
  deadline (`actions.py:317`); `docs/firing.md:89` says the wait timed out.
* Closing a poisoned log does not release the flock if the process forked: the
  child's descriptor shares the open file description (`firing.py:332`, against
  lines 36-38).
* `activate` unwinds a Patcher while another one, which the patching code
  installed, is hooked over it: the refused uninstall becomes a note, and a hook
  stays that nobody can take off; the Patchers below it are then refused for ever,
  though `patcher.py:3793` and `docs/rules.md:174-176` say a refused call succeeds
  later. `EveryoneLeaves` exempts exactly this (`holder` is "lost").
* Between the ALTER that adds `seq` and the backfill's commit, or after a kill
  there, `superseded_rows` lists rows in no order, although `matrix.py:1513` says
  "most recent first". `ArchiveIsListedInOrder` is about stamped databases.
* With re-entry of the window *and* several threads a dispatcher can wrap a dead
  one, so that rules fire twice: a call reads another thread's dispatcher, that
  one is rolled back, the second read finds the original, and while the third
  read runs, target code installs the same Patcher's dispatcher. Then the third
  read differs from the second, so the gated check says nothing, and the call
  writes, saving the dead dispatcher as the original. The comment at
  `patcher.py:2920-2926` says that a re-entrant install of our own dispatcher is
  "answered before this by the owner question", so that the gate "needs no owner
  term of its own"; this one comes after the owner question. (The in-flight map of
  `docs/rules.md:411-416` is said to cover only a dispatcher that is being
  published, and does.) TLC finds it with 3 calls, 2 threads and 1 slot, and none
  of the parts is dispensable: with one thread, or on stable slots without the
  re-entry, `DispatchersDoNotNest` is proved. The documentation asks for one
  instrumenting thread (`docs/rules.md:430-432`).
* The comments at `matrix.py:612-617` and `668-676` say that parts of the setup run
  on every open; `ensure_schema` skips all of it for a stamped database.

A limit rather than a finding: with `_patch` on another thread than the event
loop's (`TRUE \in Threaded`) `AwaitedSleepsNeverBlock` fails.
`has_async_sleep` is recomputed after `comp.entries` is rebound, and a coroutine
dispatcher reads the flag before it reads the entries, so an async sleep that
arrives in between runs as a blocking one (`patcher.py:3303`). The documentation
recommends to instrument from a single thread.

## 5. Proofs

All theorems are about `Spec`, for every value of the constants that satisfies
the named assumptions of the modules, which TLC evaluates in every run.

* **FiringProofs**, the gate. `IInv` adds to the properties who holds the lock
  (`LockInv`), what each label implies (`PathInv`), that a count being read is
  above every count handed out (`TicketInv`), and that the key about to be added
  is in no set yet (`KeyInv`); without the last, `OneFirePerKey` is not
  inductive. Theorems: `TypeCorrect`, `OncePerKey`, `KeysClaimedByFirings`,
  `TicketsAreUnique`, `CountdownOnce`, `TicketKeysAreFresh`, and
  `GateImplementsContract`, the refinement of `GateContract`, in which the step
  that decides a visit maps to its one abstract step and all others stutter.
  What `GateContract` implies is proved but not checked a second time by a run:
  a key is consumed by firings only (`ClaimsAreFirings`), counts are unique
  (`TicketsNumberVisits`), `countdown` fires on its own count
  (`CountdownFiresOnTicket`).
* **FiringProofs**, the log. `LogIInv` says who is in the section that `self._lock`
  guards and who holds the flock; that its `seq` is the last its instance handed
  out; that the end of the file is what the thread at its `os.write` has written of
  its line so far (`TailInv`); that no chunk is ahead of what was handed out or
  written (`FileInv`); and that a record about to answer has its line landed. The flock
  part carries the rest: without it two processes' chunks could alternate, and
  "the tail is mine" would not survive another's `Write`. Theorems:
  `LogTypeCorrect`, `RecordsAreWhole`, `TornLinesAreExcused`,
  `LinesKeepSeqOrder`, for any number of instances, threads, forks and chunks.
* **BarriersProofs.** The invariant says that the table holds events of the
  running generation only, that a set event of that generation was opened in it,
  and that what `reset_all` still has to set is older. Theorems: `TypeCorrect`,
  `Latch` (of `RefusalsAreExplained`), `LateSets`, `PassMeansOpen` (an action
  property).
* **MatrixRunProofs.** Three inductive invariants, each resting on the ones before.
  `RunsAreExclusive` needs only the lock. `IInv` adds that the numbers are unique in
  the committed tables *and in every open transaction*, since a commit publishes the
  latter: `TypeCorrect`, `ArchiveOrder`. `AInv` accounts for the run inside. Every
  step not yet reported still answers to the row it was planned for, or that row is
  gone (`StepIsSound`: the plan is read long before it is used, and only the lock
  and the deletions make it worth keeping); no row differs in the open transaction
  without its copy (`Recorded`); each label says what is copied, installed and
  cleared so far, so that at the commit every copy is of a row that goes
  (`Earned`). From it: `NothingIsLost`, `ArchiveExact`, `CompletedCellsStay`.
  `TInv` ties the attempts to the rows: tokens are not minted twice, the record of
  the attempt in hand is the one begun, or gone, and only rows without a
  fingerprint are adopted, which are evidence of no attempt: `OutcomesAttested`.
  All safety properties of the runs of `MatrixRun` are proved.
* **SlotInstallProofs.** `IInv`: a call in its window works under a reservation of
  its own Patcher and thread, which it took itself or a call it is nested in took
  (`Held`); the reservation's owner still runs (`Registered`), and a thread's calls
  form a stack (`Stacked`), so that the owner cannot return and free the slot before
  the nested call is through: `TypeCorrect`, `WindowExclusive`, `ReservationsEnd`
  (not checked by a run).

  `Books` relates the records a dispatcher appears in: the call's wraps, the
  in-flight map, the ledger and the slots; for each label, which of them must have
  it. `RulesInv` follows the rules through them: a dispatcher that is answered for
  serves what it was built for; a rule that is no longer pending is served by a
  dispatcher in the ledger, or by one on its way there, or is about to be pending
  again, or went down with a call that did not bring it (`AccountInv`); a rule that
  is served is in `applied`, or somebody is about to put it there, or the builder
  failed (`NamedInv`): `RulesAccountedFor`, `FiringRulesNamed`. All this needs no
  hypothesis, and neither does `UninstallGivesItBack`, by `DisplaceInv`: a value
  that has not been put into a slot yet is read by nobody (`SeenInv`); so when the
  third read differs from the second, nothing can bring the second's value back
  before the store, neither a nested call, which has not seen it, nor another
  thread, which has no reservation, nor an uninstall, which waits (`Gone`).

  `UndoInv` says what holds while a rollback is between its read and its write: the
  call's dispatcher is still in the in-flight map and the slot still reserved, so
  whoever could write the slot runs inside the rollback (`WriterRunsInside`), and
  all it can read there is that dispatcher, which it extends or is refused
  (`StepComes`): `RollbacksAreCurrent`, with no hypothesis.

  `PlaceInv` is about what the slots hold and what is saved as the original. It
  speaks of the slots where the second and third reads, or the thread's stack, can
  tell (`Tracked`): what a call reads there is answered for until it decides
  (`Vouched`), so a dispatcher is extended or refused and never wrapped
  (`NestInv`). `NothingLiveUnrecorded` and `DispatchersAreNotNested` assume one
  thread, or no re-entry of the window and stable slots.

  `StaysInv` is about what was written: without re-entry, a store finds in the slot
  what the second read saw, a value nobody answers for, and nobody will, since a
  call registers only dispatchers that no read has returned yet (`Displaces`, by
  `SeenInv` again); so what is answered for and in its slot is never written over
  (`InPlaceInv`). `NoInstallOrphaned` assumes no re-entry and nothing else.

  Outside these hypotheses the three are false: for the re-entry see section 4 and
  the comments of `_patch`; of a slot whose reads are always fresh, `_patch` itself
  says that it cannot be told whether it changed.
* **DispatchProofs.** Five invariants, each resting on the ones before. `Good` ties
  each call's place in the loops to what the caller was answered and whether the
  original ran: `TypeCorrect`, `CallsKeepContract` (the refinement of
  `CallContract`), `ActionErrorsReachTheCaller`. `Gated` says that what a phase has
  asked is the part of its list its loop has passed, and `Lists` that a rebinding
  keeps the order and the rules of construction; the latter rests on
  `BelowIsPrefix` (in an increasing list what is below a rule is a prefix, so the
  count of it is the place to insert at): `RulesetIsAlwaysServed`. `Logged` says that
  a rule is recorded only once asked, hence once, and what is not settled is the
  attempt in hand or one the log failed on: `EveryAttemptIsAccountedFor`. `Chosen`
  says which override stands in the result's place: `TheLastOverrideIsServed`.
  `Awaiting` holds only where `coroutine` dispatchers are extended on the loop's own
  thread (`TRUE \notin Threaded`, an assumption of the theorem): `SleepsAreAwaited`.
  All safety properties of the run are proved.
* **SchemaMigrationProofs.** `DiskInv` says what the committed tables' shape and
  stamp imply, whatever was stopped: only before the split, or in a `Trusted`
  table, do nameless rows of unknown origin exist, and an archive is the one there
  was at first, as it was or numbered (`OriginKept`). A row that had a number keeps
  it, and those that had none get theirs above the largest (`LargestNumber`) and in
  the clock's order, because what comes before the earlier comes before the later
  too (`RankedIsOrdered`): so the listing's order is that of `Earlier`, whatever the
  clock did while rows were numbered.
  `OpenInv` says where the opening stands: which labels have a transaction, how it
  differs from the disk, that the disk is what was found until the first commit.
  `ReaderInv` says what an answer a reader holds is still worth: shapes, moves and
  stamps are never taken back (`Progress`). From them: `TypeCorrect`,
  `StampsAreEarned`, `RefusalsAreClean`, `ReportsAreTrue`, `ListingsAreOrdered` and
  `MigrationsUpgrade`, the refinement of `SchemaUpgrade`. All safety properties of
  the run are proved.
* **LedgerWalkProofs.** `CursorInv`: what a walk found and has not reported lies at
  or below its cursor. `StackInv`: an outer walk is inside a restore, the inner
  one found all that still waits for it, and only an inner walk that ended, having
  settled or reported that, can have made the list shorter than the cursor.
  Theorems: `TypeCorrect`, `NothingIsForgotten`, `WalkSettles`, for any depth.
* **HookStackProofs.** Chains are well founded and end at the builtin, a hook that
  is some Patcher's current one stays in the live chain since an uninstall takes
  off the top only, and the part of an import's path still to return has the hooks
  it has not served. Theorems: `TypeCorrect`, `HooksAreReached`, `ImportsServe`.

Every safety invariant and action property that the passing runs check, and every
refinement, is stated by a theorem. Only model-checked are the liveness properties
(`PassingVisitSettlesKey`, `NoWaiterStranded`, `RecordReturns`, `LockIsFreed`,
`OpeningEnds`, `EveryoneLeaves`), since liveness under fairness and ENABLED are
beyond these provers. Induction over data is too; no theorem needs it.

## 6. What is not modelled, and limits

* `SlotInstall`: the first pass is the choice of slots; a call's slots are those
  its rules name. `uninstall` runs between calls and as one step, since its walk
  is `LedgerWalk`'s (and the program may rebind a slot between its read and its
  write). What the program binds while an undo is between the two is overwritten,
  and so is a dispatcher built over that, and rules that joined a dispatcher which is
  rolled back go with it: the limit of `docs/rules.md:283-285` and
  `patcher.py:2466-2471`, which the models have and no property denies
  (`RollbackIsCurrent` speaks of slots the program left alone). An extension is atomic.
  Interrupts inside the handler and the `finally` are left out, and so is the
  re-keying of a pending rule to a parent package after a miss.
* `LedgerWalk`: walks nest on one thread; walks of several threads are excluded by
  the documentation. What a restore puts back is never a wrapper of this Patcher.
  The wrappers' extensions are left to `SlotInstall`.
* `HookStack`: what a hook patches is left to `SlotInstall`. An uninstall out of
  order with a stranger on top is not refused, and a retired hook may return to
  `builtins.__import__` when the stranger leaves; it is inert there, which the
  model has.
* `Dispatch`: a log is present; an extension adds one rule; parallel extensions
  of one dispatcher are left out, which `docs/rules.md` rules out by asking for
  one installing thread; what a `plain` action does to the target is not modelled.
* `MatrixRun` starts on a current schema; a cell's environment and the reading of
  its output are left out. The first `SELECT` of `_next_seq` in a transaction runs
  before the statement that begins it, and is part of that step here: nobody else
  archives in between, since the run has the lock. `SchemaMigration` has no run
  beside its opening: the lock of `MatrixRun` admits none.
* A table that a version before the split left widened but not stamped is taken for
  a new one: its nameless rows of unknown origin stay nameless, and the properties
  say so (`Trusted`, in `StampMeansComplete` and `ReportTellsOriginsApart`). Another
  program's `results` with a fingerprint column is stamped too, and fails at the
  first write (`matrix.py:545-549`).
* Rule loading, pragma verification, target resolution, integrity classification
  and the notes on exceptions are stateless sequential code about text or single
  values, which the repository tests by example. Scripts and examples are tooling.

## 7. Plan

Done: installation, gate, log, matrix, barriers and dispatch, then the migrations,
the ledger's walk and the stack of hooks. What would come next:

1. `Extend` of `SlotInstall` and `Dispatch` split into its reads and rebinds, for
   parallel extensions, if the documentation comes to allow them.
2. `displaced` against a reloaded module, and the re-keying of pending rules.
3. Proofs: what the parts say together, such as that a rule which the installation
   keeps in force (`SlotInstall`) is in the list a call walks (`Dispatch`); and
   the safety half of the liveness properties (a bound on the steps that remain).
