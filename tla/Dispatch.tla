------------------------------ MODULE Dispatch ------------------------------
(***************************************************************************)
(* One instrumented attribute: calls of its dispatcher, each serving the   *)
(* entry rules, the original callable and the exit rules, and running each *)
(* firing as a recorded attempt, while later _patch calls extend the       *)
(* dispatcher or take their extension back.                                *)
(*                                                                         *)
(* Whether a rule fires is FiringGate's subject: here the gate answers     *)
(* either way, or raises.  Conditions, actions and the original callable   *)
(* are code of the target program; an extension can run inside them, and,  *)
(* for the dispatchers in Threaded, between any two reads of the lists.    *)
(***************************************************************************)
EXTENDS Naturals, Sequences, SequencesExt

CONSTANTS
  Calls,          \* calls of the attribute
  Rules,          \* rules known by their place in the ruleset
  Exits,          \* those whose event is `exit`
  Kind,           \* what each rule's action does
  BoundEntries, BoundExits, \* the lists the dispatcher was built with
  Threaded,       \* values of `coroutine` for which _patch may run on another thread
  MaxChanges,     \* bound: extensions made and taken back
  Body            \* the original callable

Kinds == {"override", "plain", "raise", "async", "kill"}

ASSUME RulesAssumption == Rules \subseteq Nat /\ Body \notin Rules
ASSUME ExitsAssumption == Exits \subseteq Rules
ASSUME KindAssumption == Kind \in [Rules -> Kinds]
ASSUME ModesAssumption == Threaded \subseteq BOOLEAN

Increasing(list) == \A i, j \in 1..Len(list) : i < j => list[i] < list[j]
ASSUME BindingAssumption ==
  /\ BoundEntries \in Seq(Rules \ Exits) /\ Increasing(BoundEntries)
  /\ BoundExits \in Seq(Exits) /\ Increasing(BoundExits)
  /\ \A r \in ToSet(BoundEntries) \cup ToSet(BoundExits) : Kind[r] # "async"
ASSUME MaxChangesAssumption == MaxChanges \in Nat

VARIABLES
  coroutine,      \* the original is a coroutine function
  entries, exits, \* comp.entries and comp.exits
  has_async_sleep,\* comp.has_async_sleep
  rebound,        \* the lists were rebound and _republish_state is due
  changes,        \* extensions and retractions so far
  call,           \* the locals of each call
  body,           \* of each call: whether the original ran, and how it ended
  answer,         \* of each call: what the caller got
  asked,          \* history: the rules each phase of each call gated, in order
  started, ended, \* start and terminal records in the firing log
  lost,           \* history: attempts whose terminal record raised
  ran,            \* history: attempts whose action ran
  blocked,        \* history: awaited sleeps that ran as blocking ones
  killed          \* a `kill` action ended the process

compVars == <<coroutine, entries, exits, has_async_sleep, rebound, changes>>
logVars == <<started, ended, lost>>
vars == <<compVars, call, body, answer, asked, logVars, ran, blocked, killed>>

Phases == {"entry", "exit"}
Labels == {"idle", "entries", "gate", "start", "act", "end", "pop", "body",
           "exits", "done"}
Statuses == {"completed", "raised", "failed"}
Faults == {"gate", "start", "action", "end"}
Answers == (Faults \cup {"value"}) \X (Rules \cup {Body})
             \cup {<<"none", Body>>, <<"body", Body>>}
Attempts == Calls \X Rules

\* `list` and `at` are the for statement: the list it iterates and its place.
Locals == [pc : Labels, phase : Phases, awaits : BOOLEAN, list : Seq(Rules),
           at : Nat, override : Rules \cup {Body}, result : Rules \cup {Body},
           status : Statuses]

TypeOK ==
  /\ coroutine \in BOOLEAN
  /\ entries \in Seq(Rules \ Exits) /\ exits \in Seq(Exits)
  /\ has_async_sleep \in BOOLEAN /\ rebound \in BOOLEAN
  /\ changes \in 0..MaxChanges
  /\ call \in [Calls -> Locals]
  /\ body \in [Calls -> {"not_run", "returned", "raised"}]
  /\ answer \in [Calls -> Answers]
  /\ asked \in [Calls -> [Phases -> Seq(Rules)]]
  /\ started \subseteq Attempts /\ ran \subseteq Attempts /\ blocked \subseteq Attempts
  /\ ended \subseteq Attempts \X Statuses /\ lost \subseteq Attempts \X Statuses
  /\ killed \in BOOLEAN

Bound == ToSet(BoundEntries) \cup ToSet(BoundExits)
AnyAsync(list) == \E i \in 1..Len(list) : Kind[list[i]] = "async"

\* The refusals of both install roads: no exit rule on a coroutine, no awaited
\* sleep anywhere else.
Mergeable(r) == IF coroutine THEN r \notin Exits ELSE Kind[r] # "async"

Init ==
  /\ coroutine \in BOOLEAN
  /\ entries = BoundEntries
  /\ exits = IF coroutine THEN <<>> ELSE BoundExits
  /\ has_async_sleep = AnyAsync(BoundEntries)
  /\ rebound = FALSE
  /\ changes = 0
  /\ call = [c \in Calls |->
       [pc |-> "idle", phase |-> "entry", awaits |-> FALSE, list |-> <<>>, at |-> 1,
        override |-> Body, result |-> Body, status |-> "completed"]]
  /\ body = [c \in Calls |-> "not_run"]
  /\ answer = [c \in Calls |-> <<"none", Body>>]
  /\ asked = [c \in Calls |-> [p \in Phases |-> <<>>]]
  /\ started = {} /\ ended = {} /\ lost = {}
  /\ ran = {} /\ blocked = {}
  /\ killed = FALSE

-----------------------------------------------------------------------------
\* Extensions.
Served == ToSet(entries) \cup ToSet(exits)

\* Code of the target program, or of nobody: where _patch can run on one thread.
Foreign == {"idle", "gate", "act", "end", "body", "done"}
MayPatch == ~killed /\ (coroutine \in Threaded \/ \A c \in Calls : call[c].pc \in Foreign)

\* sorted(list + [r]) by ordinal, and the list without r.
Merged(list, r) ==
  InsertAt(list, 1 + Cardinality({i \in 1..Len(list) : list[i] < r}), r)
Without(list, r) == RemoveAt(list, CHOOSE i \in 1..Len(list) : list[i] = r)

Rebinding ==
  /\ changes < MaxChanges /\ ~rebound /\ MayPatch
  /\ rebound' = TRUE
  /\ changes' = changes + 1
  /\ UNCHANGED <<coroutine, has_async_sleep, body, answer, asked, logVars, ran, blocked, killed>>

\* Mutant of Extend: the lists are grown in place, under the running loops.
ExtendInPlace(r) ==
  /\ Rebinding
  /\ r \notin Served /\ Mergeable(r)
  /\ entries' = IF r \in Exits THEN entries ELSE Merged(entries, r)
  /\ exits' = IF r \in Exits THEN Merged(exits, r) ELSE exits
  /\ call' = [c \in Calls |->
       [call[c] EXCEPT !.list = IF call[c].phase = "entry" THEN entries' ELSE exits']]

\* _extend_dispatcher: a rule the dispatcher does not serve yet.
Extend(r) ==
  /\ Rebinding
  /\ r \notin Served /\ Mergeable(r)
  /\ entries' = IF r \in Exits THEN entries ELSE Merged(entries, r)
  /\ exits' = IF r \in Exits THEN Merged(exits, r) ELSE exits
  /\ UNCHANGED call

\* _unextend: the _patch call that added it failed.
Retract(r) ==
  /\ Rebinding
  /\ r \in Served \ Bound
  /\ entries' = IF r \in Exits THEN entries ELSE Without(entries, r)
  /\ exits' = IF r \in Exits THEN Without(exits, r) ELSE exits
  /\ UNCHANGED call

\* Mutant of Republish: the flag of construction time is kept.
RepublishKeepsFlag ==
  /\ rebound /\ ~killed
  /\ rebound' = FALSE
  /\ UNCHANGED <<coroutine, entries, exits, has_async_sleep, changes, call, body, answer, asked,
                 logVars, ran, blocked, killed>>

\* _republish_state: the flag summarises the list it follows.
Republish ==
  /\ rebound /\ ~killed
  /\ has_async_sleep' = AnyAsync(entries)
  /\ rebound' = FALSE
  /\ UNCHANGED <<coroutine, entries, exits, changes, call, body, answer, asked, logVars, ran,
                 blocked, killed>>

-----------------------------------------------------------------------------
\* Calls.
Rule(c) == call[c].list[call[c].at]
At(c, label) == call[c].pc = label /\ ~killed /\ (coroutine \in Threaded \/ ~rebound)
Goto(c, label) == call' = [call EXCEPT ![c].pc = label]
NextRule(c) == [call EXCEPT ![c].pc = "gate", ![c].at = @ + 1]

\* The call ends: a value, or an exception that leaves the dispatcher.
Reply(c, what, who) ==
  /\ answer' = [answer EXCEPT ![c] = <<what, who>>]
  /\ Goto(c, "done")

\* The call arrives; a coroutine dispatcher picks its driver by the flag.
Arrive(c) ==
  /\ At(c, "idle")
  /\ call' = [call EXCEPT ![c].pc = "entries", ![c].awaits = coroutine /\ has_async_sleep]
  /\ UNCHANGED <<compVars, body, answer, asked, logVars, ran, blocked, killed>>

\* `for ... in comp.entries`.
BeginEntries(c) ==
  /\ At(c, "entries")
  /\ call' = [call EXCEPT ![c].pc = "gate", ![c].list = entries, ![c].at = 1]
  /\ UNCHANGED <<compVars, body, answer, asked, logVars, ran, blocked, killed>>

\* The loop's next rule is gated: it fires, stands down, or raises.
Gate(c) ==
  /\ At(c, "gate") /\ call[c].at <= Len(call[c].list)
  /\ asked' = [asked EXCEPT ![c][call[c].phase] = Append(@, Rule(c))]
  /\ \/ Goto(c, "start") /\ UNCHANGED answer
     \/ call' = NextRule(c) /\ UNCHANGED answer
     \/ Reply(c, "gate", Rule(c))
  /\ UNCHANGED <<compVars, body, logVars, ran, blocked, killed>>

\* Mutant of RecordStart: the action runs although its record did not land.
StartUnrecorded(c) ==
  /\ At(c, "start")
  /\ started' \in {started, started \cup {<<c, Rule(c)>>}}
  /\ Goto(c, "act")
  /\ UNCHANGED <<compVars, body, answer, asked, ended, lost, ran, blocked, killed>>

\* _record_attempt, before the action: its failure propagates, whether or not
\* the line landed.
RecordStart(c) ==
  LET recorded == started \cup {<<c, Rule(c)>>} IN
  /\ At(c, "start")
  /\ \/ started' = recorded /\ Goto(c, "act") /\ UNCHANGED answer
     \/ started' \in {started, recorded} /\ Reply(c, "start", Rule(c))
  /\ UNCHANGED <<compVars, body, asked, ended, lost, ran, blocked, killed>>

Outcome(c, status) == [call EXCEPT ![c].pc = "end", ![c].status = status]

\* _dispatch or asyncio.sleep.  Any action may fail or be interrupted; a
\* `raise` action and a refusing strict mode raise on purpose.
Act(c) ==
  LET r == Rule(c) IN
  /\ At(c, "act")
  /\ ran' = ran \cup {<<c, r>>}
  /\ \/ /\ Kind[r] \in {"override", "plain", "async"}
        /\ call' = IF Kind[r] = "override"
                   THEN [Outcome(c, "completed") EXCEPT ![c].override = r]
                   ELSE Outcome(c, "completed")
        /\ UNCHANGED killed
     \/ /\ Kind[r] \in {"raise", "plain"}
        /\ call' = Outcome(c, "raised")
        /\ UNCHANGED killed
     \/ call' = Outcome(c, "failed") /\ UNCHANGED killed
     \/ Kind[r] = "kill" /\ killed' = TRUE /\ UNCHANGED call
  /\ blocked' = IF Kind[r] = "async" /\ ~call[c].awaits
                THEN blocked \cup {<<c, r>>} ELSE blocked
  /\ UNCHANGED <<compVars, body, answer, asked, logVars>>

\* _terminal: the action's own error wins; a lost record raises only when the
\* action completed.
RecordEnd(c) ==
  LET r == Rule(c)  attempt == <<<<c, r>>, call[c].status>> IN
  /\ At(c, "end")
  /\ \/ ended' = ended \cup {attempt} /\ UNCHANGED lost
     \/ lost' = lost \cup {attempt} /\ ended' \in {ended, ended \cup {attempt}}
  /\ IF call[c].status # "completed" THEN Reply(c, "action", r)
     ELSE IF lost' # lost THEN Reply(c, "end", r)
     ELSE Goto(c, "pop") /\ UNCHANGED answer
  /\ UNCHANGED <<compVars, body, asked, started, ran, blocked, killed>>

\* Mutant of Pop: the first override of the exit phase wins.
PopFirst(c) ==
  LET o == call[c].override IN
  /\ At(c, "pop")
  /\ IF o # Body /\ call[c].phase = "entry"
     THEN Reply(c, "value", o)
     ELSE /\ call' = [NextRule(c) EXCEPT
               ![c].override = Body,
               ![c].result = IF o # Body /\ body[c] = "returned" /\ @ = Body THEN o ELSE @]
          /\ UNCHANGED answer
  /\ UNCHANGED <<compVars, body, asked, logVars, ran, blocked, killed>>

\* Mutant of Pop: an override of the entry phase does not stop the call.
PopGoesOn(c) ==
  LET o == call[c].override IN
  /\ At(c, "pop")
  /\ call' = [NextRule(c) EXCEPT
       ![c].override = Body,
       ![c].result = IF o # Body /\ body[c] # "raised" THEN o ELSE @]
  /\ UNCHANGED <<compVars, body, answer, asked, logVars, ran, blocked, killed>>

\* ctx.pop("_override"): an entry's is the answer, and nothing below it runs; an
\* exit's replaces the result if the original returned, and is discarded if it
\* raised.
Pop(c) ==
  LET o == call[c].override IN
  /\ At(c, "pop")
  /\ IF o # Body /\ call[c].phase = "entry"
     THEN Reply(c, "value", o)
     ELSE /\ call' = [NextRule(c) EXCEPT
               ![c].override = Body,
               ![c].result = IF o # Body /\ body[c] = "returned" THEN o ELSE @]
          /\ UNCHANGED answer
  /\ UNCHANGED <<compVars, body, asked, logVars, ran, blocked, killed>>

\* The entry rules are through: the original callable.
BeginBody(c) ==
  /\ At(c, "gate") /\ call[c].phase = "entry"
  /\ call[c].at > Len(call[c].list)
  /\ Goto(c, "body")
  /\ UNCHANGED <<compVars, body, answer, asked, logVars, ran, blocked, killed>>

\* The original returns or raises.  A coroutine dispatcher has no exit phase.
RunBody(c) ==
  /\ At(c, "body") /\ body[c] = "not_run"
  /\ \E how \in {"returned", "raised"} : body' = [body EXCEPT ![c] = how]
  /\ Goto(c, "exits")
  /\ UNCHANGED <<compVars, answer, asked, logVars, ran, blocked, killed>>

\* `for ... in comp.exits`, in the finally.
BeginExits(c) ==
  /\ At(c, "exits")
  /\ call' = [call EXCEPT ![c].pc = "gate", ![c].phase = "exit",
                          ![c].list = IF coroutine THEN <<>> ELSE exits, ![c].at = 1]
  /\ UNCHANGED <<compVars, body, answer, asked, logVars, ran, blocked, killed>>

\* The exit rules are through: the result, or the original's own exception.
Conclude(c) ==
  /\ At(c, "gate") /\ call[c].phase = "exit"
  /\ call[c].at > Len(call[c].list)
  /\ IF body[c] = "raised" THEN Reply(c, "body", Body)
     ELSE Reply(c, "value", call[c].result)
  /\ UNCHANGED <<compVars, body, asked, logVars, ran, blocked, killed>>

CallStep(c) ==
  \/ Arrive(c) \/ BeginEntries(c) \/ Gate(c) \/ RecordStart(c) \/ Act(c)
  \/ RecordEnd(c) \/ Pop(c) \/ BeginBody(c) \/ RunBody(c) \/ BeginExits(c)
  \/ Conclude(c)

Next ==
  \/ \E c \in Calls : CallStep(c)
  \/ \E r \in Rules : Extend(r) \/ Retract(r)
  \/ Republish

Spec == Init /\ [][Next]_vars

-----------------------------------------------------------------------------
\* A call serves a consistent view of the ruleset however often the dispatcher
\* is extended under it: no phase gates a rule twice or out of ruleset order,
\* and none of the rules the dispatcher was built with is skipped.
RulesetIsServed ==
  \A c \in Calls :
    /\ \A p \in Phases : Increasing(asked[c][p])
    /\ call[c].pc = "body" => ToSet(BoundEntries) \subseteq ToSet(asked[c]["entry"])
    /\ answer[c][1] \in {"value", "body"} /\ body[c] # "not_run" /\ ~coroutine =>
         ToSet(BoundExits) \subseteq ToSet(asked[c]["exit"])

\* The firing log accounts for every attempt: no action runs unrecorded, an
\* attempt has at most one terminal record and it says what the caller saw, and
\* one that has none when its call is over is one the log itself failed on.
AttemptsAreAccountedFor ==
  /\ ran \subseteq started
  /\ \A a, b \in ended \cup lost : a[1] = b[1] => a = b
  /\ \A a \in ended \cup lost : a[1] \in ran
  /\ \A a \in started :
       answer[a[1]] \notin {<<"none", Body>>, <<"start", a[2]>>} =>
         \E s \in Statuses : <<a, s>> \in ended \cup lost
  /\ \A c \in Calls : answer[c][1] = "action" =>
       \E s \in Statuses \ {"completed"} : <<<<c, answer[c][2]>>, s>> \in ended \cup lost

\* An action that raised is what its caller sees, also when the log then failed.
ActionErrorWins ==
  \A a \in ended \cup lost :
    a[2] # "completed" => answer[a[1][1]] = <<"action", a[1][2]>>

\* The value a caller gets is the last one put in the result's place.
Overriding(c) == {r \in ToSet(asked[c]["exit"]) : Kind[r] = "override" /\ <<c, r>> \in ran}
LastOverrideWins ==
  \A c \in Calls : answer[c][1] = "value" /\ body[c] = "returned" =>
    \/ Overriding(c) = {} /\ answer[c][2] = Body
    \/ answer[c][2] \in Overriding(c) /\ \A r \in Overriding(c) : r <= answer[c][2]

\* Each call keeps the contract of an instrumented call.
Contract == INSTANCE CallContract WITH Entries <- Rules \ Exits, Exits <- Exits
KeepsCallContract == Contract!Spec

\* _republish_state: the flag is "recomputed exactly when the list it summarizes
\* changes", so a sleep declared async never runs as one that blocks the event
\* loop.  True while _patch runs on the loop's own thread.
AwaitedSleepsNeverBlock == blocked = {}
=============================================================================
