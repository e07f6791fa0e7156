----------------------------- MODULE FiringGate -----------------------------
(***************************************************************************)
(* patcher._gate: whether a visit to a rule fires, when visits overlap.    *)
(*                                                                         *)
(* A visit is one call that arrives at the rule.  Visits interleave        *)
(* freely: they are calls on different threads, or a call made from inside *)
(* the key or condition of another visit on the same thread.  The rule's   *)
(* lock is taken three times per visit at most; the operator's key and     *)
(* condition run between the sections, never inside one.                   *)
(***************************************************************************)
EXTENDS Naturals

CONSTANTS
  Visits,         \* calls that arrive at the rule
  Keys,           \* values fire.key can take when it reads the call
  N,              \* countdown's n, snapshotted by _new_state
  NoVisit,        \* the lock is free
  NoKey           \* pending_key = None: no key has been evaluated yet

ASSUME CountdownAssumption == N \in Nat
ASSUME KeysAssumption == Keys \cap Nat = {}
ASSUME NoVisitAssumption == NoVisit \notin Visits
ASSUME NoKeyAssumption == NoKey \notin Keys /\ NoKey \notin Nat

Modes == {"always", "countdown", "once_per"}

VARIABLES
  mode,           \* state["mode"], snapshotted by _new_state
  lock,           \* holder of state["lock"]
  fires,          \* state["fires"]
  seen_keys,      \* state["seen_keys"]
  pc,             \* where each visit stands in _gate
  ticket,         \* each visit's `ticket`, published as ctx["fires"]
  pending_key,    \* each visit's `pending_key`
  outcome         \* what _gate answered, "raised" when it raised

vars == <<mode, lock, fires, seen_keys, pc, ticket, pending_key, outcome>>

Labels == {"start", "count", "ticket", "schedule", "key", "lookup", "probe",
           "when", "claim", "recheck", "add", "done"}
Outcomes == {"none", "fired", "off_schedule", "seen", "false", "raised"}

\* A key expression reads the call, or is the legal `key: fires`.
KeyValues == Keys \cup Nat

TypeOK ==
  /\ mode \in Modes
  /\ lock \in Visits \cup {NoVisit}
  /\ fires \in Nat
  /\ seen_keys \subseteq KeyValues
  /\ pc \in [Visits -> Labels]
  /\ ticket \in [Visits -> Nat]
  /\ pending_key \in [Visits -> KeyValues \cup {NoKey}]
  /\ outcome \in [Visits -> Outcomes]

Init ==
  /\ mode \in Modes
  /\ lock = NoVisit
  /\ fires = 0
  /\ seen_keys = {}
  /\ pc = [v \in Visits |-> "start"]
  /\ ticket = [v \in Visits |-> 0]
  /\ pending_key = [v \in Visits |-> NoKey]
  /\ outcome = [v \in Visits |-> "none"]

-----------------------------------------------------------------------------
Goto(v, label) == pc' = [pc EXCEPT ![v] = label]

Answer(v, what) ==
  /\ outcome' = [outcome EXCEPT ![v] = what]
  /\ Goto(v, "done")

\* `with lock:` blocks until the lock is free.
Acquire(v, from, to) ==
  /\ pc[v] = from
  /\ lock = NoVisit
  /\ lock' = v
  /\ Goto(v, to)
  /\ UNCHANGED <<mode, fires, seen_keys, ticket, pending_key, outcome>>

Release == lock' = NoVisit

\* Section 1: the ticket.
EnterTicket(v) == Acquire(v, "start", "count")

Count(v) ==
  /\ pc[v] = "count"
  /\ fires' = fires + 1
  /\ Goto(v, "ticket")
  /\ UNCHANGED <<mode, lock, seen_keys, ticket, pending_key, outcome>>

ReadTicket(v) ==
  /\ pc[v] = "ticket"
  /\ ticket' = [ticket EXCEPT ![v] = fires]
  /\ Release
  /\ Goto(v, "schedule")
  /\ UNCHANGED <<mode, fires, seen_keys, pending_key, outcome>>

\* The mode, between sections: countdown looks at the ticket alone.
Schedule(v) ==
  /\ pc[v] = "schedule"
  /\ IF mode = "countdown" /\ ticket[v] # N + 1
     THEN Answer(v, "off_schedule")
     ELSE /\ Goto(v, IF mode = "once_per" THEN "key" ELSE "when")
          /\ UNCHANGED outcome
  /\ UNCHANGED <<mode, lock, fires, seen_keys, ticket, pending_key>>

\* The operator's key expression, and the key contract, outside the lock.
EvalKey(v) ==
  /\ pc[v] = "key"
  /\ \/ \E k \in Keys \cup {ticket[v]} :
          /\ pending_key' = [pending_key EXCEPT ![v] = k]
          /\ Goto(v, "lookup")
          /\ UNCHANGED outcome
     \/ /\ Answer(v, "raised")
        /\ UNCHANGED pending_key
  /\ UNCHANGED <<mode, lock, fires, seen_keys, ticket>>

\* Section 2: a key already consumed skips the condition.
EnterLookup(v) == Acquire(v, "lookup", "probe")

\* Mutant of Probe: the lock is kept across the condition.
ProbeKeepsLock(v) ==
  /\ pc[v] = "probe"
  /\ IF pending_key[v] \in seen_keys
     THEN Answer(v, "seen") /\ Release
     ELSE Goto(v, "when") /\ UNCHANGED <<outcome, lock>>
  /\ UNCHANGED <<mode, fires, seen_keys, ticket, pending_key>>

\* Mutant of Probe: the key is claimed before the condition is asked.
ProbeClaims(v) ==
  /\ pc[v] = "probe"
  /\ Release
  /\ IF pending_key[v] \in seen_keys
     THEN Answer(v, "seen") /\ UNCHANGED seen_keys
     ELSE /\ Goto(v, "when")
          /\ seen_keys' = seen_keys \cup {pending_key[v]}
          /\ UNCHANGED outcome
  /\ UNCHANGED <<mode, fires, ticket, pending_key>>

Probe(v) ==
  /\ pc[v] = "probe"
  /\ Release
  /\ IF pending_key[v] \in seen_keys
     THEN Answer(v, "seen")
     ELSE Goto(v, "when") /\ UNCHANGED outcome
  /\ UNCHANGED <<mode, fires, seen_keys, ticket, pending_key>>

\* The operator's condition, outside the lock: false, raising, or passing.
EvalWhen(v) ==
  /\ pc[v] = "when"
  /\ \/ \E no \in {"false", "raised"} : Answer(v, no)
     \/ /\ mode = "once_per"
        /\ Goto(v, "claim")
        /\ UNCHANGED outcome
     \/ /\ mode # "once_per"
        /\ Answer(v, "fired")
  /\ UNCHANGED <<mode, lock, fires, seen_keys, ticket, pending_key>>

\* Section 3: the re-check, then the claim, which is the decision itself.
EnterClaim(v) == Acquire(v, "claim", "recheck")

\* Mutant of Recheck: section 3 trusts the membership section 2 read.
RecheckTrustsProbe(v) ==
  /\ pc[v] = "recheck"
  /\ Goto(v, "add")
  /\ UNCHANGED <<mode, lock, fires, seen_keys, ticket, pending_key, outcome>>

Recheck(v) ==
  /\ pc[v] = "recheck"
  /\ IF pending_key[v] \in seen_keys
     THEN Answer(v, "seen") /\ Release
     ELSE Goto(v, "add") /\ UNCHANGED <<outcome, lock>>
  /\ UNCHANGED <<mode, fires, seen_keys, ticket, pending_key>>

Add(v) ==
  /\ pc[v] = "add"
  /\ seen_keys' = seen_keys \cup {pending_key[v]}
  /\ Answer(v, "fired")
  /\ Release
  /\ UNCHANGED <<mode, fires, ticket, pending_key>>

\* Steps of the gate itself, as against code the operator wrote.
GateStep(v) ==
  \/ EnterTicket(v) \/ Count(v) \/ ReadTicket(v) \/ Schedule(v)
  \/ EnterLookup(v) \/ Probe(v)
  \/ EnterClaim(v) \/ Recheck(v) \/ Add(v)

OperatorStep(v) == EvalKey(v) \/ EvalWhen(v)

AllAnswered == (\A v \in Visits : pc[v] = "done") /\ UNCHANGED vars

Next == (\E v \in Visits : GateStep(v) \/ OperatorStep(v)) \/ AllAnswered

Spec == Init /\ [][Next]_vars

\* A visit's own steps keep being scheduled.  Nothing is assumed of the
\* operator's key and condition: either may hang for ever.
Fairness == \A v \in Visits : WF_vars(GateStep(v))
FairSpec == Spec /\ Fairness

-----------------------------------------------------------------------------
Fired == {v \in Visits : outcome[v] = "fired"}
Ticketed == {v \in Visits : pc[v] \notin {"start", "count", "ticket"}}

\* "a rule fires once per key no matter how many threads arrive together"
\* (docs/rules.md): two visits of a once_per rule that both fired had
\* different keys.
OneFirePerKey ==
  mode = "once_per" =>
    \A v, w \in Fired : v # w => pending_key[v] # pending_key[w]

\* A key is consumed by a firing and by nothing else: not by a false
\* condition, not by a raise, not by the visit that lost the race.
ClaimsAreFirings ==
  mode = "once_per" => seen_keys = {pending_key[v] : v \in Fired}

\* Every visit past section 1 holds a count of its own, and none is beyond what
\* the shared counter has reached.
TicketsNumberVisits ==
  /\ \A v, w \in Ticketed : v # w => ticket[v] # ticket[w]
  /\ \A v \in Ticketed : ticket[v] \in 1..fires

\* countdown fires at most once, and on the rule's n+1th reach.
CountdownFiresOnTicket ==
  mode = "countdown" =>
    /\ \A v \in Fired : ticket[v] = N + 1
    /\ \A v, w \in Fired : v = w

\* `key: fires` is a legal rule whose keys never collide: no visit is told that
\* its own count was already seen.
TicketKeysNeverCollide ==
  \A v \in Visits : outcome[v] = "seen" => pending_key[v] \in Keys

\* A visit whose condition passed gets its key consumed, by itself or by a
\* rival, although other visits' keys and conditions may hang for ever.
PassingVisitSettlesKey ==
  \A v \in Visits : pc[v] = "claim" ~> pending_key[v] \in seen_keys

-----------------------------------------------------------------------------
\* The gate implements the one-step contract.  A visit is counted when the
\* counter moves, and decided when its answer is.
Counted(v) == pc[v] \notin {"start", "count"}

Verdict(v) ==
  IF ~Counted(v) THEN "unreached"
  ELSE IF outcome[v] = "none" THEN "open"
  ELSE IF outcome[v] \in {"false", "raised"} THEN "declined"
  ELSE outcome[v]

Contract == INSTANCE GateContract WITH
  reached <- fires,
  rank    <- [v \in Visits |-> IF pc[v] = "ticket" THEN fires ELSE ticket[v]],
  claimed <- seen_keys,
  verdict <- [v \in Visits |-> Verdict(v)]

\* Each visit's decision is indivisible: the three sections are one step of
\* GateContract or no step at all.
ImplementsContract == Contract!Spec
=============================================================================
