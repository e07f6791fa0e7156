------------------------------ MODULE Barriers ------------------------------
(***************************************************************************)
(* barriers.py: named one-shot latches for the threads of one process, and *)
(* the `barrier` branch of actions._dispatch that waits on them.           *)
(*                                                                         *)
(* Every `with _lock:` body is one action: it runs no foreign code.  What  *)
(* happens outside the lock is a step of its own: Event.is_set and         *)
(* Event.wait in wait(), and the loop of reset_all that sets the events of *)
(* the generation it retired.                                              *)
(***************************************************************************)
EXTENDS Naturals

CONSTANTS
  Waiters,        \* threads that call wait() once
  Resetters,      \* threads that call reset_all() once
  Names,          \* barrier names
  NoEvent         \* the name has no entry in _state

ASSUME NoEventAssumption == NoEvent \notin Nat \X Names
\* Waiting and resetting threads are told apart by the locals they keep.
ASSUME ThreadAssumption == Waiters \cap Resetters = {}

VARIABLES
  _generation,    \* barriers._generation
  _state,         \* barriers._state: each name's Event, or NoEvent
  set,            \* the Events whose flag is up
  pc,             \* where each thread stands
  name,           \* the barrier each waiter asked for
  gen,            \* wait()'s local `gen`
  ev,             \* wait()'s local `ev`
  result,         \* what wait() returned
  old_events,     \* reset_all()'s local `old_events`, those not yet set
  opened,         \* history: <<generation, name>> pairs open() was called in
  found_open,     \* history: the barrier was open when the waiter entered
  expired         \* history: the waiter's deadline passed

vars == <<_generation, _state, set, pc, name, gen, ev, result, old_events,
          opened, found_open, expired>>
waitVars == <<name, gen, ev, result, found_open, expired>>

\* An Event is known by the generation and name it was created for: setdefault
\* creates at most one per name in the dictionary a generation starts with.
Events == Nat \X Names
Threads == Waiters \cup Resetters
Labels == {"idle", "is_set", "blocked", "check", "setting", "done"}
Results == {"none", "true", "false"}

TypeOK ==
  /\ _generation \in Nat
  /\ _state \in [Names -> Events \cup {NoEvent}]
  /\ set \subseteq Events
  /\ pc \in [Threads -> Labels]
  /\ name \in [Waiters -> Names]
  /\ gen \in [Waiters -> Nat]
  /\ ev \in [Waiters -> Events \cup {NoEvent}]
  /\ result \in [Waiters -> Results]
  /\ old_events \in [Resetters -> SUBSET Events]
  /\ opened \subseteq Nat \X Names
  /\ found_open \in [Waiters -> BOOLEAN]
  /\ expired \in [Waiters -> BOOLEAN]

Init ==
  /\ _generation = 0
  /\ _state = [n \in Names |-> NoEvent]
  /\ set = {}
  /\ pc = [t \in Threads |-> "idle"]
  /\ name \in [Waiters -> Names]
  /\ gen = [w \in Waiters |-> 0]
  /\ ev = [w \in Waiters |-> NoEvent]
  /\ result = [w \in Waiters |-> "none"]
  /\ old_events = [r \in Resetters |-> {}]
  /\ opened = {}
  /\ found_open = [w \in Waiters |-> FALSE]
  /\ expired = [w \in Waiters |-> FALSE]

-----------------------------------------------------------------------------
Goto(t, label) == pc' = [pc EXCEPT ![t] = label]

Return(w, answer) ==
  /\ result' = [result EXCEPT ![w] = answer]
  /\ Goto(w, "done")

\* _state.setdefault(n, threading.Event())
Entry(n) == IF _state[n] = NoEvent THEN <<_generation, n>> ELSE _state[n]
IsOpen(n) == _state[n] \in set

\* wait(), first section: the generation and the event are read together.
StartWait(w) ==
  /\ pc[w] = "idle"
  /\ gen' = [gen EXCEPT ![w] = _generation]
  /\ ev' = [ev EXCEPT ![w] = Entry(name[w])]
  /\ _state' = [_state EXCEPT ![name[w]] = Entry(name[w])]
  /\ found_open' = [found_open EXCEPT ![w] = IsOpen(name[w])]
  /\ Goto(w, "is_set")
  /\ UNCHANGED <<_generation, set, name, result, old_events, opened, expired>>

\* `if ev.is_set()`, outside the lock.
IsSet(w) ==
  /\ pc[w] = "is_set"
  /\ Goto(w, IF ev[w] \in set THEN "check" ELSE "blocked")
  /\ UNCHANGED <<_generation, _state, set, waitVars, old_events, opened>>

\* ev.wait(timeout_s) answers True once the flag is up.
Wake(w) ==
  /\ pc[w] = "blocked"
  /\ ev[w] \in set
  /\ Goto(w, "check")
  /\ UNCHANGED <<_generation, _state, set, waitVars, old_events, opened>>

\* ev.wait(timeout_s) answers False: the deadline passed with the flag down.
Timeout(w) ==
  /\ pc[w] = "blocked"
  /\ ev[w] \notin set
  /\ expired' = [expired EXCEPT ![w] = TRUE]
  /\ Return(w, "false")
  /\ UNCHANGED <<_generation, _state, set, name, gen, ev, old_events, opened, found_open>>

\* Mutant of Check: a set event is taken for an opened barrier.
CheckAnyGeneration(w) ==
  /\ pc[w] = "check"
  /\ Return(w, "true")
  /\ UNCHANGED <<_generation, _state, set, name, gen, ev, old_events, opened,
                 found_open, expired>>

\* Mutant of Check: the comparison is off by one generation.
CheckLaterGeneration(w) ==
  /\ pc[w] = "check"
  /\ Return(w, IF _generation = gen[w] + 1 THEN "true" ELSE "false")
  /\ UNCHANGED <<_generation, _state, set, name, gen, ev, old_events, opened,
                 found_open, expired>>

\* wait(), last section: a set event counts only in the generation waited in.
Check(w) ==
  /\ pc[w] = "check"
  /\ Return(w, IF _generation = gen[w] THEN "true" ELSE "false")
  /\ UNCHANGED <<_generation, _state, set, name, gen, ev, old_events, opened,
                 found_open, expired>>

\* open(name): any thread, any time, any number of times.
Open(n) ==
  /\ _state' = [_state EXCEPT ![n] = Entry(n)]
  /\ set' = set \cup {Entry(n)}
  /\ opened' = opened \cup {<<_generation, n>>}
  /\ UNCHANGED <<_generation, pc, waitVars, old_events>>

\* Mutant of Reset: nobody remembers the events of the retired generation.
ResetDropsEvents(r) ==
  /\ pc[r] = "idle"
  /\ _generation' = _generation + 1
  /\ _state' = [n \in Names |-> NoEvent]
  /\ Goto(r, "setting")
  /\ UNCHANGED <<set, waitVars, old_events, opened>>

\* reset_all(), the section that retires a generation.
Reset(r) ==
  /\ pc[r] = "idle"
  /\ old_events' = [old_events EXCEPT ![r] = {_state[n] : n \in Names} \ {NoEvent}]
  /\ _generation' = _generation + 1
  /\ _state' = [n \in Names |-> NoEvent]
  /\ Goto(r, "setting")
  /\ UNCHANGED <<set, waitVars, opened>>

\* reset_all(), the loop outside the lock: one event at a time.
SetOld(r) ==
  /\ pc[r] = "setting"
  /\ \/ \E e \in old_events[r] :
          /\ set' = set \cup {e}
          /\ old_events' = [old_events EXCEPT ![r] = @ \ {e}]
          /\ UNCHANGED pc
     \/ /\ old_events[r] = {}
        /\ Goto(r, "done")
        /\ UNCHANGED <<set, old_events>>
  /\ UNCHANGED <<_generation, _state, waitVars, opened>>

WaitStep(w) == StartWait(w) \/ IsSet(w) \/ Wake(w) \/ Timeout(w) \/ Check(w)
ResetStep(r) == Reset(r) \/ SetOld(r)

Next ==
  \/ \E w \in Waiters : WaitStep(w)
  \/ \E r \in Resetters : ResetStep(r)
  \/ \E n \in Names : Open(n)

Spec == Init /\ [][Next]_vars

\* Threads that have work to do are scheduled.  No deadline ever has to pass
\* and nobody has to call reset_all or open.
Fairness ==
  /\ \A w \in Waiters : WF_vars(IsSet(w) \/ Wake(w) \/ Check(w))
  /\ \A r \in Resetters : WF_vars(SetOld(r))
FairSpec == Spec /\ Fairness

-----------------------------------------------------------------------------
\* A wait that returns True returns while the barrier is open: the current
\* table holds an opened event under that name, opened by open() and not by
\* the set with which reset_all wakes the waiters it strands.
Pass ==
  \A w \in Waiters : result[w] = "none" /\ result'[w] = "true" =>
    IsOpen(name[w]) /\ <<_generation, name[w]>> \in opened
PassFindsBarrierOpen == [][Pass]_vars

\* A wait is refused only because its deadline passed over a barrier that was
\* closed when it entered, or because the generation it entered in has been
\* retired: an open barrier admits, and no third reason hides behind the one
\* status `barrier_timeout`.
RefusalsAreExplained ==
  \A w \in Waiters :
    result[w] = "false" =>
      _generation # gen[w] \/ (expired[w] /\ ~found_open[w])

\* However late reset_all gets to its sets, they open nothing in a later
\* generation: what is set in the current table was opened in it.
LateSetsOpenNothing ==
  \A n \in Names : IsOpen(n) => <<_generation, n>> \in opened

\* A waiter whose generation was retired returns, even if no deadline passes.
NoWaiterStranded ==
  \A w \in Waiters :
    (pc[w] = "blocked" /\ gen[w] # _generation) ~> pc[w] = "done"

=============================================================================
