--------------------------- MODULE BarriersProofs ---------------------------
(***************************************************************************)
(* The latch properties of Barriers for every number of waiters, resetting *)
(* threads and names, and for any number of generations.                   *)
(***************************************************************************)
EXTENDS Barriers, TLAPS

\* The table only ever holds events of the running generation.
TableInv ==
  \A n \in Names : _state[n] # NoEvent => _state[n] = <<_generation, n>>

\* An event of the running generation is set only by open(), and is then in
\* the table; nothing is set before its generation starts.
SetInv ==
  \A e \in set :
    /\ e[1] <= _generation
    /\ e[1] = _generation => e \in opened /\ _state[e[2]] = e

\* What reset_all still has to set belongs to a retired generation.
OldInv == \A r \in Resetters : \A e \in old_events[r] : e[1] < _generation

\* A waiter holds the event of the generation and name it entered with.
WaitInv ==
  \A w \in Waiters :
    /\ gen[w] <= _generation
    /\ pc[w] # "idle" => ev[w] = <<gen[w], name[w]>>
    /\ pc[w] = "idle" => ~found_open[w]
    /\ pc[w] = "check" => ev[w] \in set
    /\ found_open[w] => ev[w] \in set /\ pc[w] # "blocked"
    /\ result[w] = "none" <=> pc[w] # "done"

IInv == TypeOK /\ TableInv /\ SetInv /\ OldInv /\ WaitInv /\ RefusalsAreExplained

-----------------------------------------------------------------------------
LEMMA InitIInv == Init => IInv
  BY NoEventAssumption
     DEF Init, IInv, TypeOK, TableInv, SetInv, OldInv, WaitInv, RefusalsAreExplained,
         Threads, Labels, Results, Events

LEMMA EntryIsCurrent ==
  ASSUME IInv, NEW n \in Names
  PROVE  Entry(n) = <<_generation, n>> /\ Entry(n) \in Events
  BY DEF IInv, TypeOK, TableInv, Entry, Events

LEMMA StepTypeOK == IInv /\ [Next]_vars => TypeOK'
<1> SUFFICES ASSUME IInv, [Next]_vars PROVE TypeOK'
  OBVIOUS
<1> USE DEF IInv, TypeOK, Threads, Labels, Results, Goto, Return, waitVars
<1>1. ASSUME NEW w \in Waiters, StartWait(w) PROVE TypeOK'
  BY <1>1, EntryIsCurrent DEF StartWait, IsOpen
<1>2. ASSUME NEW w \in Waiters, IsSet(w) \/ Wake(w) PROVE TypeOK'
  BY <1>2 DEF IsSet, Wake
<1>3. ASSUME NEW w \in Waiters, Timeout(w) \/ Check(w) PROVE TypeOK'
  BY <1>3 DEF Timeout, Check
<1>4. ASSUME NEW r \in Resetters, Reset(r) PROVE TypeOK'
  BY <1>4 DEF Reset
<1>5. ASSUME NEW r \in Resetters, SetOld(r) PROVE TypeOK'
  BY <1>5 DEF SetOld
<1>6. ASSUME NEW n \in Names, Open(n) PROVE TypeOK'
  BY <1>6, EntryIsCurrent DEF Open
<1>7. CASE UNCHANGED vars
  BY <1>7 DEF vars
<1> QED
  BY <1>1, <1>2, <1>3, <1>4, <1>5, <1>6, <1>7 DEF Next, WaitStep, ResetStep

\* The event side: table, flags, and what resets still have to set.
LEMMA StepEventInv == IInv /\ [Next]_vars => (TableInv /\ SetInv /\ OldInv)'
<1> SUFFICES ASSUME IInv, [Next]_vars PROVE (TableInv /\ SetInv /\ OldInv)'
  OBVIOUS
<1> USE NoEventAssumption
    DEF IInv, TypeOK, TableInv, SetInv, OldInv, Events, Goto, Return, waitVars
<1>1. ASSUME NEW w \in Waiters, StartWait(w)
      PROVE  (TableInv /\ SetInv /\ OldInv)'
  BY <1>1, EntryIsCurrent DEF StartWait
<1>2. ASSUME NEW w \in Waiters, IsSet(w) \/ Wake(w) \/ Timeout(w) \/ Check(w)
      PROVE  (TableInv /\ SetInv /\ OldInv)'
  BY <1>2 DEF IsSet, Wake, Timeout, Check
<1>3. ASSUME NEW r \in Resetters, Reset(r)
      PROVE  (TableInv /\ SetInv /\ OldInv)'
  <2>1. _generation' = _generation + 1 /\ set' = set
        /\ _state' = [n \in Names |-> NoEvent]
    BY <1>3 DEF Reset
  <2>2. \A e \in {_state[n] : n \in Names} \ {NoEvent} : e[1] = _generation
    OBVIOUS
  <2>3. OldInv'
    BY <1>3, <2>1, <2>2 DEF Reset
  <2> QED
    BY <2>1, <2>3
<1>4. ASSUME NEW r \in Resetters, SetOld(r)
      PROVE  (TableInv /\ SetInv /\ OldInv)'
  BY <1>4 DEF SetOld
<1>5. ASSUME NEW n \in Names, Open(n)
      PROVE  (TableInv /\ SetInv /\ OldInv)'
  BY <1>5, EntryIsCurrent DEF Open
<1>6. CASE UNCHANGED vars
  BY <1>6 DEF vars
<1> QED
  BY <1>1, <1>2, <1>3, <1>4, <1>5, <1>6 DEF Next, WaitStep, ResetStep

\* The waiter side, and with it the latch.
LEMMA StepWaitInv == IInv /\ [Next]_vars => (WaitInv /\ RefusalsAreExplained)'
<1> SUFFICES ASSUME IInv, [Next]_vars PROVE (WaitInv /\ RefusalsAreExplained)'
  OBVIOUS
<1> USE ThreadAssumption
    DEF IInv, TypeOK, WaitInv, RefusalsAreExplained, Threads, Labels, Results, Goto, Return,
        waitVars
<1>1. ASSUME NEW w \in Waiters, StartWait(w) PROVE (WaitInv /\ RefusalsAreExplained)'
  <2>1. Entry(name[w]) = <<_generation, name[w]>>
    BY EntryIsCurrent
  <2>2. IsOpen(name[w]) => Entry(name[w]) \in set
    BY NoEventAssumption DEF IsOpen, Entry, Events
  <2> QED
    BY <1>1, <2>1, <2>2 DEF StartWait
<1>2. ASSUME NEW w \in Waiters, IsSet(w) \/ Wake(w)
      PROVE  (WaitInv /\ RefusalsAreExplained)'
  BY <1>2 DEF IsSet, Wake
<1>3. ASSUME NEW w \in Waiters, Timeout(w) PROVE (WaitInv /\ RefusalsAreExplained)'
  BY <1>3 DEF Timeout
<1>4. ASSUME NEW w \in Waiters, Check(w) PROVE (WaitInv /\ RefusalsAreExplained)'
  BY <1>4 DEF Check
<1>5. ASSUME NEW r \in Resetters, Reset(r) \/ SetOld(r)
      PROVE  (WaitInv /\ RefusalsAreExplained)'
  BY <1>5 DEF Reset, SetOld
<1>6. ASSUME NEW n \in Names, Open(n) PROVE (WaitInv /\ RefusalsAreExplained)'
  BY <1>6 DEF Open
<1>7. CASE UNCHANGED vars
  BY <1>7 DEF vars
<1> QED
  BY <1>1, <1>2, <1>3, <1>4, <1>5, <1>6, <1>7 DEF Next, WaitStep, ResetStep

LEMMA Invariance == Spec => []IInv
<1>1. IInv /\ [Next]_vars => IInv'
  BY StepTypeOK, StepEventInv, StepWaitInv DEF IInv
<1> QED
  BY InitIInv, <1>1, PTL DEF Spec

-----------------------------------------------------------------------------
\* The variables of barriers.py keep their types.
THEOREM TypeCorrect == Spec => []TypeOK
<1>1. IInv => TypeOK
  BY DEF IInv
<1> QED
  BY Invariance, <1>1, PTL

\* barriers.wait: a waiter is refused by a deadline over a barrier it found
\* closed, or by a reset, and by nothing else.
THEOREM Latch == Spec => []RefusalsAreExplained
<1>1. IInv => RefusalsAreExplained
  BY DEF IInv
<1> QED
  BY Invariance, <1>1, PTL

\* barriers.reset_all: the sets it makes outside the lock never open a barrier
\* of a later generation.
THEOREM LateSets == Spec => []LateSetsOpenNothing
<1>1. IInv => LateSetsOpenNothing
  BY NoEventAssumption
     DEF IInv, TypeOK, TableInv, SetInv, LateSetsOpenNothing, IsOpen, Events
<1> QED
  BY Invariance, <1>1, PTL

\* barriers.wait: True means that the barrier is open as the wait returns.
THEOREM PassMeansOpen == Spec => PassFindsBarrierOpen
<1>1. IInv /\ [Next]_vars => [Pass]_vars
  <2> SUFFICES ASSUME IInv, Next, NEW w \in Waiters,
                      result[w] = "none", result'[w] = "true"
               PROVE  IsOpen(name[w]) /\ <<_generation, name[w]>> \in opened
    BY DEF Pass
  <2>1. Check(w) /\ gen[w] = _generation
    <3>1. ASSUME NEW x \in Waiters, WaitStep(x)
          PROVE  Check(w) /\ gen[w] = _generation
      BY <3>1 DEF WaitStep, StartWait, IsSet, Wake, Timeout, Check, Return,
                  IInv, TypeOK, waitVars
    <3>2. ASSUME NEW r \in Resetters, ResetStep(r) PROVE FALSE
      BY <3>2 DEF ResetStep, Reset, SetOld, waitVars
    <3>3. ASSUME NEW n \in Names, Open(n) PROVE FALSE
      BY <3>3 DEF Open, waitVars
    <3> QED
      BY <3>1, <3>2, <3>3 DEF Next
  <2>2. ev[w] = <<_generation, name[w]>> /\ ev[w] \in set
    BY <2>1 DEF Check, IInv, WaitInv
  <2> QED
    BY <2>2 DEF IInv, TypeOK, SetInv, IsOpen
<1> QED
  BY Invariance, <1>1, PTL DEF Spec, PassFindsBarrierOpen
=============================================================================
