---------------------------- MODULE FiringProofs ----------------------------
(***************************************************************************)
(* A firing from the rule's gate to its line on disk.  First FiringGate:   *)
(* what its run checks on three visits, for every set of visits and keys,  *)
(* every mode and every n.  Then FiringLog: what its run checks on three   *)
(* threads and two processes, for any number of threads, instances,        *)
(* records and chunks to a line.  The two components share no variable.    *)
(***************************************************************************)
EXTENDS FiringGate, FiringLog, TLAPS, SequenceTheorems

HasLock == {"count", "ticket", "probe", "recheck", "add"}
Keyed == {"lookup", "probe", "claim", "recheck", "add"}

\* The lock is held by the one visit that stands inside a section.
LockInv == \A v \in Visits : pc[v] \in HasLock <=> lock = v

\* Where a visit stands says what it knows and what it has answered.
PathInv ==
  \A v \in Visits :
    /\ outcome[v] = "none" <=> pc[v] # "done"
    /\ pc[v] \in Keyed \cup {"key"} => mode = "once_per"
    /\ pc[v] \in Keyed => pending_key[v] \in KeyValues
    /\ (pc[v] = "when" /\ mode = "once_per") => pending_key[v] \in KeyValues
    /\ (outcome[v] \in {"fired", "seen"} /\ mode = "once_per") =>
          pending_key[v] \in KeyValues
    /\ outcome[v] = "off_schedule" => mode = "countdown" /\ ticket[v] # N + 1
    /\ outcome[v] = "seen" => mode = "once_per" /\ pending_key[v] \in seen_keys

\* A count handed out is below the counter while the next one is being read.
TicketInv ==
  /\ TicketsNumberVisits
  /\ \A w \in Visits : pc[w] = "ticket" =>
        /\ fires >= 1
        /\ \A v \in Ticketed : ticket[v] < fires

\* The claim section: what is about to be added is not there yet, what is
\* there was added by a firing, and no two firings added the same key.
KeyInv ==
  /\ \A v \in Visits : pc[v] = "add" => pending_key[v] \notin seen_keys
  /\ OneFirePerKey
  /\ ClaimsAreFirings

\* Under countdown only the visit with the right ticket gets past Schedule.
CountdownInv ==
  mode = "countdown" =>
    \A v \in Visits : pc[v] = "when" \/ outcome[v] = "fired" => ticket[v] = N + 1

\* A key that is a count is the count of its own visit.
TicketKeyInv ==
  \A v \in Visits : pending_key[v] \in Nat =>
     pending_key[v] = ticket[v] /\ v \in Ticketed

IInv == TypeOK /\ LockInv /\ PathInv /\ TicketInv /\ KeyInv /\ CountdownInv
          /\ TicketKeyInv

-----------------------------------------------------------------------------
LEMMA InitIInv == Init => IInv
  BY CountdownAssumption, NoKeyAssumption, NoVisitAssumption
     DEF Init, IInv, TypeOK, LockInv, PathInv, TicketInv, KeyInv, CountdownInv,
         TicketKeyInv, TicketsNumberVisits, OneFirePerKey, ClaimsAreFirings,
         Ticketed, Fired, Labels, Outcomes, HasLock, Keyed

\* Type correctness is inductive with the path facts that make keys keys.
LEMMA StepTypeOK == IInv /\ [Next]_vars => TypeOK'
<1> SUFFICES ASSUME IInv, [Next]_vars PROVE TypeOK'
  OBVIOUS
<1> USE DEF IInv, TypeOK, Labels, Outcomes, Goto, Answer, Release, Acquire
<1>1. ASSUME NEW v \in Visits, EnterTicket(v) \/ EnterLookup(v) \/ EnterClaim(v)
      PROVE  TypeOK'
  BY <1>1 DEF EnterTicket, EnterLookup, EnterClaim
<1>2. ASSUME NEW v \in Visits, Count(v) PROVE TypeOK'
  BY <1>2 DEF Count
<1>3. ASSUME NEW v \in Visits, ReadTicket(v) PROVE TypeOK'
  BY <1>3 DEF ReadTicket
<1>4. ASSUME NEW v \in Visits, Schedule(v) PROVE TypeOK'
  BY <1>4 DEF Schedule
<1>5. ASSUME NEW v \in Visits, EvalKey(v) PROVE TypeOK'
  BY <1>5 DEF EvalKey, KeyValues
<1>6. ASSUME NEW v \in Visits, Probe(v) PROVE TypeOK'
  BY <1>6 DEF Probe
<1>7. ASSUME NEW v \in Visits, EvalWhen(v) PROVE TypeOK'
  BY <1>7 DEF EvalWhen
<1>8. ASSUME NEW v \in Visits, Recheck(v) PROVE TypeOK'
  BY <1>8 DEF Recheck
<1>9. ASSUME NEW v \in Visits, Add(v) PROVE TypeOK'
  BY <1>9 DEF Add, PathInv, Keyed
<1>10. CASE UNCHANGED vars
  BY <1>10 DEF vars
<1> QED
  BY <1>1, <1>2, <1>3, <1>4, <1>5, <1>6, <1>7, <1>8, <1>9, <1>10
     DEF Next, GateStep, OperatorStep, AllAnswered

\* Mutual exclusion of the three sections.
LEMMA StepLockInv == IInv /\ [Next]_vars => LockInv'
<1> SUFFICES ASSUME IInv, [Next]_vars PROVE LockInv'
  OBVIOUS
<1> USE NoVisitAssumption
    DEF IInv, TypeOK, LockInv, HasLock, Labels, Goto, Answer, Release, Acquire
<1>1. ASSUME NEW v \in Visits, EnterTicket(v) \/ EnterLookup(v) \/ EnterClaim(v)
      PROVE  LockInv'
  BY <1>1 DEF EnterTicket, EnterLookup, EnterClaim
<1>2. ASSUME NEW v \in Visits, Count(v) \/ ReadTicket(v) PROVE LockInv'
  BY <1>2 DEF Count, ReadTicket
<1>3. ASSUME NEW v \in Visits, Schedule(v) PROVE LockInv'
  BY <1>3 DEF Schedule
<1>4. ASSUME NEW v \in Visits, OperatorStep(v) PROVE LockInv'
  BY <1>4 DEF OperatorStep, EvalKey, EvalWhen
<1>5. ASSUME NEW v \in Visits, Probe(v) PROVE LockInv'
  BY <1>5 DEF Probe
<1>6. ASSUME NEW v \in Visits, Recheck(v) PROVE LockInv'
  BY <1>6 DEF Recheck
<1>7. ASSUME NEW v \in Visits, Add(v) PROVE LockInv'
  BY <1>7 DEF Add
<1>8. CASE UNCHANGED vars
  BY <1>8 DEF vars
<1> QED
  BY <1>1, <1>2, <1>3, <1>4, <1>5, <1>6, <1>7, <1>8
     DEF Next, GateStep, OperatorStep, AllAnswered

LEMMA StepPathInv == IInv /\ [Next]_vars => PathInv'
<1> SUFFICES ASSUME IInv, [Next]_vars PROVE PathInv'
  OBVIOUS
<1> USE DEF IInv, TypeOK, PathInv, Keyed, Labels, Outcomes, Goto, Answer,
            Release, Acquire
<1>1. ASSUME NEW v \in Visits, EnterTicket(v) \/ EnterLookup(v) \/ EnterClaim(v)
      PROVE  PathInv'
  BY <1>1 DEF EnterTicket, EnterLookup, EnterClaim
<1>2. ASSUME NEW v \in Visits, Count(v) PROVE PathInv'
  BY <1>2 DEF Count
<1>3. ASSUME NEW v \in Visits, ReadTicket(v) PROVE PathInv'
  BY <1>3 DEF ReadTicket
<1>4. ASSUME NEW v \in Visits, Schedule(v) PROVE PathInv'
  BY <1>4 DEF Schedule
<1>5. ASSUME NEW v \in Visits, EvalKey(v) PROVE PathInv'
  BY <1>5 DEF EvalKey, KeyValues
<1>6. ASSUME NEW v \in Visits, Probe(v) PROVE PathInv'
  BY <1>6 DEF Probe
<1>7. ASSUME NEW v \in Visits, EvalWhen(v) PROVE PathInv'
  BY <1>7 DEF EvalWhen
<1>8. ASSUME NEW v \in Visits, Recheck(v) PROVE PathInv'
  BY <1>8 DEF Recheck
<1>9. ASSUME NEW v \in Visits, Add(v) PROVE PathInv'
  BY <1>9 DEF Add
<1>10. CASE UNCHANGED vars
  BY <1>10 DEF vars
<1> QED
  BY <1>1, <1>2, <1>3, <1>4, <1>5, <1>6, <1>7, <1>8, <1>9, <1>10
     DEF Next, GateStep, OperatorStep, AllAnswered

\* Section 1 hands out every count once: while a visit reads its count no other
\* visit can move the counter, because the lock is held.
LEMMA StepTicketInv == IInv /\ [Next]_vars => TicketInv'
<1> SUFFICES ASSUME IInv, [Next]_vars PROVE TicketInv'
  OBVIOUS
<1> USE DEF IInv, TypeOK, TicketInv, TicketsNumberVisits, Ticketed, Labels,
            Goto, Answer, Release, Acquire
<1>1. ASSUME NEW v \in Visits, EnterTicket(v) \/ EnterLookup(v) \/ EnterClaim(v)
      PROVE  TicketInv'
  BY <1>1 DEF EnterTicket, EnterLookup, EnterClaim
<1>2. ASSUME NEW v \in Visits, Count(v) PROVE TicketInv'
  BY <1>2 DEF Count
<1>3. ASSUME NEW v \in Visits, ReadTicket(v) PROVE TicketInv'
  <2>1. \A w \in Visits : w # v => pc[w] # "ticket"
    BY <1>3 DEF ReadTicket, LockInv, HasLock
  <2> QED
    BY <1>3, <2>1 DEF ReadTicket
<1>4. ASSUME NEW v \in Visits, Schedule(v) \/ OperatorStep(v) PROVE TicketInv'
  BY <1>4 DEF Schedule, OperatorStep, EvalKey, EvalWhen
<1>5. ASSUME NEW v \in Visits, Probe(v) \/ Recheck(v) \/ Add(v) PROVE TicketInv'
  BY <1>5 DEF Probe, Recheck, Add
<1>6. CASE UNCHANGED vars
  BY <1>6 DEF vars
<1> QED
  BY <1>1, <1>2, <1>3, <1>4, <1>5, <1>6 DEF Next, GateStep, OperatorStep, AllAnswered

\* Section 3 decides: between the re-check and the claim nobody else can claim.
LEMMA StepKeyInv == IInv /\ [Next]_vars => KeyInv'
<1> SUFFICES ASSUME IInv, [Next]_vars PROVE KeyInv'
  OBVIOUS
<1> USE DEF IInv, TypeOK, KeyInv, OneFirePerKey, ClaimsAreFirings, Fired, Labels,
            Outcomes, Goto, Answer, Release, Acquire
<1>1. ASSUME NEW v \in Visits, EnterTicket(v) \/ EnterLookup(v) \/ EnterClaim(v)
      PROVE  KeyInv'
  BY <1>1 DEF EnterTicket, EnterLookup, EnterClaim
<1>2. ASSUME NEW v \in Visits, Count(v) \/ ReadTicket(v) PROVE KeyInv'
  BY <1>2 DEF Count, ReadTicket
<1>3. ASSUME NEW v \in Visits, Schedule(v) PROVE KeyInv'
  BY <1>3 DEF Schedule, PathInv
<1>4. ASSUME NEW v \in Visits, EvalKey(v) PROVE KeyInv'
  BY <1>4 DEF EvalKey, PathInv
<1>5. ASSUME NEW v \in Visits, EvalWhen(v) PROVE KeyInv'
  BY <1>5 DEF EvalWhen, PathInv
<1>6. ASSUME NEW v \in Visits, Probe(v) PROVE KeyInv'
  BY <1>6 DEF Probe, PathInv
<1>7. ASSUME NEW v \in Visits, Recheck(v) PROVE KeyInv'
  BY <1>7 DEF Recheck, PathInv
<1>8. ASSUME NEW v \in Visits, Add(v) PROVE KeyInv'
  <2>1. \A w \in Visits : w # v => pc[w] # "add"
    BY <1>8 DEF Add, LockInv, HasLock
  <2>2. Fired' = Fired \cup {v}
    BY <1>8 DEF Add
  <2>3. \A w \in Fired : pending_key[w] # pending_key[v]
    BY <1>8 DEF Add, PathInv, Keyed
  <2> QED
    BY <1>8, <2>1, <2>2, <2>3 DEF Add
<1>9. CASE UNCHANGED vars
  BY <1>9 DEF vars
<1> QED
  BY <1>1, <1>2, <1>3, <1>4, <1>5, <1>6, <1>7, <1>8, <1>9
     DEF Next, GateStep, OperatorStep, AllAnswered

LEMMA StepCountdownInv == IInv /\ [Next]_vars => CountdownInv'
<1> SUFFICES ASSUME IInv, [Next]_vars PROVE CountdownInv'
  OBVIOUS
<1> USE DEF IInv, TypeOK, CountdownInv, PathInv, Keyed, Labels, Outcomes, Goto,
            Answer, Release, Acquire
<1>1. ASSUME NEW v \in Visits, GateStep(v) PROVE CountdownInv'
  BY <1>1 DEF GateStep, EnterTicket, Count, ReadTicket, Schedule, EnterLookup,
              Probe, EnterClaim, Recheck, Add
<1>2. ASSUME NEW v \in Visits, OperatorStep(v) PROVE CountdownInv'
  BY <1>2 DEF OperatorStep, EvalKey, EvalWhen
<1>3. CASE UNCHANGED vars
  BY <1>3 DEF vars
<1> QED
  BY <1>1, <1>2, <1>3 DEF Next, AllAnswered

LEMMA StepTicketKeyInv == IInv /\ [Next]_vars => TicketKeyInv'
<1> SUFFICES ASSUME IInv, [Next]_vars PROVE TicketKeyInv'
  OBVIOUS
<1> USE DEF IInv, TypeOK, TicketKeyInv, Ticketed, Labels, Goto, Answer, Release, Acquire
<1>1. ASSUME NEW v \in Visits, GateStep(v) PROVE TicketKeyInv'
  BY <1>1 DEF GateStep, EnterTicket, Count, ReadTicket, Schedule, EnterLookup,
              Probe, EnterClaim, Recheck, Add
<1>2. ASSUME NEW v \in Visits, EvalKey(v) PROVE TicketKeyInv'
  BY <1>2, KeysAssumption DEF EvalKey
<1>3. ASSUME NEW v \in Visits, EvalWhen(v) PROVE TicketKeyInv'
  BY <1>3 DEF EvalWhen
<1>4. CASE UNCHANGED vars
  BY <1>4 DEF vars
<1> QED
  BY <1>1, <1>2, <1>3, <1>4 DEF Next, OperatorStep, AllAnswered

LEMMA Invariance == Spec => []IInv
<1>1. IInv /\ [Next]_vars => IInv'
  BY StepTypeOK, StepLockInv, StepPathInv, StepTicketInv, StepKeyInv,
     StepCountdownInv, StepTicketKeyInv DEF IInv
<1> QED
  BY InitIInv, <1>1, PTL DEF Spec

-----------------------------------------------------------------------------
\* The variables of the gate keep their types.
THEOREM TypeCorrect == Spec => []TypeOK
<1>1. IInv => TypeOK
  BY DEF IInv
<1> QED
  BY Invariance, <1>1, PTL

\* For every number of overlapping visits, a once_per rule fires at most once
\* per key (patcher._gate, section 3).
THEOREM OncePerKey == Spec => []OneFirePerKey
<1>1. IInv => OneFirePerKey
  BY DEF IInv, KeyInv
<1> QED
  BY Invariance, <1>1, PTL

\* A key is consumed exactly by the visit that fired on it.
THEOREM KeysClaimedByFirings == Spec => []ClaimsAreFirings
<1>1. IInv => ClaimsAreFirings
  BY DEF IInv, KeyInv
<1> QED
  BY Invariance, <1>1, PTL

\* Section 1 numbers the visits without gaps below the counter or repeats.
THEOREM TicketsAreUnique == Spec => []TicketsNumberVisits
<1>1. IInv => TicketsNumberVisits
  BY DEF IInv, TicketInv
<1> QED
  BY Invariance, <1>1, PTL

\* A countdown rule fires at most once, on its n+1th reach.
THEOREM CountdownOnce == Spec => []CountdownFiresOnTicket
<1>1. IInv => CountdownFiresOnTicket
  BY DEF IInv, TypeOK, CountdownInv, CountdownFiresOnTicket, TicketInv,
         TicketsNumberVisits, Ticketed, Fired, PathInv
<1> QED
  BY Invariance, <1>1, PTL

\* A rule keyed on its own ticket is never told its key was seen.
THEOREM TicketKeysAreFresh == Spec => []TicketKeysNeverCollide
<1>1. IInv => TicketKeysNeverCollide
  <2> SUFFICES ASSUME IInv, NEW v \in Visits, outcome[v] = "seen",
                      pending_key[v] \notin Keys
               PROVE  FALSE
    BY DEF TicketKeysNeverCollide
  <2>1. /\ mode = "once_per"
        /\ pending_key[v] \in seen_keys /\ pending_key[v] \in Nat
    BY DEF IInv, PathInv, KeyValues
  <2>2. PICK w \in Fired : pending_key[w] = pending_key[v]
    BY <2>1 DEF IInv, KeyInv, ClaimsAreFirings
  <2>3. w \in Visits /\ w # v
    BY <2>2 DEF Fired
  <2>4. ticket[w] = ticket[v] /\ {v, w} \subseteq Ticketed
    BY <2>1, <2>2, <2>3, NoKeyAssumption DEF IInv, TicketKeyInv
  <2> QED
    BY <2>3, <2>4 DEF IInv, TicketInv, TicketsNumberVisits
<1> QED
  BY Invariance, <1>1, PTL

-----------------------------------------------------------------------------
\* One step of the gate is one step of the contract, or none: the counter moves
\* in Reach, the claim is Fire, every other answer is Stand.
LEMMA ContractStep == IInv /\ [Next]_vars => [Contract!Next]_(Contract!vars)
<1> SUFFICES ASSUME IInv, [Next]_vars
             PROVE  Contract!Next \/ UNCHANGED Contract!vars
  OBVIOUS
<1> USE DEF IInv, TypeOK, Contract!vars, Contract!Next, Counted, Verdict, Labels, Outcomes,
            Goto, Answer, Release, Acquire
<1>1. ASSUME NEW v \in Visits, EnterTicket(v) \/ EnterLookup(v) \/ EnterClaim(v)
      PROVE  UNCHANGED Contract!vars
  BY <1>1 DEF EnterTicket, EnterLookup, EnterClaim
<1>2. ASSUME NEW v \in Visits, Count(v) PROVE Contract!Reach(v)
  <2>1. \A w \in Visits : w # v => pc[w] # "ticket"
    BY <1>2 DEF Count, LockInv, HasLock
  <2>2. outcome[v] = "none"
    BY <1>2 DEF Count, PathInv
  <2> QED
    BY <1>2, <2>1, <2>2 DEF Count, Contract!Reach
<1>3. ASSUME NEW v \in Visits, ReadTicket(v) PROVE UNCHANGED Contract!vars
  BY <1>3 DEF ReadTicket
<1>4. ASSUME NEW v \in Visits, Schedule(v)
      PROVE  Contract!Stand(v) \/ UNCHANGED Contract!vars
  <2>1. outcome[v] = "none"
    BY <1>4 DEF Schedule, PathInv
  <2>2. CASE mode = "countdown" /\ ticket[v] # N + 1
    BY <1>4, <2>1, <2>2 DEF Schedule, Contract!Stand
  <2>3. CASE ~(mode = "countdown" /\ ticket[v] # N + 1)
    <3>1. pc[v] = "schedule" /\ \E l \in {"key", "when"} : pc' = [pc EXCEPT ![v] = l]
      BY <1>4, <2>3 DEF Schedule
    <3> QED
      BY <1>4, <2>3, <3>1 DEF Schedule
  <2> QED
    BY <2>2, <2>3
<1>5. ASSUME NEW v \in Visits, EvalKey(v)
      PROVE  Contract!Stand(v) \/ UNCHANGED Contract!vars
  <2>1. outcome[v] = "none" /\ pc[v] = "key"
    BY <1>5 DEF EvalKey, PathInv
  <2>2. CASE pc' = [pc EXCEPT ![v] = "lookup"] /\ UNCHANGED outcome
    BY <1>5, <2>1, <2>2 DEF EvalKey
  <2>3. CASE Answer(v, "raised")
    BY <1>5, <2>1, <2>3 DEF EvalKey, Contract!Stand
  <2> QED
    BY <1>5, <2>2, <2>3 DEF EvalKey
<1>6. ASSUME NEW v \in Visits, Probe(v) \/ Recheck(v)
      PROVE  Contract!Stand(v) \/ UNCHANGED Contract!vars
  <2>1. outcome[v] = "none" /\ pc[v] \in {"probe", "recheck"} /\ mode = "once_per"
    BY <1>6 DEF Probe, Recheck, PathInv, Keyed
  <2>2. CASE pending_key[v] \in seen_keys
    <3>1. pending_key[v] \in Contract!KeysOf(v)
      BY <2>1, NoKeyAssumption
         DEF PathInv, Keyed, KeyValues, TicketKeyInv, Contract!KeysOf
    <3> QED
      BY <1>6, <2>1, <2>2, <3>1 DEF Probe, Recheck, Contract!Stand
  <2>3. CASE pending_key[v] \notin seen_keys
    BY <1>6, <2>1, <2>3 DEF Probe, Recheck
  <2> QED
    BY <2>2, <2>3
<1>7. ASSUME NEW v \in Visits, EvalWhen(v)
      PROVE  Contract!Fire(v) \/ Contract!Stand(v) \/ UNCHANGED Contract!vars
  <2>1. outcome[v] = "none" /\ pc[v] = "when"
    BY <1>7 DEF EvalWhen, PathInv
  <2>2. ASSUME NEW no \in {"false", "raised"}, Answer(v, no)
        PROVE  Contract!Stand(v)
    BY <1>7, <2>1, <2>2 DEF EvalWhen, Contract!Stand
  <2>3. CASE pc' = [pc EXCEPT ![v] = "claim"] /\ UNCHANGED outcome
    BY <1>7, <2>1, <2>3 DEF EvalWhen
  <2>4. CASE mode # "once_per" /\ Answer(v, "fired")
    BY <1>7, <2>1, <2>4 DEF EvalWhen, Contract!Fire, CountdownInv
  <2> QED
    BY <1>7, <2>2, <2>3, <2>4 DEF EvalWhen
<1>8. ASSUME NEW v \in Visits, Add(v) PROVE Contract!Fire(v)
  <2>1. outcome[v] = "none" /\ pc[v] = "add" /\ mode = "once_per"
    BY <1>8 DEF Add, PathInv, Keyed
  <2>2. pending_key[v] \in Contract!KeysOf(v) \ seen_keys
    BY <2>1, NoKeyAssumption
       DEF PathInv, Keyed, KeyValues, TicketKeyInv, KeyInv, Contract!KeysOf
  <2> QED
    BY <1>8, <2>1, <2>2 DEF Add, Contract!Fire
<1>9. CASE UNCHANGED vars
  BY <1>9 DEF vars
<1> QED
  BY <1>1, <1>2, <1>3, <1>4, <1>5, <1>6, <1>7, <1>8, <1>9
     DEF Next, GateStep, OperatorStep, AllAnswered

\* The three sections implement the one-step contract: every behaviour of the
\* gate, seen through the refinement mapping, is a behaviour of GateContract.
THEOREM GateImplementsContract == Spec => ImplementsContract
<1>1. Init => Contract!Init
  BY DEF Init, Contract!Init, Counted, Verdict, Modes, Contract!Modes
<1> QED
  BY <1>1, Invariance, ContractStep, PTL DEF Spec, ImplementsContract, Contract!Spec

-----------------------------------------------------------------------------
\* The firing log.  A thread is in record()'s critical section.
InSection == {"flock", "write", "unlock", "finish"}
Inside(t) == log_pc[t] \in InSection

\* self._lock is held by the one thread in the section, which nobody closes.
MutexInv ==
  /\ \A t \in Threads : Inside(t) <=> mutex[InstanceOf[t]] = t
  /\ \A i \in Instances : mutex[i] # None => InstanceOf[mutex[i]] = i
  /\ \A i \in Instances : _closed[i] => mutex[i] = None

\* A thread that writes holds the flock, as long as its process lives.
FlockInv ==
  \A t \in Threads : log_pc[t] = "write" /\ Lives(t) => flock = InstanceOf[t]

\* The seq a thread works on is the last its instance handed out.
SeqInv == \A t \in Threads : Inside(t) => seq[t] = _seq[InstanceOf[t]]

\* Chunk k of the line a thread writes.
Piece(t, k) == [inst |-> InstanceOf[t], seq |-> seq[t], part |-> k]

\* Nothing in the file is ahead of what was handed out and written.
FileInv ==
  \A p \in 1..Len(file) :
    /\ file[p].seq <= _seq[file[p].inst]
    /\ \A t \in Threads :
         Inside(t) /\ file[p].inst = InstanceOf[t] /\ file[p].seq = seq[t] =>
           /\ file[p].part <= written[t]
           /\ log_pc[t] # "flock"

\* What a thread has written of its line is the end of the file.
TailInv ==
  \A t \in Threads :
    log_pc[t] = "write" /\ Lives(t) =>
      /\ written[t] <= Len(file)
      /\ \A k \in 1..written[t] : file[Len(file) - written[t] + k] = Piece(t, k)

\* A line of the file that begins after position p.
LineAt(p, i, n) ==
  \A k \in 1..LineChunks : file[p + k] = [inst |-> i, seq |-> n, part |-> k]
Landed(i, n) == \E p \in Nat : p + LineChunks <= Len(file) /\ LineAt(p, i, n)

\* `primary` is None only while no call failed; a record that is about to
\* answer has its whole line in the file, and so has one that answered.
LandInv ==
  /\ \A t \in Threads :
       /\ log_pc[t] \in {"flock", "write"} => ~primary[t]
       /\ log_pc[t] = "flock" => written[t] = 0
       /\ log_pc[t] \in {"unlock", "finish"} /\ ~primary[t] =>
            Landed(InstanceOf[t], seq[t])
  /\ \A id \in returned : Landed(id[1], id[2])

LogIInv ==
  /\ LogTypeOK /\ MutexInv /\ FlockInv /\ SeqInv /\ FileInv /\ TailInv /\ LandInv
  /\ IncompleteLinesAreExcused /\ LinesInSeqOrder
-----------------------------------------------------------------------------
LEMMA LogInitHolds == LogInit => LogIInv
<1> SUFFICES ASSUME LogInit PROVE LogIInv
  OBVIOUS
<1> USE NoneAssumption, InstanceOfAssumption, LineAssumption DEF LogInit
<1>1. LogTypeOK
  BY DEF LogTypeOK, LogLabels
<1>2. MutexInv /\ FlockInv /\ SeqInv
  BY DEF MutexInv, FlockInv, SeqInv, Inside, InSection
<1>3. FileInv /\ TailInv /\ IncompleteLinesAreExcused /\ LinesInSeqOrder
  BY DEF FileInv, TailInv, IncompleteLinesAreExcused, LinesInSeqOrder
<1>4. LandInv
  BY DEF LandInv
<1> QED
  BY <1>1, <1>2, <1>3, <1>4 DEF LogIInv

\* What an os.write appends: the pieces after the written ones, and nothing
\* else changes.
Appended(t, upto) ==
  /\ file' \in Seq(Chunk)
  /\ Len(file') = Len(file) + (upto - written[t])
  /\ \A p \in 1..Len(file) : file'[p] = file[p]
  /\ \A k \in (written[t] + 1)..upto : file'[Len(file) - written[t] + k] = Piece(t, k)

LEMMA WriteAppends ==
  ASSUME LogTypeOK, NEW t \in Threads, NEW upto \in written[t]..LineChunks,
         file' = file \o LineChunksFrom(t, upto)
  PROVE  Appended(t, upto)
<1> DEFINE line == LineChunksFrom(t, upto)
<1>0. written[t] \in 0..LineChunks /\ LineChunks \in Nat /\ upto \in Nat
      /\ upto - written[t] \in Nat
  BY LineAssumption DEF LogTypeOK
<1>1. \A k \in 1..LineChunks : Piece(t, k) \in Chunk
  BY InstanceOfAssumption DEF Piece, Chunk, LogTypeOK
<1>2. line = [k \in 1..(upto - written[t]) |-> Piece(t, written[t] + k)]
  BY DEF LineChunksFrom, Piece
<1> HIDE DEF line
<1>3. \A k \in 1..(upto - written[t]) : line[k] = Piece(t, written[t] + k)
  BY <1>2
<1>4. line \in Seq(Chunk) /\ Len(line) = upto - written[t]
  <2> DEFINE n == upto - written[t]
  <2>1. \A k \in 1..n : Piece(t, written[t] + k) \in Chunk
    BY <1>0, <1>1
  <2>2. n \in Nat
    BY <1>0
  <2> HIDE DEF n
  <2>3. [k \in 1..n |-> Piece(t, written[t] + k)] \in Seq(Chunk)
    BY <2>1, <2>2
  <2>4. Len([k \in 1..n |-> Piece(t, written[t] + k)]) = n
    BY <2>1, <2>2, <2>3, LenProperties
  <2> QED
    BY <1>2, <2>3, <2>4 DEF n
<1>5. file \in Seq(Chunk) /\ Len(file) \in Nat
  BY DEF LogTypeOK
<1>6. file' = file \o line
  BY DEF line
<1>7. /\ file \o line \in Seq(Chunk)
      /\ Len(file \o line) = Len(file) + Len(line)
      /\ \A i \in 1..Len(file) + Len(line) :
           (file \o line)[i] = IF i <= Len(file) THEN file[i] ELSE line[i - Len(file)]
  BY <1>4, <1>5, ConcatProperties
<1>8. ASSUME NEW k \in (written[t] + 1)..upto
      PROVE  file'[Len(file) - written[t] + k] = Piece(t, k)
  <2> DEFINE i == Len(file) - written[t] + k
             j == k - written[t]
  <2>a. k \in Nat /\ written[t] + 1 <= k /\ k <= upto
    BY <1>0
  <2>1. i \in Int /\ j \in Int /\ i = Len(file) + j
    BY <1>0, <1>5, <2>a
  <2>b. 1 <= j /\ j <= upto - written[t] /\ written[t] + j = k
    BY <1>0, <2>a
  <2> HIDE DEF i, j
  <2>0. /\ i \in 1..(Len(file) + (upto - written[t])) /\ ~(i <= Len(file))
        /\ i - Len(file) = j /\ j \in 1..(upto - written[t]) /\ written[t] + j = k
    BY <1>0, <1>5, <2>1, <2>b
  <2>2. /\ i \in 1..(Len(file) + Len(line)) /\ ~(i <= Len(file))
        /\ i - Len(file) = j /\ j \in 1..(upto - written[t]) /\ written[t] + j = k
    BY <1>4, <2>0
  <2>3. file'[i] = line[j]
    BY <1>6, <1>7, <2>2
  <2>4. file'[i] = Piece(t, k)
    BY <1>3, <2>2, <2>3
  <2> QED
    BY <2>4 DEF i
<1>9. \A p \in 1..Len(file) : file'[p] = file[p]
  BY <1>4, <1>5, <1>6, <1>7, <1>0
<1> QED
  BY <1>4, <1>6, <1>7, <1>8, <1>9 DEF Appended

\* A write may also append nothing: what every turn of _write_all does.
LEMMA TurnAppends ==
  ASSUME LogTypeOK, NEW t \in Threads, Write(t)
  PROVE  \E upto \in written[t]..LineChunks :
           /\ Appended(t, upto)
           /\ written' = [written EXCEPT ![t] = upto]
           /\ \/ /\ upto > written[t]
                 /\ log_pc' = [log_pc EXCEPT ![t] = IF upto = LineChunks
                                                    THEN "unlock" ELSE "write"]
                 /\ UNCHANGED primary
              \/ /\ primary' = [primary EXCEPT ![t] = TRUE]
                 /\ log_pc' = [log_pc EXCEPT ![t] = "unlock"]
<1>0. written[t] \in Nat /\ LineChunks \in Nat
  BY LineAssumption DEF LogTypeOK
<1>1. CASE \E upto \in (written[t] + 1)..LineChunks :
             /\ file' = file \o LineChunksFrom(t, upto)
             /\ written' = [written EXCEPT ![t] = upto]
             /\ LogGoto(t, IF upto = LineChunks THEN "unlock" ELSE "write")
             /\ UNCHANGED primary
  <2>1. PICK upto \in (written[t] + 1)..LineChunks :
             /\ file' = file \o LineChunksFrom(t, upto)
             /\ written' = [written EXCEPT ![t] = upto]
             /\ LogGoto(t, IF upto = LineChunks THEN "unlock" ELSE "write")
             /\ UNCHANGED primary
    BY <1>1
  <2>2. upto \in written[t]..LineChunks /\ upto > written[t]
    BY <1>0
  <2>3. Appended(t, upto)
    BY <2>1, <2>2, WriteAppends
  <2> QED
    BY <2>1, <2>2, <2>3 DEF LogGoto
<1>2. CASE /\ \E upto \in written[t]..LineChunks :
                /\ file' = file \o LineChunksFrom(t, upto)
                /\ written' = [written EXCEPT ![t] = upto]
           /\ primary' = [primary EXCEPT ![t] = TRUE]
           /\ LogGoto(t, "unlock")
  <2>1. PICK upto \in written[t]..LineChunks :
                /\ file' = file \o LineChunksFrom(t, upto)
                /\ written' = [written EXCEPT ![t] = upto]
    BY <1>2
  <2>2. Appended(t, upto)
    BY <2>1, WriteAppends
  <2> QED
    BY <1>2, <2>1, <2>2 DEF LogGoto
<1> QED
  BY <1>1, <1>2 DEF Write

-----------------------------------------------------------------------------
\* The two ways through `with self._lock`, and the two exits of record().
Refused(t) ==
  /\ _closed[InstanceOf[t]]
  /\ log_pc' = [log_pc EXCEPT ![t] = "idle"]
  /\ UNCHANGED <<mutex, _seq, seq, written, primary>>
Admitted(t) ==
  /\ ~_closed[InstanceOf[t]]
  /\ mutex' = [mutex EXCEPT ![InstanceOf[t]] = t]
  /\ _seq' = [_seq EXCEPT ![InstanceOf[t]] = _seq[InstanceOf[t]] + 1]
  /\ seq' = [seq EXCEPT ![t] = _seq[InstanceOf[t]] + 1]
  /\ written' = [written EXCEPT ![t] = 0]
  /\ primary' = [primary EXCEPT ![t] = FALSE]
  /\ log_pc' = [log_pc EXCEPT ![t] = "flock"]

LEMMA EnterMoves ==
  ASSUME LogTypeOK, NEW t \in Threads, Enter(t)
  PROVE  /\ log_pc[t] = "enter" /\ Lives(t) /\ mutex[InstanceOf[t]] = None
         /\ Refused(t) \/ Admitted(t)
         /\ UNCHANGED <<file, flock, _closed, dead, returned, child, child_mutex>>
<1>1. log_pc[t] = "enter" /\ Lives(t) /\ mutex[InstanceOf[t]] = None
      /\ UNCHANGED <<file, flock, _closed, dead, returned, child, child_mutex>>
  BY DEF Enter, childVars
<1>2. CASE _closed[InstanceOf[t]]
  BY <1>1, <1>2, Zenon DEF Enter, LogGoto, Refused
<1>3. CASE ~_closed[InstanceOf[t]]
  <2>1. _seq[InstanceOf[t]] \in Nat /\ _seq \in [Instances -> Nat]
        /\ InstanceOf[t] \in Instances
    BY InstanceOfAssumption DEF LogTypeOK
  <2>2. Admitted(t)
    BY <1>3, <2>1, Zenon DEF Enter, LogGoto, Admitted
  <2> QED
    BY <1>1, <2>2
<1> QED
  BY <1>2, <1>3

-----------------------------------------------------------------------------
Answered(t) ==
  /\ ~primary[t]
  /\ returned' = returned \cup {<<InstanceOf[t], seq[t]>>}
  /\ UNCHANGED <<_closed, flock>>
Poisoned(t) ==
  /\ primary[t]
  /\ _closed' = [_closed EXCEPT ![InstanceOf[t]] = TRUE]
  /\ DropDescription(InstanceOf[t])
  /\ UNCHANGED returned

LEMMA FinishMoves ==
  ASSUME NEW t \in Threads, Finish(t)
  PROVE  /\ log_pc[t] = "finish" /\ Lives(t)
         /\ mutex' = [mutex EXCEPT ![InstanceOf[t]] = None]
         /\ log_pc' = [log_pc EXCEPT ![t] = "idle"]
         /\ Answered(t) \/ Poisoned(t)
         /\ UNCHANGED <<file, dead, _seq, seq, written, primary, child, child_mutex>>
<1>1. CASE primary[t]
  BY <1>1, Zenon DEF Finish, LogGoto, Poisoned, childVars
<1>2. CASE ~primary[t]
  BY <1>2, Zenon DEF Finish, LogGoto, Answered, childVars
<1> QED
  BY <1>1, <1>2

LEMMA LogStepTypeOK == LogTypeOK /\ [LogNext]_logVars => LogTypeOK'
<1> SUFFICES ASSUME LogTypeOK, [LogNext]_logVars PROVE LogTypeOK'
  OBVIOUS
<1> USE InstanceOfAssumption, LineAssumption
    DEF LogTypeOK, LogLabels, LogGoto, childVars, DropDescription
<1>1. ASSUME NEW t \in Threads, Call(t) PROVE LogTypeOK'
  BY <1>1 DEF Call
<1>9. ASSUME NEW t \in Threads, Enter(t) PROVE LogTypeOK'
  <2>1. InstanceOf[t] \in Instances /\ 0 \in 0..LineChunks
    OBVIOUS
  <2>2. _seq[InstanceOf[t]] + 1 \in Nat
    BY <2>1
  <2>3. UNCHANGED <<file, flock, _closed, dead, returned, child, child_mutex>>
    BY <1>9, EnterMoves
  <2>4. CASE Refused(t)
    BY <2>3, <2>4 DEF Refused
  <2>5. CASE Admitted(t)
    <3>1. mutex' \in [Instances -> Threads \cup {None}] /\ log_pc' \in [Threads -> LogLabels]
      BY <2>5 DEF Admitted
    <3>2. _seq' \in [Instances -> Nat] /\ seq' \in [Threads -> Nat]
      BY <2>1, <2>2, <2>5 DEF Admitted
    <3>3. written' \in [Threads -> 0..LineChunks] /\ primary' \in [Threads -> BOOLEAN]
      BY <2>1, <2>5 DEF Admitted
    <3> QED
      BY <2>3, <3>1, <3>2, <3>3
  <2> QED
    BY <1>9, <2>4, <2>5, EnterMoves
<1>2. ASSUME NEW t \in Threads, Flock(t) PROVE LogTypeOK'
  BY <1>2 DEF Flock
<1>10. ASSUME NEW t \in Threads, FlockFails(t) PROVE LogTypeOK'
  BY <1>10 DEF FlockFails
<1>11. ASSUME NEW t \in Threads, Unlock(t) PROVE LogTypeOK'
  BY <1>11 DEF Unlock
<1>3. ASSUME NEW t \in Threads, Write(t) PROVE LogTypeOK'
  <2>1. PICK upto \in written[t]..LineChunks :
           /\ Appended(t, upto)
           /\ written' = [written EXCEPT ![t] = upto]
           /\ \/ /\ upto > written[t]
                 /\ log_pc' = [log_pc EXCEPT ![t] = IF upto = LineChunks
                                                    THEN "unlock" ELSE "write"]
                 /\ UNCHANGED primary
              \/ /\ primary' = [primary EXCEPT ![t] = TRUE]
                 /\ log_pc' = [log_pc EXCEPT ![t] = "unlock"]
    BY <1>3, TurnAppends
  <2>2. upto \in 0..LineChunks
    OBVIOUS
  <2>3. file' \in Seq(Chunk)
    BY <2>1 DEF Appended
  <2>4. /\ written' \in [Threads -> 0..LineChunks]
        /\ log_pc' \in [Threads -> LogLabels]
        /\ primary' \in [Threads -> BOOLEAN]
    BY <2>1, <2>2
  <2> QED
    BY <1>3, <2>3, <2>4 DEF Write
<1>4. ASSUME NEW t \in Threads, Finish(t) PROVE LogTypeOK'
  <2>1. CASE Answered(t)
    <3>1. <<InstanceOf[t], seq[t]>> \in Instances \X Nat
      OBVIOUS
    <3> QED
      BY <1>4, <2>1, <3>1, FinishMoves DEF Answered
  <2>2. CASE Poisoned(t)
    BY <1>4, <2>2, FinishMoves DEF Poisoned
  <2> QED
    BY <1>4, <2>1, <2>2, FinishMoves
<1>5. ASSUME NEW i \in Instances, Close(i) \/ Crash(i) \/ ChildExit(i) PROVE LogTypeOK'
  BY <1>5 DEF Close, Crash, ChildExit
<1>6. ASSUME NEW i \in Instances, Fork(i) PROVE LogTypeOK'
  <2>1. (mutex[i] # None) \in BOOLEAN
    OBVIOUS
  <2> QED
    BY <1>6, <2>1 DEF Fork
<1>7. ASSUME NEW i \in Instances, ChildCall(i) \/ ChildRefused(i) PROVE LogTypeOK'
  BY <1>7 DEF ChildCall, ChildRefused
<1>8. CASE UNCHANGED logVars
  BY <1>8 DEF logVars
<1> QED
  BY <1>1, <1>2, <1>3, <1>4, <1>5, <1>6, <1>7, <1>8, <1>9, <1>10, <1>11
     DEF LogNext, RecordStep

\* The locks: one thread in the section, and the flock where it writes.
LocksInv == MutexInv /\ FlockInv /\ SeqInv

LEMMA AloneInSection ==
  ASSUME LogTypeOK, MutexInv, NEW t \in Threads, NEW u \in Threads,
         Inside(t), Inside(u), InstanceOf[t] = InstanceOf[u]
  PROVE  t = u
  BY DEF MutexInv

LEMMA LogStepLocks ==
  LogTypeOK /\ LocksInv /\ [LogNext]_logVars => LocksInv'
<1> SUFFICES ASSUME LogTypeOK, LocksInv, [LogNext]_logVars PROVE LocksInv'
  OBVIOUS
<1> USE InstanceOfAssumption, NoneAssumption
    DEF LogTypeOK, LogLabels, LogGoto, LocksInv, MutexInv, FlockInv, SeqInv, Inside,
        InSection, Lives, childVars
<1>1. ASSUME NEW t \in Threads, Call(t) PROVE LocksInv'
  BY <1>1 DEF Call
<1>2. ASSUME NEW t \in Threads, Enter(t) PROVE LocksInv'
  <2>1. /\ log_pc[t] = "enter" /\ mutex[InstanceOf[t]] = None
        /\ UNCHANGED <<flock, _closed, dead>>
    BY <1>2, EnterMoves
  <2>2. CASE Refused(t)
    BY <2>1, <2>2 DEF Refused
  <2>3. CASE Admitted(t)
    <3>1. MutexInv'
      BY <2>1, <2>3 DEF Admitted
    <3>2. FlockInv'
      BY <2>1, <2>3 DEF Admitted
    <3>3. SeqInv'
      BY <2>1, <2>3 DEF Admitted
    <3> QED
      BY <3>1, <3>2, <3>3
  <2> QED
    BY <1>2, <2>2, <2>3, EnterMoves
<1>3. ASSUME NEW t \in Threads, Flock(t) PROVE LocksInv'
  <2>1. MutexInv' /\ SeqInv'
    BY <1>3 DEF Flock
  <2>2. FlockInv'
    BY <1>3 DEF Flock, FlockFree
  <2> QED
    BY <2>1, <2>2
<1>4. ASSUME NEW t \in Threads, FlockFails(t) PROVE LocksInv'
  <2>1. MutexInv' /\ SeqInv'
    BY <1>4 DEF FlockFails
  <2>2. FlockInv'
    BY <1>4 DEF FlockFails, FlockFree
  <2> QED
    BY <2>1, <2>2
<1>5. ASSUME NEW t \in Threads, Write(t) PROVE LocksInv'
  <2>1. log_pc' \in [Threads -> LogLabels]
        /\ log_pc[t] = "write" /\ log_pc'[t] \in {"write", "unlock"}
        /\ \A u \in Threads : u # t => log_pc'[u] = log_pc[u]
    <3>1. log_pc[t] = "write"
      BY <1>5 DEF Write
    <3>2. \E x \in {"write", "unlock"} : log_pc' = [log_pc EXCEPT ![t] = x]
      BY <1>5, TurnAppends
    <3> QED
      BY <3>1, <3>2
  <2>2. UNCHANGED <<flock, mutex, _closed, dead, _seq, seq>>
    BY <1>5 DEF Write
  <2> QED
    BY <2>1, <2>2
<1>6. ASSUME NEW t \in Threads, Unlock(t) PROVE LocksInv'
  <2>1. MutexInv' /\ SeqInv'
    BY <1>6 DEF Unlock
  <2>2. FlockInv'
    BY <1>6, AloneInSection DEF Unlock
  <2> QED
    BY <2>1, <2>2
<1>7. ASSUME NEW t \in Threads, Finish(t) PROVE LocksInv'
  <2>1. MutexInv' /\ SeqInv'
    BY <1>7 DEF Finish
  <2>2. FlockInv'
    BY <1>7, AloneInSection DEF Finish, DropDescription
  <2> QED
    BY <2>1, <2>2
<1>8. ASSUME NEW i \in Instances, Close(i) PROVE LocksInv'
  BY <1>8 DEF Close, DropDescription
<1>9. ASSUME NEW i \in Instances, Crash(i) PROVE LocksInv'
  BY <1>9 DEF Crash, DropDescription
<1>10. ASSUME NEW i \in Instances, ChildExit(i) PROVE LocksInv'
  BY <1>10 DEF ChildExit
<1>11. ASSUME NEW i \in Instances, Fork(i) \/ ChildCall(i) \/ ChildRefused(i)
       PROVE  LocksInv'
  BY <1>11 DEF Fork, ChildCall, ChildRefused
<1>12. CASE UNCHANGED logVars
  BY <1>12 DEF logVars
<1> QED
  BY <1>1, <1>2, <1>3, <1>4, <1>5, <1>6, <1>7, <1>8, <1>9, <1>10, <1>11, <1>12
     DEF LogNext, RecordStep

-----------------------------------------------------------------------------
\* A line that landed stays: the file only grows.
LEMMA LandedStays ==
  ASSUME LogTypeOK, LogTypeOK', Len(file) <= Len(file'),
         \A p \in 1..Len(file) : file'[p] = file[p],
         NEW i, NEW n, Landed(i, n)
  PROVE  Landed(i, n)'
<1>1. PICK p \in Nat : p + LineChunks <= Len(file) /\ LineAt(p, i, n)
  BY DEF Landed
<1>2. Len(file) \in Nat /\ Len(file') \in Nat /\ LineChunks \in Nat
  BY LineAssumption DEF LogTypeOK
<1>3. \A k \in 1..LineChunks : p + k \in 1..Len(file)
  BY <1>1, <1>2
<1>4. p + LineChunks <= Len(file')
  BY <1>1, <1>2
<1>5. LineAt(p, i, n)'
  BY <1>1, <1>3 DEF LineAt
<1> QED
  BY <1>1, <1>4, <1>5 DEF Landed

Growth(t, upto) ==
  /\ Appended(t, upto)
  /\ written' = [written EXCEPT ![t] = upto]
  /\ \/ /\ upto > written[t]
        /\ log_pc' = [log_pc EXCEPT ![t] = IF upto = LineChunks
                                           THEN "unlock" ELSE "write"]
        /\ UNCHANGED primary
     \/ /\ primary' = [primary EXCEPT ![t] = TRUE]
        /\ log_pc' = [log_pc EXCEPT ![t] = "unlock"]

\* The file after a turn: the old positions, and those of the new pieces.
LEMMA FileAfterTurn ==
  ASSUME LogTypeOK, LogTypeOK', NEW t \in Threads, NEW upto \in written[t]..LineChunks,
         Appended(t, upto), NEW p \in 1..Len(file')
  PROVE  \/ p \in 1..Len(file) /\ file'[p] = file[p]
         \/ \E k \in (written[t] + 1)..upto :
              p = Len(file) - written[t] + k /\ file'[p] = Piece(t, k)
<1>1. /\ written[t] \in Nat /\ upto \in Nat /\ Len(file) \in Nat /\ Len(file') \in Nat
      /\ Len(file') = Len(file) + (upto - written[t])
  BY DEF LogTypeOK, Appended
<1>2. CASE p <= Len(file)
  BY <1>1, <1>2 DEF Appended
<1>3. CASE ~(p <= Len(file))
  <2> DEFINE k == p - Len(file) + written[t]
  <2>1. k \in (written[t] + 1)..upto /\ p = Len(file) - written[t] + k
    BY <1>1, <1>3
  <2> HIDE DEF k
  <2>2. file'[p] = Piece(t, k)
    BY <2>1 DEF Appended
  <2> QED
    BY <2>1, <2>2
<1> QED
  BY <1>2, <1>3

\* After a turn the end of the file is what its writer has written.
LEMMA TailAfterTurn ==
  ASSUME LogIInv, LogTypeOK', NEW t \in Threads, NEW upto \in written[t]..LineChunks,
         log_pc[t] = "write", Lives(t), Appended(t, upto)
  PROVE  /\ written[t] <= Len(file) /\ upto <= Len(file')
         /\ Len(file') - upto = Len(file) - written[t]
         /\ \A k \in 1..upto : file'[Len(file) - written[t] + k] = Piece(t, k)
<1>1. /\ written[t] \in Nat /\ upto \in Nat /\ Len(file) \in Nat /\ Len(file') \in Nat
      /\ Len(file') = Len(file) + (upto - written[t])
  BY DEF LogIInv, LogTypeOK, Appended
<1>2. /\ written[t] <= Len(file)
      /\ \A k \in 1..written[t] : file[Len(file) - written[t] + k] = Piece(t, k)
  BY DEF LogIInv, TailInv
<1>3. ASSUME NEW k \in 1..upto PROVE file'[Len(file) - written[t] + k] = Piece(t, k)
  <2>1. CASE k <= written[t]
    <3>1. k \in 1..written[t] /\ Len(file) - written[t] + k \in 1..Len(file)
      BY <1>1, <1>2, <2>1
    <3> QED
      BY <1>2, <3>1 DEF Appended
  <2>2. CASE ~(k <= written[t])
    <3>1. k \in (written[t] + 1)..upto
      BY <1>1, <2>2
    <3> QED
      BY <3>1 DEF Appended
  <2> QED
    BY <2>1, <2>2
<1> QED
  BY <1>1, <1>2, <1>3

\* At most one live thread writes.
LEMMA OneWriter ==
  ASSUME LogTypeOK, LocksInv, NEW t \in Threads, NEW u \in Threads,
         log_pc[t] = "write", Lives(t), log_pc[u] = "write", Lives(u)
  PROVE  t = u
<1>1. Inside(t) /\ Inside(u) /\ InstanceOf[t] = InstanceOf[u]
  BY DEF LocksInv, FlockInv, Inside, InSection
<1> QED
  BY <1>1, AloneInSection DEF LocksInv

LEMMA PieceFields ==
  ASSUME NEW t, NEW k
  PROVE  Piece(t, k).inst = InstanceOf[t] /\ Piece(t, k).seq = seq[t] /\ Piece(t, k).part = k
  BY DEF Piece

LEMMA ChunkAt ==
  ASSUME LogTypeOK, NEW p \in 1..Len(file)
  PROVE  file[p].seq \in Nat /\ file[p].part \in 1..LineChunks
<1>1. file[p] \in Chunk
  BY ElementOfSeq DEF LogTypeOK
<1> QED
  BY <1>1 DEF Chunk

-----------------------------------------------------------------------------
\* A turn of _write_all keeps what the file promises.
LEMMA WriteKeepsFile ==
  ASSUME LogIInv, LogTypeOK', LocksInv', NEW t \in Threads, Write(t)
  PROVE  (FileInv /\ TailInv /\ LandInv /\ IncompleteLinesAreExcused /\ LinesInSeqOrder)'
<1>1. PICK upto \in written[t]..LineChunks : Growth(t, upto)
  BY TurnAppends DEF LogIInv, Growth
<1>2. /\ log_pc[t] = "write" /\ Lives(t)
      /\ UNCHANGED <<flock, mutex, _closed, dead, _seq, seq, returned, child, child_mutex>>
  BY DEF Write, childVars
<1>3. LogTypeOK /\ LocksInv /\ MutexInv /\ SeqInv /\ FileInv
  BY DEF LogIInv, LocksInv
<1>4. Inside(t) /\ seq[t] = _seq[InstanceOf[t]] /\ ~primary[t]
  BY <1>2, <1>3 DEF Inside, InSection, SeqInv, LogIInv, LandInv
<1>5. Appended(t, upto)
  BY <1>1 DEF Growth
<1>6. /\ \A u \in Threads : u # t => /\ written'[u] = written[u] /\ log_pc'[u] = log_pc[u]
                                     /\ primary'[u] = primary[u]
      /\ written'[t] = upto /\ log_pc'[t] \in {"write", "unlock"}
      /\ \/ /\ upto > written[t] /\ ~primary'[t]
            /\ log_pc'[t] = IF upto = LineChunks THEN "unlock" ELSE "write"
         \/ primary'[t] /\ log_pc'[t] = "unlock"
  BY <1>1, <1>3, <1>4 DEF Growth, LogTypeOK
<1>7. /\ written[t] \in Nat /\ upto \in Nat /\ Len(file) \in Nat /\ Len(file') \in Nat
      /\ Len(file') = Len(file) + (upto - written[t]) /\ written[t] <= upto
      /\ LineChunks \in Nat /\ upto <= LineChunks
  BY <1>3, <1>5, LineAssumption DEF LogTypeOK, Appended
<1>8. \A p \in 1..Len(file) : file[p].seq \in Nat /\ file[p].part \in 1..LineChunks
  BY <1>3, ChunkAt
<1>9. \A k : Piece(t, k)' = Piece(t, k)
  BY <1>2 DEF Piece
<1>10. \A u \in Threads : Inside(u)' => Inside(u)
  BY <1>4, <1>6 DEF Inside
<1>11. InstanceOf[t] \in Instances /\ seq[t] \in Nat
  BY <1>3, InstanceOfAssumption DEF LogTypeOK
<1>12. FileInv'
  <2> SUFFICES ASSUME NEW p \in 1..Len(file')
               PROVE  /\ file'[p].seq <= _seq'[file'[p].inst]
                      /\ \A u \in Threads :
                           Inside(u)' /\ file'[p].inst = InstanceOf[u]
                             /\ file'[p].seq = seq'[u] =>
                               file'[p].part <= written'[u] /\ log_pc'[u] # "flock"
    BY DEF FileInv
  <2>1. CASE p \in 1..Len(file) /\ file'[p] = file[p]
    <3>1. file'[p].seq <= _seq'[file'[p].inst]
      BY <1>2, <1>3, <2>1 DEF FileInv
    <3>2. ASSUME NEW u \in Threads, Inside(u)', file'[p].inst = InstanceOf[u],
                 file'[p].seq = seq'[u]
          PROVE  file'[p].part <= written'[u] /\ log_pc'[u] # "flock"
      <4>1. file[p].part <= written[u] /\ log_pc[u] # "flock"
        BY <1>2, <1>3, <1>10, <2>1, <3>2 DEF FileInv
      <4>2. CASE u = t
        <5>1. file[p].part \in Nat
          BY <1>7, <1>8, <2>1
        <5>2. file[p].part <= upto
          BY <1>7, <4>1, <4>2, <5>1
        <5> QED
          BY <1>6, <2>1, <4>2, <5>2
      <4>3. CASE u # t
        BY <1>6, <2>1, <4>1, <4>3
      <4> QED
        BY <4>2, <4>3
    <3> QED
      BY <3>1, <3>2
  <2>2. CASE \E k \in (written[t] + 1)..upto :
               p = Len(file) - written[t] + k /\ file'[p] = Piece(t, k)
    <3>1. PICK k \in (written[t] + 1)..upto : file'[p] = Piece(t, k)
      BY <2>2
    <3>2. file'[p].inst = InstanceOf[t] /\ file'[p].seq = seq[t] /\ file'[p].part = k
      BY <3>1, PieceFields
    <3>3. \A u \in Threads : Inside(u)' /\ file'[p].inst = InstanceOf[u] => u = t
      BY <1>3, <1>4, <1>10, <3>2, AloneInSection
    <3> QED
      BY <1>2, <1>4, <1>6, <1>7, <1>11, <3>2, <3>3
  <2> QED
    BY <1>3, <1>5, <2>1, <2>2, FileAfterTurn
<1>13. TailInv'
  <2> SUFFICES ASSUME NEW u \in Threads, log_pc'[u] = "write", Lives(u)'
               PROVE  /\ written'[u] <= Len(file')
                      /\ \A k \in 1..written'[u] :
                           file'[Len(file') - written'[u] + k] = Piece(u, k)'
    BY DEF TailInv
  <2>1. u = t
    BY <1>2, <1>3, <1>6, OneWriter DEF Lives
  <2> QED
    BY <1>2, <1>5, <1>6, <1>7, <1>9, <2>1, TailAfterTurn
<1>14. LandInv'
  <2>1. \A p \in 1..Len(file) : file'[p] = file[p]
    BY <1>5 DEF Appended
  <2>2. Len(file) <= Len(file')
    BY <1>7
  <2>3. \A i, n : Landed(i, n) => Landed(i, n)'
    BY <1>3, <2>1, <2>2, LandedStays
  <2>4. \A id \in returned' : \A i, n : i = id[1] /\ n = id[2] => Landed(i, n)'
    BY <1>2, <2>3 DEF LogIInv, LandInv
  <2>5. ASSUME log_pc'[t] = "unlock", ~primary'[t], NEW i, NEW n,
               i = InstanceOf[t], n = seq[t]
        PROVE  Landed(i, n)'
    <3>1. upto = LineChunks
      BY <1>6, <2>5
    <3>0. PICK q : q = Len(file) - written[t]
      OBVIOUS
    <3>2. /\ written[t] <= Len(file)
          /\ \A k \in 1..LineChunks : file'[q + k] = Piece(t, k)
      BY <1>2, <1>5, <3>0, <3>1, TailAfterTurn
    <3>3. q \in Nat /\ q + LineChunks <= Len(file')
      BY <1>7, <3>0, <3>1, <3>2
    <3>4. LineAt(q, i, n)'
      BY <2>5, <3>2 DEF LineAt, Piece
    <3> QED
      BY <3>3, <3>4 DEF Landed
  <2>6. ASSUME NEW u \in Threads
        PROVE  /\ log_pc'[u] \in {"flock", "write"} => ~primary'[u]
               /\ log_pc'[u] = "flock" => written'[u] = 0
               /\ log_pc'[u] \in {"unlock", "finish"} /\ ~primary'[u] =>
                    \A i, n : i = InstanceOf[u] /\ n = seq'[u] => Landed(i, n)'
    <3>1. CASE u = t
      BY <1>2, <1>6, <2>5, <3>1
    <3>2. CASE u # t
      <4>1. /\ log_pc[u] \in {"flock", "write"} => ~primary[u]
            /\ log_pc[u] = "flock" => written[u] = 0
            /\ log_pc[u] \in {"unlock", "finish"} /\ ~primary[u] =>
                 Landed(InstanceOf[u], seq[u])
        BY DEF LogIInv, LandInv
      <4> QED
        BY <1>2, <1>6, <2>3, <3>2, <4>1
    <3> QED
      BY <3>1, <3>2
  <2> QED
    BY <2>4, <2>6, Zenon DEF LandInv
<1>15. LinesInSeqOrder'
  <2> SUFFICES ASSUME NEW p \in 1..Len(file'), NEW q \in 1..Len(file'),
                      p < q, file'[p].inst = file'[q].inst
               PROVE  \/ file'[p].seq < file'[q].seq
                      \/ file'[p].seq = file'[q].seq /\ file'[p].part < file'[q].part
    BY DEF LinesInSeqOrder
  <2>1. CASE q \in 1..Len(file) /\ file'[q] = file[q]
    <3>1. p \in 1..Len(file) /\ file'[p] = file[p]
      BY <1>5, <1>7, <2>1 DEF Appended
    <3> QED
      BY <2>1, <3>1 DEF LogIInv, LinesInSeqOrder
  <2>2. ASSUME NEW k \in (written[t] + 1)..upto,
               q = Len(file) - written[t] + k, file'[q] = Piece(t, k)
        PROVE  \/ file'[p].seq < file'[q].seq
               \/ file'[p].seq = file'[q].seq /\ file'[p].part < file'[q].part
    <3>1. file'[q].inst = InstanceOf[t] /\ file'[q].seq = seq[t] /\ file'[q].part = k
      BY <2>2, PieceFields
    <3>2. CASE p \in 1..Len(file) /\ file'[p] = file[p]
      <4>1. file[p].seq <= seq[t]
            /\ (file[p].seq = seq[t] => file[p].part <= written[t])
        BY <1>3, <1>4, <3>1, <3>2 DEF FileInv
      <4>2. /\ file[p].seq \in Nat /\ file[p].part \in 1..LineChunks
            /\ k \in Nat /\ written[t] < k
        BY <1>7, <1>8, <3>2
      <4>a. file[p].part \in Nat /\ written[t] \in Nat
        BY <1>7, <4>2
      <4>b. \A a, b, x, w, m \in Nat :
              a <= b /\ (a = b => x <= w) /\ w < m => a < b \/ (a = b /\ x < m)
        OBVIOUS
      <4>3. file[p].seq < seq[t] \/ (file[p].seq = seq[t] /\ file[p].part < k)
        BY <1>11, <4>1, <4>2, <4>a, <4>b
      <4> QED
        BY <3>1, <3>2, <4>3
    <3>3. ASSUME NEW j \in (written[t] + 1)..upto,
                 p = Len(file) - written[t] + j, file'[p] = Piece(t, j)
          PROVE  file'[p].seq = file'[q].seq /\ file'[p].part < file'[q].part
      <4>1. file'[p].seq = seq[t] /\ file'[p].part = j
        BY <3>3, PieceFields
      <4>2. j < k
        BY <1>7, <2>2, <3>3
      <4> QED
        BY <3>1, <4>1, <4>2
    <3> QED
      BY <1>3, <1>5, <3>2, <3>3, FileAfterTurn
  <2> QED
    BY <1>3, <1>5, <2>1, <2>2, FileAfterTurn
<1>16. IncompleteLinesAreExcused'
  <2> DEFINE Excused(p) ==
        \/ p < Len(file') /\ file'[p + 1] = [file'[p] EXCEPT !.part = @ + 1]
        \/ dead'[file'[p].inst] \/ _closed'[file'[p].inst]
        \/ \E u \in Threads :
             /\ InstanceOf[u] = file'[p].inst /\ seq'[u] = file'[p].seq
             /\ \/ log_pc'[u] = "write" /\ p = Len(file')
                \/ log_pc'[u] \in {"unlock", "finish"} /\ primary'[u]
  <2>0. SUFFICES ASSUME NEW p \in 1..Len(file'), file'[p].part < LineChunks
                 PROVE  Excused(p)
    BY DEF IncompleteLinesAreExcused
  <2>1. \A k : [Piece(t, k) EXCEPT !.part = @ + 1] = Piece(t, k + 1)
    BY DEF Piece
  \* The writer's own chunk k, wherever it came from.
  <2>2. ASSUME NEW k \in 1..upto, p = Len(file) - written[t] + k, file'[p] = Piece(t, k)
        PROVE  Excused(p)
    <3>1. file'[p].inst = InstanceOf[t] /\ file'[p].seq = seq[t] /\ file'[p].part = k
      BY <2>2, PieceFields
    <3>2. CASE k < upto
      <4>1. k + 1 \in 1..upto /\ p + 1 = Len(file) - written[t] + (k + 1) /\ p < Len(file')
        BY <1>7, <2>2, <3>2
      <4>2. file'[p + 1] = Piece(t, k + 1)
        BY <1>2, <1>5, <4>1, TailAfterTurn
      <4> QED
        BY <2>1, <2>2, <4>1, <4>2
    <3>3. CASE k = upto
      <4>1. p = Len(file') /\ upto # LineChunks
        BY <1>7, <2>0, <2>2, <3>1, <3>3
      <4>2. log_pc'[t] = "write" \/ (log_pc'[t] = "unlock" /\ primary'[t])
        BY <1>6, <4>1
      <4> QED
        BY <1>2, <3>1, <4>1, <4>2
    <3> QED
      BY <1>7, <3>2, <3>3
  <2>3. CASE p \in 1..Len(file) /\ file'[p] = file[p]
    <3>1. \/ p < Len(file) /\ file[p + 1] = [file[p] EXCEPT !.part = @ + 1]
          \/ dead[file[p].inst] \/ _closed[file[p].inst]
          \/ \E u \in Threads :
               /\ InstanceOf[u] = file[p].inst /\ seq[u] = file[p].seq
               /\ \/ log_pc[u] = "write" /\ p = Len(file)
                  \/ log_pc[u] \in {"unlock", "finish"} /\ primary[u]
      BY <2>0, <2>3 DEF LogIInv, IncompleteLinesAreExcused
    <3>2. CASE p < Len(file) /\ file[p + 1] = [file[p] EXCEPT !.part = @ + 1]
      <4>1. p + 1 \in 1..Len(file) /\ p < Len(file')
        BY <1>7, <3>2
      <4>2. file'[p + 1] = file[p + 1]
        BY <1>5, <4>1 DEF Appended
      <4> QED
        BY <2>3, <3>2, <4>1, <4>2
    <3>3. CASE dead[file[p].inst] \/ _closed[file[p].inst]
      BY <1>2, <2>3, <3>3
    <3>4. ASSUME NEW u \in Threads, InstanceOf[u] = file[p].inst, seq[u] = file[p].seq,
                 log_pc[u] \in {"unlock", "finish"}, primary[u]
          PROVE  Excused(p)
      <4>1. u # t
        BY <1>2, <3>4
      <4>2. log_pc'[u] \in {"unlock", "finish"} /\ primary'[u]
        BY <1>6, <3>4, <4>1
      <4> QED
        BY <1>2, <2>3, <3>4, <4>2
    <3>5. ASSUME NEW u \in Threads, InstanceOf[u] = file[p].inst, seq[u] = file[p].seq,
                 log_pc[u] = "write", p = Len(file)
          PROVE  Excused(p)
      <4>1. CASE ~Lives(u)
        BY <1>2, <2>3, <3>5, <4>1 DEF Lives
      <4>2. CASE Lives(u)
        <5>1. u = t
          BY <1>2, <1>3, <3>5, <4>2, OneWriter
        <5>2. file[p].part <= written[t]
          BY <1>3, <1>4, <3>5, <5>1 DEF FileInv
        <5>3. file[p].part \in 1..LineChunks
          BY <1>8, <2>3
        <5>4. written[t] \in 1..upto /\ p = Len(file) - written[t] + written[t]
          BY <1>7, <3>5, <5>2, <5>3
        <5>5. file'[p] = Piece(t, written[t])
          BY <1>2, <1>5, <5>4, TailAfterTurn
        <5> QED
          BY <2>2, <5>4, <5>5
      <4> QED
        BY <4>1, <4>2
    <3> QED
      BY <3>1, <3>2, <3>3, <3>4, <3>5
  <2>4. ASSUME NEW k \in (written[t] + 1)..upto,
               p = Len(file) - written[t] + k, file'[p] = Piece(t, k)
        PROVE  Excused(p)
    <3>1. k \in 1..upto
      BY <1>7
    <3> QED
      BY <2>2, <2>4, <3>1
  <2> QED
    BY <1>3, <1>5, <2>3, <2>4, FileAfterTurn
<1> QED
  BY <1>12, <1>13, <1>14, <1>15, <1>16

-----------------------------------------------------------------------------
FileSide == FileInv /\ TailInv /\ LandInv /\ IncompleteLinesAreExcused /\ LinesInSeqOrder

LEMMA SameFileKeepsOrder ==
  ASSUME LinesInSeqOrder, UNCHANGED file
  PROVE  LinesInSeqOrder'
  BY DEF LinesInSeqOrder

LEMMA SameFileKeepsLines ==
  ASSUME UNCHANGED file
  PROVE  \A i, n : Landed(i, n) => Landed(i, n)'
  BY DEF Landed, LineAt

\* A thread moves inside record() without writing: a lock call, or an error.
LEMMA LockCallsKeepFile ==
  ASSUME LogIInv, LogTypeOK', NEW t \in Threads,
         Call(t) \/ Flock(t) \/ FlockFails(t) \/ Unlock(t)
  PROVE  FileSide'
<1>1. UNCHANGED <<file, _seq, seq, written, dead, _closed, returned>>
  BY DEF Call, Flock, FlockFails, Unlock
<1>2. /\ \A u \in Threads : u # t => /\ log_pc'[u] = log_pc[u]
                                     /\ primary'[u] = primary[u]
      /\ \/ log_pc[t] = "idle" /\ log_pc'[t] = "enter"
         \/ log_pc[t] = "flock" /\ log_pc'[t] = "write" /\ primary'[t] = primary[t]
         \/ log_pc[t] = "flock" /\ log_pc'[t] = "unlock" /\ primary'[t]
         \/ /\ log_pc[t] = "unlock" /\ log_pc'[t] = "finish"
            /\ primary'[t] = primary[t] \/ primary'[t]
  BY DEF LogIInv, LogTypeOK, LogGoto, Call, Flock, FlockFails, Unlock
<1>3. FileInv'
  <2>1. \A u \in Threads : Inside(u)' => Inside(u) /\ (log_pc'[u] = "flock" => log_pc[u] = "flock")
    BY <1>2 DEF Inside, InSection
  <2> QED
    BY <1>1, <2>1 DEF LogIInv, FileInv
<1>4. TailInv'
  <2>1. \A u \in Threads : Lives(u)' = Lives(u)
    BY <1>1 DEF Lives
  <2>2. \A u, k : Piece(u, k)' = Piece(u, k)
    BY <1>1 DEF Piece
  <2>3. written[t] \in Nat /\ Len(file) \in Nat
    BY LineAssumption DEF LogIInv, LogTypeOK
  <2>4. CASE log_pc'[t] = "write"
    <3>1. written[t] = 0
      BY <1>2, <2>4 DEF LogIInv, LandInv
    <3> QED
      BY <1>1, <1>2, <2>1, <2>2, <2>3, <3>1 DEF LogIInv, TailInv
  <2>5. CASE log_pc'[t] # "write"
    BY <1>1, <1>2, <2>1, <2>2, <2>5 DEF LogIInv, TailInv
  <2> QED
    BY <2>4, <2>5
<1>5. LandInv'
  <2>1. \A i, n : Landed(i, n) => Landed(i, n)'
    BY <1>1, SameFileKeepsLines
  <2>2. \A id \in returned' : \A i, n : i = id[1] /\ n = id[2] => Landed(i, n)'
    BY <1>1, <2>1 DEF LogIInv, LandInv
  <2>3. ASSUME NEW u \in Threads
        PROVE  /\ log_pc'[u] \in {"flock", "write"} => ~primary'[u]
               /\ log_pc'[u] = "flock" => written'[u] = 0
               /\ log_pc'[u] \in {"unlock", "finish"} /\ ~primary'[u] =>
                    \A i, n : i = InstanceOf[u] /\ n = seq'[u] => Landed(i, n)'
    <3>1. /\ log_pc[u] \in {"flock", "write"} => ~primary[u]
          /\ log_pc[u] = "flock" => written[u] = 0
          /\ log_pc[u] \in {"unlock", "finish"} /\ ~primary[u] =>
               Landed(InstanceOf[u], seq[u])
      BY DEF LogIInv, LandInv
    <3> QED
      BY <1>1, <1>2, <2>1, <3>1
  <2> QED
    BY <2>2, <2>3, Zenon DEF LandInv
<1>6. IncompleteLinesAreExcused'
  <2>1. \A u \in Threads : log_pc[u] = "write" => log_pc'[u] = "write"
    BY <1>2
  <2>2. \A u \in Threads : log_pc[u] \in {"unlock", "finish"} /\ primary[u] =>
                             log_pc'[u] \in {"unlock", "finish"} /\ primary'[u]
    BY <1>2
  <2> QED
    BY <1>1, <2>1, <2>2 DEF LogIInv, IncompleteLinesAreExcused
<1> QED
  BY <1>1, <1>3, <1>4, <1>5, <1>6, SameFileKeepsOrder DEF FileSide, LogIInv

\* The next seq is one no chunk of the instance has.
LEMMA EnterKeepsFile ==
  ASSUME LogIInv, LogTypeOK', NEW t \in Threads, Enter(t)
  PROVE  FileSide'
<1>1. /\ log_pc[t] = "enter"
      /\ UNCHANGED <<file, _closed, dead, returned>>
      /\ Refused(t) \/ Admitted(t)
  BY EnterMoves DEF LogIInv
<1>2. /\ \A u \in Threads : u # t => /\ log_pc'[u] = log_pc[u] /\ primary'[u] = primary[u]
                                     /\ written'[u] = written[u] /\ seq'[u] = seq[u]
      /\ log_pc'[t] \in {"idle", "flock"}
      /\ log_pc'[t] = "flock" => /\ written'[t] = 0 /\ ~primary'[t]
                                 /\ seq'[t] = _seq[InstanceOf[t]] + 1
      /\ \A i \in Instances : _seq'[i] = _seq[i] \/ _seq'[i] = _seq[i] + 1
  BY <1>1, InstanceOfAssumption DEF LogIInv, LogTypeOK, Refused, Admitted
<1>3. /\ \A i \in Instances : _seq[i] \in Nat
      /\ \A p \in 1..Len(file) : file[p].inst \in Instances /\ file[p].seq \in Nat
  <2>1. \A p \in 1..Len(file) : file[p] \in Chunk
    BY ElementOfSeq DEF LogIInv, LogTypeOK
  <2> QED
    BY <2>1 DEF LogIInv, LogTypeOK, Chunk
<1>4. FileInv'
  <2> SUFFICES ASSUME NEW p \in 1..Len(file)
               PROVE  /\ file[p].seq <= _seq'[file[p].inst]
                      /\ \A u \in Threads :
                           Inside(u)' /\ file[p].inst = InstanceOf[u]
                             /\ file[p].seq = seq'[u] =>
                               file[p].part <= written'[u] /\ log_pc'[u] # "flock"
    BY <1>1 DEF FileInv
  <2>1. file[p].seq <= _seq[file[p].inst]
    BY DEF LogIInv, FileInv
  <2>2. file[p].seq <= _seq'[file[p].inst]
    BY <1>2, <1>3, <2>1
  <2>3. ASSUME NEW u \in Threads, Inside(u)', file[p].inst = InstanceOf[u],
               file[p].seq = seq'[u]
        PROVE  file[p].part <= written'[u] /\ log_pc'[u] # "flock"
    <3>1. u # t
      BY <1>2, <1>3, <2>1, <2>3 DEF Inside, InSection
    <3> QED
      BY <1>2, <2>3, <3>1 DEF LogIInv, FileInv, Inside
  <2> QED
    BY <2>2, <2>3
<1>5. TailInv'
  <2>1. \A u \in Threads : Lives(u)' = Lives(u)
    BY <1>1 DEF Lives
  <2>2. \A u \in Threads : \A k : u # t => Piece(u, k)' = Piece(u, k)
    BY <1>2 DEF Piece
  <2> QED
    BY <1>1, <1>2, <2>1, <2>2 DEF LogIInv, TailInv
<1>6. LandInv'
  <2>1. \A i, n : Landed(i, n) => Landed(i, n)'
    BY <1>1, SameFileKeepsLines
  <2>2. \A id \in returned' : \A i, n : i = id[1] /\ n = id[2] => Landed(i, n)'
    BY <1>1, <2>1 DEF LogIInv, LandInv
  <2>3. ASSUME NEW u \in Threads
        PROVE  /\ log_pc'[u] \in {"flock", "write"} => ~primary'[u]
               /\ log_pc'[u] = "flock" => written'[u] = 0
               /\ log_pc'[u] \in {"unlock", "finish"} /\ ~primary'[u] =>
                    \A i, n : i = InstanceOf[u] /\ n = seq'[u] => Landed(i, n)'
    <3>1. /\ log_pc[u] \in {"flock", "write"} => ~primary[u]
          /\ log_pc[u] = "flock" => written[u] = 0
          /\ log_pc[u] \in {"unlock", "finish"} /\ ~primary[u] =>
               Landed(InstanceOf[u], seq[u])
      BY DEF LogIInv, LandInv
    <3> QED
      BY <1>1, <1>2, <2>1, <3>1
  <2> QED
    BY <2>2, <2>3, Zenon DEF LandInv
<1>7. IncompleteLinesAreExcused'
  <2>1. \A u \in Threads : log_pc[u] \in {"write", "unlock", "finish"} =>
          log_pc'[u] = log_pc[u] /\ seq'[u] = seq[u] /\ primary'[u] = primary[u]
    BY <1>1, <1>2
  <2> QED
    BY <1>1, <2>1 DEF LogIInv, IncompleteLinesAreExcused
<1> QED
  BY <1>1, <1>4, <1>5, <1>6, <1>7, SameFileKeepsOrder DEF FileSide, LogIInv

\* A record that answers has its line in the file; one that failed closes.
LEMMA FinishKeepsFile ==
  ASSUME LogIInv, LogTypeOK', NEW t \in Threads, Finish(t)
  PROVE  FileSide'
<1>1. /\ log_pc[t] = "finish"
      /\ UNCHANGED <<file, dead, _seq, seq, written, primary>>
      /\ log_pc' = [log_pc EXCEPT ![t] = "idle"]
      /\ Answered(t) \/ Poisoned(t)
  BY FinishMoves
<1>2. log_pc'[t] = "idle" /\ \A u \in Threads : u # t => log_pc'[u] = log_pc[u]
  BY <1>1 DEF LogIInv, LogTypeOK
<1>3. /\ \A i \in Instances : _closed[i] => _closed'[i]
      /\ primary[t] => _closed'[InstanceOf[t]]
      /\ \A id \in returned' : id \in returned
           \/ (id[1] = InstanceOf[t] /\ id[2] = seq[t] /\ ~primary[t])
  <2>1. CASE Answered(t)
    BY <2>1 DEF Answered
  <2>2. CASE Poisoned(t)
    BY <2>2, InstanceOfAssumption DEF Poisoned, LogIInv, LogTypeOK
  <2> QED
    BY <1>1, <2>1, <2>2
<1>4. FileInv'
  <2>1. \A u \in Threads : Inside(u)' => Inside(u) /\ log_pc'[u] = log_pc[u]
    BY <1>2 DEF Inside, InSection
  <2> QED
    BY <1>1, <2>1 DEF LogIInv, FileInv
<1>5. TailInv'
  <2>1. \A u \in Threads : Lives(u)' = Lives(u)
    BY <1>1 DEF Lives
  <2>2. \A u, k : Piece(u, k)' = Piece(u, k)
    BY <1>1 DEF Piece
  <2> QED
    BY <1>1, <1>2, <2>1, <2>2 DEF LogIInv, TailInv
<1>6. LandInv'
  <2>1. \A i, n : Landed(i, n) => Landed(i, n)'
    BY <1>1, SameFileKeepsLines
  <2>2. ~primary[t] => Landed(InstanceOf[t], seq[t])
    BY <1>1 DEF LogIInv, LandInv
  <2>3. \A id \in returned' : \A i, n : i = id[1] /\ n = id[2] => Landed(i, n)'
    BY <1>3, <2>1, <2>2 DEF LogIInv, LandInv
  <2>4. ASSUME NEW u \in Threads
        PROVE  /\ log_pc'[u] \in {"flock", "write"} => ~primary'[u]
               /\ log_pc'[u] = "flock" => written'[u] = 0
               /\ log_pc'[u] \in {"unlock", "finish"} /\ ~primary'[u] =>
                    \A i, n : i = InstanceOf[u] /\ n = seq'[u] => Landed(i, n)'
    <3>1. /\ log_pc[u] \in {"flock", "write"} => ~primary[u]
          /\ log_pc[u] = "flock" => written[u] = 0
          /\ log_pc[u] \in {"unlock", "finish"} /\ ~primary[u] =>
               Landed(InstanceOf[u], seq[u])
      BY DEF LogIInv, LandInv
    <3> QED
      BY <1>1, <1>2, <2>1, <3>1
  <2> QED
    BY <2>3, <2>4, Zenon DEF LandInv
<1>7. IncompleteLinesAreExcused'
  <2>1. \A p \in 1..Len(file) : file[p].inst \in Instances
    <3>1. \A p \in 1..Len(file) : file[p] \in Chunk
      BY ElementOfSeq DEF LogIInv, LogTypeOK
    <3> QED
      BY <3>1 DEF Chunk
  <2> SUFFICES ASSUME NEW p \in 1..Len(file), file[p].part < LineChunks
               PROVE  \/ p < Len(file) /\ file[p + 1] = [file[p] EXCEPT !.part = @ + 1]
                      \/ dead'[file[p].inst] \/ _closed'[file[p].inst]
                      \/ \E u \in Threads :
                           /\ InstanceOf[u] = file[p].inst /\ seq'[u] = file[p].seq
                           /\ \/ log_pc'[u] = "write" /\ p = Len(file)
                              \/ log_pc'[u] \in {"unlock", "finish"} /\ primary'[u]
    BY <1>1 DEF IncompleteLinesAreExcused
  <2>2. \/ p < Len(file) /\ file[p + 1] = [file[p] EXCEPT !.part = @ + 1]
        \/ dead[file[p].inst] \/ _closed[file[p].inst]
        \/ \E u \in Threads :
             /\ InstanceOf[u] = file[p].inst /\ seq[u] = file[p].seq
             /\ \/ log_pc[u] = "write" /\ p = Len(file)
                \/ log_pc[u] \in {"unlock", "finish"} /\ primary[u]
    BY DEF LogIInv, IncompleteLinesAreExcused
  <2> QED
    BY <1>1, <1>2, <1>3, <2>1, <2>2
<1> QED
  BY <1>1, <1>4, <1>5, <1>6, <1>7, SameFileKeepsOrder DEF FileSide, LogIInv

\* Nobody's record() moves: close(), a crash, a fork, a child.
LEMMA OutsidersKeepFile ==
  ASSUME LogIInv, LogTypeOK',
         UNCHANGED <<file, _seq, log_pc, seq, written, primary, returned>>,
         \A i \in Instances : /\ dead[i] => dead'[i]
                              /\ _closed[i] => _closed'[i]
  PROVE  FileSide'
<1>1. FileInv'
  BY DEF LogIInv, FileInv, Inside
<1>2. TailInv'
  <2>1. \A u \in Threads : Lives(u)' => Lives(u)
    BY InstanceOfAssumption DEF Lives
  <2>2. \A u, k : Piece(u, k)' = Piece(u, k)
    BY DEF Piece
  <2> QED
    BY <2>1, <2>2 DEF LogIInv, TailInv
<1>3. LandInv'
  <2>1. \A i, n : Landed(i, n) => Landed(i, n)'
    BY SameFileKeepsLines
  <2> QED
    BY <2>1 DEF LogIInv, LandInv, Landed, LineAt
<1>4. IncompleteLinesAreExcused'
  <2>1. \A p \in 1..Len(file) : file[p].inst \in Instances
    <3>1. \A p \in 1..Len(file) : file[p] \in Chunk
      BY ElementOfSeq DEF LogIInv, LogTypeOK
    <3> QED
      BY <3>1 DEF Chunk
  <2> QED
    BY <2>1 DEF LogIInv, IncompleteLinesAreExcused
<1> QED
  BY <1>1, <1>2, <1>3, <1>4, SameFileKeepsOrder DEF FileSide, LogIInv

-----------------------------------------------------------------------------
LEMMA LogStepFile == LogIInv /\ LogTypeOK' /\ LocksInv' /\ [LogNext]_logVars => FileSide'
<1> SUFFICES ASSUME LogIInv, LogTypeOK', LocksInv', [LogNext]_logVars PROVE FileSide'
  OBVIOUS
<1>1. ASSUME NEW t \in Threads, Call(t) \/ Flock(t) \/ FlockFails(t) \/ Unlock(t)
      PROVE  FileSide'
  BY <1>1, LockCallsKeepFile
<1>2. ASSUME NEW t \in Threads, Enter(t) PROVE FileSide'
  BY <1>2, EnterKeepsFile
<1>3. ASSUME NEW t \in Threads, Write(t) PROVE FileSide'
  BY <1>3, WriteKeepsFile DEF FileSide
<1>4. ASSUME NEW t \in Threads, Finish(t) PROVE FileSide'
  BY <1>4, FinishKeepsFile
<1>5. ASSUME NEW i \in Instances,
             \/ Close(i) \/ Crash(i)
             \/ Fork(i) \/ ChildCall(i) \/ ChildRefused(i) \/ ChildExit(i)
      PROVE  FileSide'
  <2>1. UNCHANGED <<file, _seq, log_pc, seq, written, primary, returned>>
    BY <1>5 DEF Close, Crash, Fork, ChildCall, ChildRefused, ChildExit
  <2>2. \A j \in Instances : (dead[j] => dead'[j]) /\ (_closed[j] => _closed'[j])
    BY <1>5 DEF Close, Crash, Fork, ChildCall, ChildRefused, ChildExit, LogIInv, LogTypeOK
  <2> QED
    BY <2>1, <2>2, OutsidersKeepFile
<1>6. CASE UNCHANGED logVars
  BY <1>6, OutsidersKeepFile DEF logVars
<1> QED
  BY <1>1, <1>2, <1>3, <1>4, <1>5, <1>6 DEF LogNext, RecordStep

LEMMA LogInvariance == LogSpec => []LogIInv
<1>1. LogIInv /\ [LogNext]_logVars => LogIInv'
  <2>1. LogIInv => LogTypeOK /\ LocksInv
    BY DEF LogIInv, LocksInv
  <2> QED
    BY <2>1, LogStepTypeOK, LogStepLocks, LogStepFile DEF LogIInv, LocksInv, FileSide
<1> QED
  BY LogInitHolds, <1>1, PTL DEF LogSpec

\* The FiringLog objects, the file and record()'s locals keep their types.
THEOREM LogTypeCorrect == LogSpec => []LogTypeOK
<1>1. LogIInv => LogTypeOK
  BY DEF LogIInv
<1> QED
  BY LogInvariance, <1>1, PTL

\* FiringLog.record: an instance's lines land in seq order, each chunk once,
\* whatever the other threads and processes write between them.
THEOREM LinesKeepSeqOrder == LogSpec => []LinesInSeqOrder
<1>1. LogIInv => LinesInSeqOrder
  BY DEF LogIInv
<1> QED
  BY LogInvariance, <1>1, PTL

\* FiringLog.record: a line cut short has its own writer, or the end of that
\* writer's instance, to answer for it.
THEOREM TornLinesAreExcused == LogSpec => []IncompleteLinesAreExcused
<1>1. LogIInv => IncompleteLinesAreExcused
  BY DEF LogIInv
<1> QED
  BY LogInvariance, <1>1, PTL

\* FiringLog.record: a RecordId is handed out only for a line that is whole
\* and in one piece in the file.
THEOREM RecordsAreWhole == LogSpec => []ReturnedLinesAreWhole
<1>1. LogIInv => ReturnedLinesAreWhole
  <2> SUFFICES ASSUME LogIInv, NEW id \in returned
               PROVE  \E p \in 0..(Len(file) - LineChunks) :
                        SubSeq(file, p + 1, p + LineChunks) = LineOf(id)
    BY DEF ReturnedLinesAreWhole
  <2>1. PICK p \in Nat : p + LineChunks <= Len(file) /\ LineAt(p, id[1], id[2])
    BY DEF LogIInv, LandInv, Landed
  <2>2. LineChunks \in Nat \ {0} /\ Len(file) \in Nat /\ file \in Seq(Chunk)
    BY LineAssumption DEF LogIInv, LogTypeOK
  <2>3. p \in 0..(Len(file) - LineChunks)
    BY <2>1, <2>2
  <2>4. \A k \in (p + 1)..(p + LineChunks) : file[k] \in Chunk
    BY <2>1, <2>2, ElementOfSeq
  <2> DEFINE line == SubSeq(file, p + 1, p + LineChunks)
  <2>5. /\ line \in Seq(Chunk)
        /\ Len(line) = LineChunks
        /\ \A k \in 1..LineChunks : line[k] = file[p + k]
    <3>1. p + 1 \in Int /\ p + LineChunks \in Int /\ p + 1 <= p + LineChunks
          /\ (p + LineChunks) - (p + 1) + 1 = LineChunks
          /\ \A k \in 1..LineChunks : p + 1 + k - 1 = p + k
      BY <2>2
    <3> QED
      BY <2>4, <3>1, SubSeqProperties
  <2>6. \A k \in 1..LineChunks : line[k] = LineOf(id)[k]
    BY <2>1, <2>5 DEF LineAt, LineOf
  <2>7. line = [k \in 1..LineChunks |-> line[k]]
    BY <2>5, LenProperties
  <2>8. line = LineOf(id)
    BY <2>6, <2>7 DEF LineOf
  <2> QED
    BY <2>3, <2>8
<1> QED
  BY LogInvariance, <1>1, PTL
=============================================================================
