--------------------------- MODULE DispatchProofs ---------------------------
\* Proofs about Dispatch, for any ruleset, any number of calls and extensions,
\* both kinds of dispatcher, with _patch on any thread.
EXTENDS Dispatch, TLAPS, FiniteSetTheorems, SequenceTheorems

EntryRules == Rules \ Exits

\* What a call is in the middle of agrees with its phase: it answers once, the
\* original has run in the exit phase and not before, and a pending override
\* is of a rule of the phase.
Good(c) ==
  LET k == call[c] IN
  /\ k.pc # "done" => answer[c] = <<"none", Body>>
  /\ k.phase = "entry" =>
       /\ k.list \in Seq(EntryRules)
       /\ k.override \in EntryRules \cup {Body}
       /\ k.result = Body
  /\ k.phase = "exit" =>
       /\ k.list \in Seq(Exits)
       /\ k.override \in Exits \cup {Body}
       /\ k.result \in Exits \cup {Body}
  /\ k.phase = "entry" /\ k.pc \notin {"exits", "done"} => body[c] = "not_run"
  /\ k.phase = "exit" \/ k.pc = "exits" => body[c] # "not_run"
  /\ k.pc \in {"idle", "entries", "body", "exits"} => k.phase = "entry"
  /\ k.at # 0
  /\ k.pc \in {"start", "act", "end", "pop"} => k.at <= Len(k.list)
  /\ k.pc \notin {"end", "pop", "done"} => k.override = Body

IInv == TypeOK /\ \A c \in Calls : Good(c)

\* Intervals are finite.
LEMMA UpTo == \A n \in Nat : IsFiniteSet(1..n) /\ Cardinality(1..n) = n
<1> TAKE n \in Nat
<1>1. 1 \in Int /\ n \in Int
  OBVIOUS
<1>2. IsFiniteSet(1..n) /\ Cardinality(1..n) = IF 1 > n THEN 0 ELSE n - 1 + 1
  BY <1>1, FS_Interval
<1> QED BY <1>2

\* What the two rebuilt lists hold, and where.
LEMMA InsertedAt ==
  ASSUME NEW S, NEW list \in Seq(S), NEW p \in 1..(Len(list) + 1), NEW r \in S
  PROVE  /\ InsertAt(list, p, r) \in Seq(S)
         /\ Len(InsertAt(list, p, r)) = Len(list) + 1
         /\ \A i \in 1..(Len(list) + 1) : InsertAt(list, p, r)[i] =
              IF i < p THEN list[i] ELSE IF i = p THEN r ELSE list[i - 1]
<1> DEFINE a == SubSeq(list, 1, p - 1)
           b == SubSeq(list, p, Len(list))
           ar == a \o <<r>>
<1>1. Len(list) \in Nat /\ p \in Int /\ p - 1 \in Int
  OBVIOUS
<1>2. \A i \in 1..Len(list) : list[i] \in S
  BY ElementOfSeq
<1>3. /\ a \in Seq(S) /\ Len(a) = p - 1
      /\ \A i \in 1..(p - 1) : a[i] = list[i]
  <2>1. \A i \in 1..(p - 1) : list[i] \in S
    BY <1>1, <1>2
  <2>2. /\ a \in Seq(S) /\ Len(a) = IF 1 <= p - 1 THEN (p - 1) - 1 + 1 ELSE 0
        /\ \A i \in 1..((p - 1) - 1 + 1) : a[i] = list[1 + i - 1]
    BY <1>1, <2>1, SubSeqProperties
  <2>3. Len(a) = p - 1
    BY <1>1, <2>2
  <2>4. ASSUME NEW i \in 1..(p - 1) PROVE a[i] = list[i]
    <3>1. i \in 1..((p - 1) - 1 + 1) /\ 1 + i - 1 = i
      BY <1>1
    <3> QED BY <2>2, <3>1
  <2> QED BY <2>2, <2>3, <2>4
<1>4. /\ b \in Seq(S) /\ Len(b) = Len(list) - p + 1
      /\ \A i \in 1..(Len(list) - p + 1) : b[i] = list[p + i - 1]
  <2>1. \A i \in p..Len(list) : list[i] \in S
    BY <1>1, <1>2
  <2>2. /\ b \in Seq(S) /\ Len(b) = IF p <= Len(list) THEN Len(list) - p + 1 ELSE 0
        /\ \A i \in 1..(Len(list) - p + 1) : b[i] = list[p + i - 1]
    BY <1>1, <2>1, SubSeqProperties
  <2> QED BY <1>1, <2>2
<1>5. <<r>> \in Seq(S) /\ Len(<<r>>) = 1 /\ <<r>>[1] = r
  OBVIOUS
<1> HIDE DEF a, b
<1>6. /\ ar \in Seq(S) /\ Len(ar) = p
      /\ \A i \in 1..p : ar[i] = IF i < p THEN list[i] ELSE r
  <2>1. /\ ar \in Seq(S) /\ Len(ar) = Len(a) + 1
        /\ \A i \in 1..(Len(a) + 1) : ar[i] = IF i <= Len(a) THEN a[i] ELSE <<r>>[i - Len(a)]
    BY <1>3, <1>5, ConcatProperties
  <2>2. ASSUME NEW i \in 1..p PROVE ar[i] = IF i < p THEN list[i] ELSE r
    <3>1. i \in 1..(Len(a) + 1) /\ (i < p <=> i <= Len(a)) /\ (~(i < p) => i - Len(a) = 1)
      BY <1>1, <1>3
    <3>2. i < p => i \in 1..(p - 1)
      BY <1>1
    <3> QED BY <1>3, <1>5, <2>1, <3>1, <3>2
  <2> QED BY <1>1, <1>3, <2>1, <2>2
<1> HIDE DEF ar
<1>7. /\ ar \o b \in Seq(S) /\ Len(ar \o b) = Len(list) + 1
      /\ \A i \in 1..(Len(list) + 1) :
           (ar \o b)[i] = IF i <= p THEN ar[i] ELSE b[i - p]
  <2>1. /\ ar \o b \in Seq(S) /\ Len(ar \o b) = Len(ar) + Len(b)
        /\ \A i \in 1..(Len(ar) + Len(b)) :
             (ar \o b)[i] = IF i <= Len(ar) THEN ar[i] ELSE b[i - Len(ar)]
    BY <1>4, <1>6, ConcatProperties
  <2>2. Len(ar) + Len(b) = Len(list) + 1
    BY <1>1, <1>4, <1>6
  <2> QED BY <1>6, <2>1, <2>2
<1> DEFINE all == ar \o b
<1> HIDE DEF all
<1>8. ASSUME NEW i \in 1..(Len(list) + 1)
      PROVE  all[i] = IF i < p THEN list[i] ELSE IF i = p THEN r ELSE list[i - 1]
  <2>1. CASE i <= p
    <3>1. i \in 1..p
      BY <1>1, <2>1
    <3> QED BY <1>1, <1>6, <1>7, <2>1, <3>1 DEF all
  <2>2. CASE i > p
    <3>1. i - p \in 1..(Len(list) - p + 1) /\ p + (i - p) - 1 = i - 1
      BY <1>1, <2>2
    <3>2. b[i - p] = list[i - 1]
      BY <1>4, <3>1
    <3> QED BY <1>1, <1>7, <2>2, <3>2 DEF all
  <2> QED BY <1>1, <2>1, <2>2
<1>9. InsertAt(list, p, r) = ar \o b
  BY DEF InsertAt, ar, a, b
<1> QED BY <1>7, <1>8, <1>9 DEF all

LEMMA RemovedAt ==
  ASSUME NEW S, NEW list \in Seq(S), NEW p \in 1..Len(list)
  PROVE  /\ RemoveAt(list, p) \in Seq(S)
         /\ Len(RemoveAt(list, p)) = Len(list) - 1
         /\ \A i \in 1..(Len(list) - 1) :
              RemoveAt(list, p)[i] = IF i < p THEN list[i] ELSE list[i + 1]
<1> DEFINE a == SubSeq(list, 1, p - 1)
           b == SubSeq(list, p + 1, Len(list))
<1>1. Len(list) \in Nat /\ p \in Int /\ p - 1 \in Int /\ p + 1 \in Int
  OBVIOUS
<1>2. \A i \in 1..Len(list) : list[i] \in S
  BY ElementOfSeq
<1>3. /\ a \in Seq(S) /\ Len(a) = p - 1
      /\ \A i \in 1..(p - 1) : a[i] = list[i]
  <2>1. \A i \in 1..(p - 1) : list[i] \in S
    BY <1>1, <1>2
  <2>2. /\ a \in Seq(S) /\ Len(a) = IF 1 <= p - 1 THEN (p - 1) - 1 + 1 ELSE 0
        /\ \A i \in 1..((p - 1) - 1 + 1) : a[i] = list[1 + i - 1]
    BY <1>1, <2>1, SubSeqProperties
  <2>3. Len(a) = p - 1
    BY <1>1, <2>2
  <2>4. ASSUME NEW i \in 1..(p - 1) PROVE a[i] = list[i]
    <3>1. i \in 1..((p - 1) - 1 + 1) /\ 1 + i - 1 = i
      BY <1>1
    <3> QED BY <2>2, <3>1
  <2> QED BY <2>2, <2>3, <2>4
<1>4. /\ b \in Seq(S) /\ Len(b) = Len(list) - p
      /\ \A i \in 1..(Len(list) - p) : b[i] = list[p + i]
  <2>1. \A i \in (p + 1)..Len(list) : list[i] \in S
    BY <1>1, <1>2
  <2>2. /\ b \in Seq(S)
        /\ Len(b) = IF p + 1 <= Len(list) THEN Len(list) - (p + 1) + 1 ELSE 0
        /\ \A i \in 1..(Len(list) - (p + 1) + 1) : b[i] = list[(p + 1) + i - 1]
    BY <1>1, <2>1, SubSeqProperties
  <2>3. Len(b) = Len(list) - p
    BY <1>1, <2>2
  <2>4. ASSUME NEW i \in 1..(Len(list) - p) PROVE b[i] = list[p + i]
    <3>1. i \in 1..(Len(list) - (p + 1) + 1) /\ (p + 1) + i - 1 = p + i
      BY <1>1
    <3> QED BY <2>2, <3>1
  <2> QED BY <2>2, <2>3, <2>4
<1> HIDE DEF a, b
<1>5. /\ a \o b \in Seq(S) /\ Len(a \o b) = Len(list) - 1
      /\ \A i \in 1..(Len(list) - 1) :
           (a \o b)[i] = IF i <= p - 1 THEN a[i] ELSE b[i - (p - 1)]
  <2>1. /\ a \o b \in Seq(S) /\ Len(a \o b) = Len(a) + Len(b)
        /\ \A i \in 1..(Len(a) + Len(b)) :
             (a \o b)[i] = IF i <= Len(a) THEN a[i] ELSE b[i - Len(a)]
    BY <1>3, <1>4, ConcatProperties
  <2>2. Len(a) + Len(b) = Len(list) - 1
    BY <1>1, <1>3, <1>4
  <2> QED BY <1>3, <2>1, <2>2
<1> DEFINE all == a \o b
<1> HIDE DEF all
<1>6. ASSUME NEW i \in 1..(Len(list) - 1)
      PROVE  all[i] = IF i < p THEN list[i] ELSE list[i + 1]
  <2>1. CASE i < p
    <3>1. i \in 1..(p - 1)
      BY <1>1, <2>1
    <3> QED BY <1>1, <1>3, <1>5, <2>1, <3>1 DEF all
  <2>2. CASE i >= p
    <3>1. i - (p - 1) \in 1..(Len(list) - p) /\ p + (i - (p - 1)) = i + 1
      BY <1>1, <2>2
    <3>2. b[i - (p - 1)] = list[i + 1]
      BY <1>4, <3>1
    <3>3. ~(i <= p - 1) /\ ~(i < p)
      BY <1>1, <2>2
    <3>4. all[i] = b[i - (p - 1)]
      BY <1>5, <3>3 DEF all
    <3> QED BY <3>2, <3>3, <3>4
  <2> QED BY <1>1, <2>1, <2>2
<1>7. RemoveAt(list, p) = a \o b
  BY DEF RemoveAt, a, b
<1> QED BY <1>5, <1>6, <1>7 DEF all

\* The two ways _extend_dispatcher and _unextend rebuild a list keep its type.
LEMMA MergedIsSeq ==
  ASSUME NEW S, S \subseteq Nat, NEW list \in Seq(S), NEW r \in S
  PROVE  Merged(list, r) \in Seq(S)
<1> DEFINE below == {i \in 1..Len(list) : list[i] < r}
           p == 1 + Cardinality(below)
<1>1. Len(list) \in Nat
  OBVIOUS
<1>2. Cardinality(below) \in Nat /\ Cardinality(below) <= Len(list)
  <2>1. IsFiniteSet(1..Len(list)) /\ Cardinality(1..Len(list)) = Len(list)
    BY <1>1, UpTo
  <2>2. below \in SUBSET (1..Len(list))
    OBVIOUS
  <2>3. IsFiniteSet(below) /\ Cardinality(below) <= Cardinality(1..Len(list))
    BY <2>1, <2>2, FS_Subset
  <2> QED BY <2>1, <2>3, FS_CardinalityType
<1> HIDE DEF below
<1>3. p \in 1..(Len(list) + 1)
  BY <1>1, <1>2
<1>4. InsertAt(list, p, r) \in Seq(S)
  <2> HIDE DEF p
  <2> QED BY <1>3, InsertedAt
<1> QED BY <1>4 DEF Merged, below

LEMMA WithoutIsSeq ==
  ASSUME NEW S, NEW list \in Seq(S), NEW r \in ToSet(list)
  PROVE  Without(list, r) \in Seq(S)
<1> DEFINE p == CHOOSE i \in 1..Len(list) : list[i] = r
<1>1. DOMAIN list = 1..Len(list)
  OBVIOUS
<1>2. p \in 1..Len(list)
  BY <1>1 DEF ToSet
<1> HIDE DEF p
<1>3. RemoveAt(list, p) \in Seq(S)
  BY <1>2, RemovedAt
<1> QED BY <1>3 DEF Without, p

LEMMA InitHolds == Init => IInv
<1> SUFFICES ASSUME Init PROVE IInv
  OBVIOUS
<1> USE RulesAssumption, ExitsAssumption, BindingAssumption, MaxChangesAssumption DEF Init
<1>1. <<>> \in Seq(Rules) /\ <<>> \in Seq(EntryRules)
  OBVIOUS
<1>2. \A c \in Calls : call[c] \in Locals
  BY <1>1 DEF Locals, Labels, Phases, Statuses
<1>3. call \in [Calls -> Locals]
  BY <1>2
<1>4. answer \in [Calls -> Answers]
  BY DEF Answers
<1>5. asked \in [Calls -> [Phases -> Seq(Rules)]]
  BY <1>1
<1>6. has_async_sleep \in BOOLEAN
  BY DEF AnyAsync
<1>7. entries \in Seq(Rules \ Exits) /\ exits \in Seq(Exits)
  OBVIOUS
<1>8. body \in [Calls -> {"not_run", "returned", "raised"}]
  OBVIOUS
<1>9. changes \in 0..MaxChanges
  OBVIOUS
<1>10. rebound \in BOOLEAN /\ killed \in BOOLEAN
  OBVIOUS
<1>11. started \subseteq Attempts /\ ran \subseteq Attempts /\ blocked \subseteq Attempts
  OBVIOUS
<1>12. ended \subseteq Attempts \X Statuses /\ lost \subseteq Attempts \X Statuses
  OBVIOUS
<1>13. TypeOK
  <2>1. coroutine \in BOOLEAN
    OBVIOUS
  <2> QED BY ONLY <2>1, <1>3, <1>4, <1>5, <1>6, <1>7, <1>8, <1>9, <1>10, <1>11, <1>12 DEF TypeOK
<1>14. ASSUME NEW c \in Calls PROVE Good(c)
  <2>1. call[c] = [pc |-> "idle", phase |-> "entry", awaits |-> FALSE, list |-> <<>>,
                   at |-> 1, override |-> Body, result |-> Body, status |-> "completed"]
    OBVIOUS
  <2>2. body[c] = "not_run" /\ answer[c] = <<"none", Body>>
    OBVIOUS
  <2> QED BY ONLY <1>1, <2>1, <2>2 DEF Good
<1> QED BY <1>13, <1>14 DEF IInv

\* How a step of one call keeps the calls typed and in agreement.
LEMMA CallMoves ==
  ASSUME IInv, NEW c \in Calls, NEW k \in Locals, NEW b \in {"not_run", "returned", "raised"},
         NEW a \in Answers,
         call' = [call EXCEPT ![c] = k],
         body' = [body EXCEPT ![c] = b],
         answer' = [answer EXCEPT ![c] = a],
         k.pc # "done" => a = <<"none", Body>>,
         k.phase = "entry" =>
           /\ k.list \in Seq(EntryRules)
           /\ k.override \in EntryRules \cup {Body}
           /\ k.result = Body,
         k.phase = "exit" =>
           /\ k.list \in Seq(Exits)
           /\ k.override \in Exits \cup {Body}
           /\ k.result \in Exits \cup {Body},
         k.phase = "entry" /\ k.pc \notin {"exits", "done"} => b = "not_run",
         k.phase = "exit" \/ k.pc = "exits" => b # "not_run",
         k.pc \in {"idle", "entries", "body", "exits"} => k.phase = "entry",
         k.at # 0,
         k.pc \in {"start", "act", "end", "pop"} => k.at <= Len(k.list),
         k.pc \notin {"end", "pop", "done"} => k.override = Body
  PROVE  /\ call' \in [Calls -> Locals]
         /\ body' \in [Calls -> {"not_run", "returned", "raised"}]
         /\ answer' \in [Calls -> Answers]
         /\ \A d \in Calls : Good(d)'
<1> USE DEF IInv, TypeOK
<1>1. /\ call' \in [Calls -> Locals]
      /\ body' \in [Calls -> {"not_run", "returned", "raised"}]
      /\ answer' \in [Calls -> Answers]
  OBVIOUS
<1>2. Good(c)'
  <2>1. call'[c] = k /\ body'[c] = b /\ answer'[c] = a
    OBVIOUS
  <2> QED BY <2>1 DEF Good
<1>3. ASSUME NEW d \in Calls, d # c PROVE Good(d)'
  <2>1. call'[d] = call[d] /\ body'[d] = body[d] /\ answer'[d] = answer[d]
    BY <1>3
  <2> QED BY <2>1 DEF Good
<1> QED BY <1>1, <1>2, <1>3

\* What a step of a call leaves typed besides the calls themselves.
OthersTyped ==
  /\ coroutine \in BOOLEAN
  /\ entries \in Seq(Rules \ Exits) /\ exits \in Seq(Exits)
  /\ has_async_sleep \in BOOLEAN /\ rebound \in BOOLEAN
  /\ changes \in 0..MaxChanges
  /\ asked \in [Calls -> [Phases -> Seq(Rules)]]
  /\ started \subseteq Attempts /\ ran \subseteq Attempts /\ blocked \subseteq Attempts
  /\ ended \subseteq Attempts \X Statuses /\ lost \subseteq Attempts \X Statuses
  /\ killed \in BOOLEAN

\* The rule a running loop stands at is a rule of the loop's phase.
LEMMA RuleOfPhase ==
  ASSUME IInv, NEW c \in Calls, call[c].at <= Len(call[c].list)
  PROVE  /\ Rule(c) \in Rules
         /\ call[c].phase = "entry" => Rule(c) \in EntryRules
         /\ call[c].phase = "exit" => Rule(c) \in Exits
<1> DEFINE k == call[c]
<1>1. k \in Locals /\ Good(c)
  BY DEF IInv, TypeOK
<1>2. k.at \in Nat /\ k.at # 0 /\ k.phase \in Phases
  BY <1>1 DEF Locals, Good
<1>3. \A S : k.list \in Seq(S) => k.list[k.at] \in S
  <2> SUFFICES ASSUME NEW S, k.list \in Seq(S) PROVE k.list[k.at] \in S
    OBVIOUS
  <2>1. k.at \in 1..Len(k.list)
    BY <1>2
  <2> QED BY <2>1, ElementOfSeq
<1>4. k.list \in Seq(Rules)
  BY <1>1 DEF Locals
<1> QED BY <1>1, <1>3, <1>4 DEF Rule, Good

\* The steps of a call that send it elsewhere without answering.
LEMMA CallGoes ==
  ASSUME IInv, NEW c \in Calls, call[c].pc # "done", NEW k \in Locals,
         k.pc # "done", call' = [call EXCEPT ![c] = k],
         body' = body, answer' = answer, OthersTyped',
         k.phase = call[c].phase, k.at # 0,
         k.result = call[c].result \/ (k.phase = "exit" /\ k.result \in Exits),
         k.list = call[c].list \/ (k.phase = "entry" /\ k.list = entries),
         k.override \in {Body, call[c].override} \cup
           (IF k.phase = "entry" THEN EntryRules ELSE Exits),
         k.pc # "exits", call[c].pc # "exits",
         k.pc \in {"idle", "entries", "body"} => k.phase = "entry",
         k.pc \in {"start", "act", "end", "pop"} => k.at <= Len(k.list),
         k.pc \notin {"end", "pop"} => k.override = Body
  PROVE  IInv'
<1> DEFINE b == body[c]  a == answer[c]
<1>1. b \in {"not_run", "returned", "raised"} /\ a \in Answers
  BY DEF IInv, TypeOK
<1>2. body' = [body EXCEPT ![c] = b] /\ answer' = [answer EXCEPT ![c] = a]
  BY DEF IInv, TypeOK
<1>3. Good(c) /\ call[c] \in Locals /\ entries \in Seq(EntryRules)
  BY DEF IInv, TypeOK, EntryRules
<1>4. a = <<"none", Body>>
  BY <1>3 DEF Good
<1>5. k.phase = "entry" =>
        /\ k.list \in Seq(EntryRules)
        /\ k.override \in EntryRules \cup {Body}
        /\ k.result = Body
        /\ b = "not_run"
  BY <1>3 DEF Good
<1>6. k.phase = "exit" =>
        /\ k.list \in Seq(Exits)
        /\ k.override \in Exits \cup {Body}
        /\ k.result \in Exits \cup {Body}
        /\ b # "not_run"
  BY <1>3 DEF Good
<1> HIDE DEF a, b
<1>7. /\ call' \in [Calls -> Locals]
      /\ body' \in [Calls -> {"not_run", "returned", "raised"}]
      /\ answer' \in [Calls -> Answers]
      /\ \A d \in Calls : Good(d)'
  <2>1. k.phase = "exit" \/ k.pc = "exits" => b # "not_run"
    BY <1>6
  <2>2. /\ k.pc # "done" => a = <<"none", Body>>
        /\ k.phase = "entry" /\ k.pc \notin {"exits", "done"} => b = "not_run"
        /\ k.pc \in {"idle", "entries", "body", "exits"} => k.phase = "entry"
        /\ k.pc \notin {"end", "pop", "done"} => k.override = Body
    BY <1>4, <1>5
  <2>3. /\ k.phase = "entry" =>
             /\ k.list \in Seq(EntryRules)
             /\ k.override \in EntryRules \cup {Body}
             /\ k.result = Body
        /\ k.phase = "exit" =>
             /\ k.list \in Seq(Exits)
             /\ k.override \in Exits \cup {Body}
             /\ k.result \in Exits \cup {Body}
    BY <1>5, <1>6
  <2>4. k.at # 0 /\ (k.pc \in {"start", "act", "end", "pop"} => k.at <= Len(k.list))
    OBVIOUS
  <2> QED BY ONLY IInv, k \in Locals, c \in Calls, call' = [call EXCEPT ![c] = k], <1>1, <1>2,
                  <2>1, <2>2, <2>3, <2>4, CallMoves
<1> QED BY <1>7 DEF IInv, TypeOK, OthersTyped

\* The steps of a call that answer.
LEMMA CallReplies ==
  ASSUME IInv, NEW c \in Calls, NEW what, NEW who, Reply(c, what, who),
         call[c].pc \notin {"done", "exits"},
         <<what, who>> \in Answers, body' = body, OthersTyped'
  PROVE  IInv'
<1> DEFINE b == body[c]  a == <<what, who>>  k == [call[c] EXCEPT !.pc = "done"]
<1>1. b \in {"not_run", "returned", "raised"} /\ a \in Answers
  BY DEF IInv, TypeOK
<1>2. body' = [body EXCEPT ![c] = b] /\ answer' = [answer EXCEPT ![c] = a]
  BY DEF IInv, TypeOK, Reply
<1>3. Good(c) /\ call[c] \in Locals
  BY DEF IInv, TypeOK
<1>4. k \in Locals /\ k.pc = "done"
  BY <1>3 DEF Locals, Labels
<1>5. call' = [call EXCEPT ![c] = k]
  BY <1>3 DEF IInv, TypeOK, Reply, Goto
<1>6. /\ k.phase = call[c].phase /\ k.list = call[c].list /\ k.at = call[c].at
      /\ k.override = call[c].override /\ k.result = call[c].result
  BY <1>3 DEF Locals
<1>7. k.phase = "entry" =>
        /\ k.list \in Seq(EntryRules)
        /\ k.override \in EntryRules \cup {Body}
        /\ k.result = Body
        /\ b = "not_run"
  BY <1>3, <1>6 DEF Good
<1>8. k.phase = "exit" =>
        /\ k.list \in Seq(Exits)
        /\ k.override \in Exits \cup {Body}
        /\ k.result \in Exits \cup {Body}
        /\ b # "not_run"
  BY <1>3, <1>6 DEF Good
<1>9. k.at # 0
  BY <1>3, <1>6 DEF Good
<1> HIDE DEF a, b, k
<1>10. /\ call' \in [Calls -> Locals]
       /\ body' \in [Calls -> {"not_run", "returned", "raised"}]
       /\ answer' \in [Calls -> Answers]
       /\ \A d \in Calls : Good(d)'
  <2>1. k \in Locals /\ k.pc = "done"
    BY <1>4
  <2>2. k.phase = "exit" \/ k.pc = "exits" => b # "not_run"
    BY <2>1, <1>8
  <2>3. /\ k.pc # "done" => a = <<"none", Body>>
        /\ k.phase = "entry" /\ k.pc \notin {"exits", "done"} => b = "not_run"
        /\ k.pc \in {"idle", "entries", "body", "exits"} => k.phase = "entry"
        /\ k.pc \in {"start", "act", "end", "pop"} => k.at <= Len(k.list)
        /\ k.pc \notin {"end", "pop", "done"} => k.override = Body
    BY <2>1
  <2> QED BY <1>1, <1>2, <1>5, <1>7, <1>8, <1>9, <2>1, <2>2, <2>3, CallMoves
<1> QED BY <1>10 DEF IInv, TypeOK, OthersTyped

\* Every step keeps the invariant.
LEMMA StepKeeps == IInv /\ [Next]_vars => IInv'
<1> SUFFICES ASSUME IInv, [Next]_vars PROVE IInv'
  OBVIOUS
<1> USE RulesAssumption, ExitsAssumption, MaxChangesAssumption
<1>0. TypeOK
  BY DEF IInv
<1>1. ASSUME NEW c \in Calls, Arrive(c) PROVE IInv'
  <2> DEFINE k == [call[c] EXCEPT !.pc = "entries", !.awaits = coroutine /\ has_async_sleep]
  <2>1. call[c] \in Locals /\ Good(c) /\ call[c].pc = "idle"
    BY <1>1 DEF IInv, TypeOK, Arrive, At
  <2>2. call' = [call EXCEPT ![c] = k]
    BY <1>1, <1>0 DEF Arrive, TypeOK
  <2>3. (coroutine /\ has_async_sleep) \in BOOLEAN
    BY <1>0, ModesAssumption DEF TypeOK
  <2>4. k \in Locals /\ k.pc = "entries" /\ k.phase = call[c].phase
        /\ k.result = call[c].result /\ k.at = call[c].at /\ k.list = call[c].list
        /\ k.override = call[c].override
    BY <2>1, <2>3 DEF Locals, Labels
  <2>5. OthersTyped' /\ body' = body /\ answer' = answer
    BY <1>0, <1>1 DEF Arrive, TypeOK, OthersTyped, compVars, logVars
  <2>6. call[c].phase = "entry" /\ call[c].override = Body /\ call[c].at # 0
    BY <2>1 DEF Good
  <2> HIDE DEF k
  <2> QED BY <2>1, <2>2, <2>4, <2>5, <2>6, CallGoes
<1>2. ASSUME NEW c \in Calls, BeginEntries(c) PROVE IInv'
  <2> DEFINE k == [call[c] EXCEPT !.pc = "gate", !.list = entries, !.at = 1]
  <2>1. call[c] \in Locals /\ Good(c) /\ call[c].pc = "entries"
    BY <1>2 DEF IInv, TypeOK, BeginEntries, At
  <2>2. call' = [call EXCEPT ![c] = k]
    BY <1>2, <1>0 DEF BeginEntries, TypeOK
  <2>3. k \in Locals /\ k.pc = "gate" /\ k.phase = call[c].phase
        /\ k.result = call[c].result /\ k.at = 1 /\ k.list = entries
        /\ k.override = call[c].override
    <3>1. entries \in Seq(Rules)
      BY <1>0 DEF TypeOK
    <3> QED BY <2>1, <3>1 DEF Locals, Labels
  <2>4. OthersTyped' /\ body' = body /\ answer' = answer
    BY <1>0, <1>2 DEF BeginEntries, TypeOK, OthersTyped, compVars, logVars
  <2>5. call[c].phase = "entry" /\ call[c].override = Body
    BY <2>1 DEF Good
  <2> HIDE DEF k
  <2>6. /\ k.list = call[c].list \/ (k.phase = "entry" /\ k.list = entries)
        /\ k.override \in {Body, call[c].override} \cup
             (IF k.phase = "entry" THEN EntryRules ELSE Exits)
        /\ k.at # 0 /\ k.override = Body
    BY <2>3, <2>5
  <2> QED BY <2>1, <2>2, <2>3, <2>4, <2>6, CallGoes
<1>3. ASSUME NEW c \in Calls, Gate(c) PROVE IInv'
  <2>1. call[c] \in Locals /\ Good(c) /\ call[c].pc = "gate" /\ call[c].at <= Len(call[c].list)
    BY <1>3 DEF IInv, TypeOK, Gate, At
  <2>2. call[c].at \in Nat /\ call[c].phase \in Phases /\ call[c].override = Body /\ call[c].at # 0
    BY <2>1 DEF Locals, Good
  <2>3. Rule(c) \in Rules
    BY <2>1, RuleOfPhase
  <2>4. asked' \in [Calls -> [Phases -> Seq(Rules)]]
    <3> DEFINE p == call[c].phase
               new == [asked[c] EXCEPT ![p] = Append(asked[c][p], Rule(c))]
    <3>1. asked' = [asked EXCEPT ![c] = new] /\ asked \in [Calls -> [Phases -> Seq(Rules)]]
      BY <1>0, <1>3 DEF Gate, TypeOK
    <3>2. Append(asked[c][p], Rule(c)) \in Seq(Rules)
      BY <2>2, <2>3, <3>1
    <3>3. new \in [Phases -> Seq(Rules)]
      BY <3>1, <3>2
    <3> HIDE DEF new
    <3> QED BY <3>1, <3>3
  <2>5. OthersTyped' /\ body' = body
    BY <1>0, <1>3, <2>4 DEF Gate, TypeOK, OthersTyped, compVars, logVars
  <2>6. CASE Goto(c, "start") /\ UNCHANGED answer
    <3> DEFINE k == [call[c] EXCEPT !.pc = "start"]
    <3>1. k \in Locals /\ k.pc = "start" /\ k.phase = call[c].phase
          /\ k.result = call[c].result /\ k.at = call[c].at /\ k.list = call[c].list
          /\ k.override = call[c].override
      BY <2>1 DEF Locals, Labels
    <3>2. call' = [call EXCEPT ![c] = k]
      BY <1>0, <2>6 DEF Goto, TypeOK
    <3> HIDE DEF k
    <3> QED BY <2>1, <2>2, <2>5, <2>6, <3>1, <3>2, CallGoes
  <2>7. CASE call' = NextRule(c) /\ UNCHANGED answer
    <3> DEFINE k == [call[c] EXCEPT !.pc = "gate", !.at = call[c].at + 1]
    <3>0. call[c].at + 1 \in Nat /\ call[c].at + 1 # 0
      BY <2>2
    <3>1. k \in Locals /\ k.pc = "gate" /\ k.phase = call[c].phase
          /\ k.result = call[c].result /\ k.at # 0 /\ k.list = call[c].list
          /\ k.override = call[c].override
      BY <2>1, <3>0 DEF Locals, Labels
    <3>2. call' = [call EXCEPT ![c] = k]
      BY <1>0, <2>7 DEF NextRule, TypeOK
    <3> HIDE DEF k
    <3> QED BY <2>1, <2>2, <2>5, <2>7, <3>1, <3>2, CallGoes
  <2>8. CASE Reply(c, "gate", Rule(c))
    <3>1. <<"gate", Rule(c)>> \in Answers
      BY <2>3 DEF Answers, Faults
    <3> QED BY <2>1, <2>5, <2>8, <3>1, CallReplies
  <2> QED BY <1>3, <2>6, <2>7, <2>8 DEF Gate
<1>4. ASSUME NEW c \in Calls, RecordStart(c) PROVE IInv'
  <2>1. call[c] \in Locals /\ Good(c) /\ call[c].pc = "start"
    BY <1>4 DEF IInv, TypeOK, RecordStart, At
  <2>2. call[c].override = Body /\ call[c].at # 0 /\ call[c].at <= Len(call[c].list)
    BY <2>1 DEF Good
  <2>3. Rule(c) \in Rules
    BY <2>2, RuleOfPhase
  <2>4. started' \subseteq Attempts
    BY <1>0, <1>4, <2>3 DEF RecordStart, TypeOK, Attempts
  <2>5. OthersTyped' /\ body' = body
    BY <1>0, <1>4, <2>4 DEF RecordStart, TypeOK, OthersTyped, compVars
  <2>6. CASE Goto(c, "act") /\ UNCHANGED answer
    <3> DEFINE k == [call[c] EXCEPT !.pc = "act"]
    <3>1. k \in Locals /\ k.pc = "act" /\ k.phase = call[c].phase
          /\ k.result = call[c].result /\ k.at = call[c].at /\ k.list = call[c].list
          /\ k.override = call[c].override
      BY <2>1 DEF Locals, Labels
    <3>2. call' = [call EXCEPT ![c] = k]
      BY <1>0, <2>6 DEF Goto, TypeOK
    <3> HIDE DEF k
    <3> QED BY <2>1, <2>2, <2>5, <2>6, <3>1, <3>2, CallGoes
  <2>7. CASE Reply(c, "start", Rule(c))
    <3>1. <<"start", Rule(c)>> \in Answers
      BY <2>3 DEF Answers, Faults
    <3> QED BY <2>1, <2>5, <2>7, <3>1, CallReplies
  <2> QED BY <1>4, <2>6, <2>7 DEF RecordStart
<1>5. ASSUME NEW c \in Calls, Act(c) PROVE IInv'
  <2>1. call[c] \in Locals /\ Good(c) /\ call[c].pc = "act"
    BY <1>5 DEF IInv, TypeOK, Act, At
  <2>2. call[c].override = Body /\ call[c].at # 0 /\ call[c].at <= Len(call[c].list)
    BY <2>1 DEF Good
  <2>3. Rule(c) \in Rules /\ (call[c].phase = "entry" => Rule(c) \in EntryRules)
        /\ (call[c].phase = "exit" => Rule(c) \in Exits) /\ call[c].phase \in Phases
    BY <2>1, <2>2, RuleOfPhase DEF Locals
  <2>4. ran' \subseteq Attempts /\ blocked' \subseteq Attempts
    BY <1>0, <1>5, <2>3 DEF Act, TypeOK, Attempts
  <2>5. OthersTyped' /\ body' = body /\ answer' = answer
    BY <1>0, <1>5, <2>4 DEF Act, TypeOK, OthersTyped, compVars, logVars
  <2>6. ASSUME NEW s \in Statuses, call' = Outcome(c, s) PROVE IInv'
    <3> DEFINE k == [call[c] EXCEPT !.pc = "end", !.status = s]
    <3>1. k \in Locals /\ k.pc = "end" /\ k.phase = call[c].phase
          /\ k.result = call[c].result /\ k.at = call[c].at /\ k.list = call[c].list
          /\ k.override = call[c].override
      BY <2>1 DEF Locals, Labels
    <3>2. call' = [call EXCEPT ![c] = k]
      BY <1>0, <2>6 DEF Outcome, TypeOK
    <3> HIDE DEF k
    <3> QED BY <2>1, <2>2, <2>5, <3>1, <3>2, CallGoes
  <2>7. CASE call' = [Outcome(c, "completed") EXCEPT ![c].override = Rule(c)]
    <3> DEFINE k == [call[c] EXCEPT !.pc = "end", !.status = "completed", !.override = Rule(c)]
    <3>1. k \in Locals /\ k.pc = "end" /\ k.phase = call[c].phase
          /\ k.result = call[c].result /\ k.at = call[c].at /\ k.list = call[c].list
          /\ k.override = Rule(c)
      BY <2>1, <2>3 DEF Locals, Labels, Statuses
    <3>2. call' = [call EXCEPT ![c] = k]
      BY <1>0, <2>7 DEF Outcome, TypeOK
    <3>3. k.override \in {Body, call[c].override} \cup
            (IF k.phase = "entry" THEN EntryRules ELSE Exits)
      BY <2>3, <3>1 DEF Phases
    <3> HIDE DEF k
    <3> QED BY <2>1, <2>2, <2>5, <3>1, <3>2, <3>3, CallGoes
  <2>8. CASE UNCHANGED call
    BY <1>0, <2>5, <2>8 DEF IInv, TypeOK, OthersTyped, Good
  <2>9. "completed" \in Statuses /\ "raised" \in Statuses /\ "failed" \in Statuses
    BY DEF Statuses
  <2> QED BY <1>5, <2>6, <2>7, <2>8, <2>9 DEF Act
<1>6. ASSUME NEW c \in Calls, RecordEnd(c) PROVE IInv'
  <2>1. call[c] \in Locals /\ Good(c) /\ call[c].pc = "end"
    BY <1>6 DEF IInv, TypeOK, RecordEnd, At
  <2>2. call[c].at # 0 /\ call[c].at <= Len(call[c].list)
    BY <2>1 DEF Good
  <2>3. Rule(c) \in Rules /\ call[c].status \in Statuses
    BY <2>1, <2>2, RuleOfPhase DEF Locals
  <2>4. <<<<c, Rule(c)>>, call[c].status>> \in Attempts \X Statuses
    BY <2>3 DEF Attempts
  <2>5. ended' \subseteq Attempts \X Statuses /\ lost' \subseteq Attempts \X Statuses
    BY <1>0, <1>6, <2>4 DEF RecordEnd, TypeOK
  <2>6. OthersTyped' /\ body' = body
    BY <1>0, <1>6, <2>5 DEF RecordEnd, TypeOK, OthersTyped, compVars
  <2>7. CASE Goto(c, "pop") /\ UNCHANGED answer
    <3> DEFINE k == [call[c] EXCEPT !.pc = "pop"]
    <3>1. k \in Locals /\ k.pc = "pop" /\ k.phase = call[c].phase
          /\ k.result = call[c].result /\ k.at = call[c].at /\ k.list = call[c].list
          /\ k.override = call[c].override
      BY <2>1 DEF Locals, Labels
    <3>2. call' = [call EXCEPT ![c] = k]
      BY <1>0, <2>7 DEF Goto, TypeOK
    <3> HIDE DEF k
    <3> QED BY <2>1, <2>2, <2>6, <2>7, <3>1, <3>2, CallGoes
  <2>8. ASSUME NEW what \in {"action", "end"}, Reply(c, what, Rule(c)) PROVE IInv'
    <3>1. <<what, Rule(c)>> \in Answers
      BY <2>3 DEF Answers, Faults
    <3> QED BY <2>1, <2>6, <2>8, <3>1, CallReplies
  <2> QED BY <1>6, <2>7, <2>8 DEF RecordEnd
<1>7. ASSUME NEW c \in Calls, Pop(c) PROVE IInv'
  <2> DEFINE o == call[c].override
  <2>1. call[c] \in Locals /\ Good(c) /\ call[c].pc = "pop"
    BY <1>7 DEF IInv, TypeOK, Pop, At
  <2>2. call[c].at \in Nat /\ call[c].phase \in Phases
        /\ (call[c].phase = "entry" => body[c] = "not_run")
        /\ o \in Rules \cup {Body} /\ (call[c].phase = "exit" => o \in Exits \cup {Body})
    BY <2>1 DEF Locals, Good
  <2>3. OthersTyped' /\ body' = body
    BY <1>0, <1>7 DEF Pop, TypeOK, OthersTyped, compVars, logVars
  <2>4. CASE o # Body /\ call[c].phase = "entry"
    <3>1. <<"value", o>> \in Answers
      BY <2>2 DEF Answers
    <3>2. Reply(c, "value", o)
      BY <1>7, <2>4 DEF Pop
    <3> QED BY <2>1, <2>3, <3>1, <3>2, CallReplies
  <2>5. CASE ~(o # Body /\ call[c].phase = "entry")
    <3> DEFINE res == IF o # Body /\ body[c] = "returned" THEN o ELSE call[c].result
               k == [call[c] EXCEPT !.pc = "gate", !.at = call[c].at + 1,
                                    !.override = Body, !.result = res]
    <3>0. res = call[c].result \/ (call[c].phase = "exit" /\ res \in Exits)
      BY <2>2, <2>5 DEF Phases
    <3>1. call' = [call EXCEPT ![c] = k] /\ answer' = answer
      <4> DEFINE n == [call[c] EXCEPT !.pc = "gate", !.at = call[c].at + 1]
      <4>1. NextRule(c) = [call EXCEPT ![c] = n] /\ call \in [Calls -> Locals]
        BY <1>0 DEF NextRule, TypeOK
      <4>2. n.result = call[c].result
        BY <2>1 DEF Locals
      <4>3. k = [n EXCEPT !.override = Body, !.result = res]
        BY <2>1 DEF Locals
      <4>4. [call EXCEPT ![c] = n][c] = n
        BY <4>1
      <4> HIDE DEF n, k
      <4>5. call' = [[call EXCEPT ![c] = n] EXCEPT ![c] = k] /\ answer' = answer
        BY <1>7, <2>5, <4>1, <4>2, <4>3, <4>4 DEF Pop
      <4> QED BY <4>1, <4>5
    <3>2. res \in Rules \cup {Body}
      BY <2>1, <2>2 DEF Locals
    <3> HIDE DEF res
    <3>4. call[c].at + 1 \in Nat /\ call[c].at + 1 # 0
      BY <2>2
    <3>3. k \in Locals /\ k.pc = "gate" /\ k.phase = call[c].phase
          /\ k.result = res /\ k.at # 0 /\ k.list = call[c].list /\ k.override = Body
      BY <2>1, <3>2, <3>4 DEF Locals, Labels
    <3> HIDE DEF k
    <3> QED BY <2>1, <2>3, <3>0, <3>1, <3>3, CallGoes
  <2> QED BY <2>4, <2>5
<1>8. ASSUME NEW c \in Calls, BeginBody(c) PROVE IInv'
  <2> DEFINE k == [call[c] EXCEPT !.pc = "body"]
  <2>1. call[c] \in Locals /\ Good(c) /\ call[c].pc = "gate" /\ call[c].phase = "entry"
    BY <1>8 DEF IInv, TypeOK, BeginBody, At
  <2>2. call[c].override = Body /\ call[c].at # 0
    BY <2>1 DEF Good
  <2>3. OthersTyped' /\ body' = body /\ answer' = answer
    BY <1>0, <1>8 DEF BeginBody, TypeOK, OthersTyped, compVars, logVars
  <2>4. k \in Locals /\ k.pc = "body" /\ k.phase = call[c].phase
        /\ k.result = call[c].result /\ k.at = call[c].at /\ k.list = call[c].list
        /\ k.override = call[c].override
    BY <2>1 DEF Locals, Labels
  <2>5. call' = [call EXCEPT ![c] = k]
    BY <1>0, <1>8 DEF BeginBody, Goto, TypeOK
  <2> HIDE DEF k
  <2> QED BY <2>1, <2>2, <2>3, <2>4, <2>5, CallGoes
<1>9. ASSUME NEW c \in Calls, RunBody(c) PROVE IInv'
  <2> DEFINE k == [call[c] EXCEPT !.pc = "exits"]  a == answer[c]
  <2>1. call[c] \in Locals /\ Good(c) /\ call[c].pc = "body"
    BY <1>9 DEF IInv, TypeOK, RunBody, At
  <2>2. a = <<"none", Body>> /\ a \in Answers /\ answer' = [answer EXCEPT ![c] = a]
    BY <1>0, <1>9, <2>1 DEF Good, TypeOK, RunBody
  <2>3. OthersTyped'
    BY <1>0, <1>9 DEF RunBody, TypeOK, OthersTyped, compVars, logVars
  <2>4. k \in Locals /\ k.pc = "exits" /\ k.phase = call[c].phase
        /\ k.result = call[c].result /\ k.at = call[c].at /\ k.list = call[c].list
        /\ k.override = call[c].override
    BY <2>1 DEF Locals, Labels
  <2>5. call' = [call EXCEPT ![c] = k]
    BY <1>0, <1>9 DEF RunBody, Goto, TypeOK
  <2>6. PICK b \in {"returned", "raised"} : body' = [body EXCEPT ![c] = b]
    BY <1>9 DEF RunBody
  <2> HIDE DEF k, a
  <2>7. k.phase = "entry" /\ k.override = Body /\ k.list \in Seq(EntryRules)
        /\ k.result = Body /\ k.at # 0
    BY <2>1, <2>4 DEF Good
  <2>8. /\ call' \in [Calls -> Locals]
        /\ body' \in [Calls -> {"not_run", "returned", "raised"}]
        /\ answer' \in [Calls -> Answers]
        /\ \A d \in Calls : Good(d)'
    BY <2>2, <2>4, <2>5, <2>6, <2>7, CallMoves
  <2> QED BY <2>3, <2>8 DEF IInv, TypeOK, OthersTyped
<1>10. ASSUME NEW c \in Calls, BeginExits(c) PROVE IInv'
  <2> DEFINE l == IF coroutine THEN <<>> ELSE exits
             k == [call[c] EXCEPT !.pc = "gate", !.phase = "exit", !.list = l, !.at = 1]
             a == answer[c]  b == body[c]
  <2>1. call[c] \in Locals /\ Good(c) /\ call[c].pc = "exits"
    BY <1>10 DEF IInv, TypeOK, BeginExits, At
  <2>2. a = <<"none", Body>> /\ a \in Answers /\ answer' = [answer EXCEPT ![c] = a]
    BY <1>0, <1>10, <2>1 DEF Good, TypeOK, BeginExits
  <2>3. b \in {"not_run", "returned", "raised"} /\ body' = [body EXCEPT ![c] = b]
        /\ b # "not_run"
    BY <1>0, <1>10, <2>1 DEF Good, TypeOK, BeginExits
  <2>4. OthersTyped'
    BY <1>0, <1>10 DEF BeginExits, TypeOK, OthersTyped, compVars, logVars
  <2>5. l \in Seq(Exits) /\ l \in Seq(Rules)
    <3>0. exits \in Seq(Exits)
      BY <1>0 DEF TypeOK
    <3>1. exits \in Seq(Exits) /\ exits \in Seq(Rules)
      BY ONLY <3>0, ExitsAssumption
    <3>2. <<>> \in Seq(Exits) /\ <<>> \in Seq(Rules)
      OBVIOUS
    <3> QED BY <3>1, <3>2
  <2>6. call' = [call EXCEPT ![c] = k]
    BY <1>0, <1>10 DEF BeginExits, TypeOK
  <2> HIDE DEF l
  <2>7. k \in Locals /\ k.pc = "gate" /\ k.phase = "exit"
        /\ k.result = call[c].result /\ k.at = 1 /\ k.list = l
        /\ k.override = call[c].override
    BY <2>1, <2>5 DEF Locals, Labels, Phases
  <2>8. call[c].override = Body /\ call[c].result = Body
    BY <2>1 DEF Good
  <2> HIDE DEF k, a, b
  <2>9. /\ call' \in [Calls -> Locals]
        /\ body' \in [Calls -> {"not_run", "returned", "raised"}]
        /\ answer' \in [Calls -> Answers]
        /\ \A d \in Calls : Good(d)'
    <3>1. /\ k.pc # "done" => a = <<"none", Body>>
          /\ k.phase = "exit" =>
               /\ k.list \in Seq(Exits)
               /\ k.override \in Exits \cup {Body}
               /\ k.result \in Exits \cup {Body}
          /\ k.at # 0 /\ k.phase # "entry"
          /\ k.pc \notin {"end", "pop", "done"} => k.override = Body
          /\ k.phase = "exit" \/ k.pc = "exits" => b # "not_run"
          /\ k.pc \notin {"idle", "entries", "body", "exits", "start", "act", "end", "pop"}
      BY <2>2, <2>3, <2>5, <2>7, <2>8
    <3>2. k \in Locals
      BY <2>7
    <3> QED BY ONLY IInv, <2>2, <2>3, <2>6, <3>1, <3>2, c \in Calls, CallMoves
  <2> QED BY <2>4, <2>9 DEF IInv, TypeOK, OthersTyped
<1>11. ASSUME NEW c \in Calls, Conclude(c) PROVE IInv'
  <2>1. call[c] \in Locals /\ Good(c) /\ call[c].pc = "gate" /\ call[c].phase = "exit"
    BY <1>11 DEF IInv, TypeOK, Conclude, At
  <2>2. OthersTyped' /\ body' = body
    BY <1>0, <1>11 DEF Conclude, TypeOK, OthersTyped, compVars, logVars
  <2>3. CASE Reply(c, "body", Body)
    <3>1. <<"body", Body>> \in Answers
      BY DEF Answers
    <3> QED BY <2>1, <2>2, <2>3, <3>1, CallReplies
  <2>4. CASE Reply(c, "value", call[c].result)
    <3>1. <<"value", call[c].result>> \in Answers
      BY <2>1 DEF Answers, Locals
    <3> QED BY <2>1, <2>2, <2>4, <3>1, CallReplies
  <2> QED BY <1>11, <2>3, <2>4 DEF Conclude
<1>12. ASSUME NEW r \in Rules, Extend(r) \/ Retract(r) PROVE IInv'
  <2>1. entries \in Seq(Rules \ Exits) /\ exits \in Seq(Exits)
        /\ Rules \ Exits \subseteq Nat /\ Exits \subseteq Nat
    BY <1>0 DEF TypeOK
  <2>2. CASE Extend(r)
    <3>1. entries' \in Seq(Rules \ Exits) /\ exits' \in Seq(Exits)
      BY <2>1, <2>2, MergedIsSeq DEF Extend
    <3> QED BY <1>0, <2>2, <3>1 DEF Extend, Rebinding, IInv, TypeOK, Good, logVars
  <2>3. CASE Retract(r)
    <3>1. r \in Exits => r \in ToSet(exits)
      <4>1. \A x \in ToSet(entries) : x \notin Exits
        BY <2>1 DEF ToSet
      <4> QED BY <2>3, <4>1 DEF Retract, Served
    <3>2. r \notin Exits => r \in ToSet(entries)
      <4>1. \A x \in ToSet(exits) : x \in Exits
        BY <2>1 DEF ToSet
      <4> QED BY <2>3, <4>1 DEF Retract, Served
    <3>3. entries' \in Seq(Rules \ Exits) /\ exits' \in Seq(Exits)
      BY <2>1, <2>3, <3>1, <3>2, WithoutIsSeq DEF Retract
    <3> QED BY <1>0, <2>3, <3>3 DEF Retract, Rebinding, IInv, TypeOK, Good, logVars
  <2> QED BY <1>12, <2>2, <2>3
<1>13. CASE Republish
  BY <1>0, <1>13 DEF Republish, IInv, TypeOK, Good, logVars, AnyAsync
<1>14. CASE UNCHANGED vars
  BY <1>0, <1>14 DEF IInv, TypeOK, Good, vars, compVars, logVars
<1> QED
  BY <1>1, <1>2, <1>3, <1>4, <1>5, <1>6, <1>7, <1>8, <1>9, <1>10, <1>11, <1>12, <1>13, <1>14
     DEF Next, CallStep

\* IInv holds throughout.
LEMMA Invariance == Spec => []IInv
<1> QED BY InitHolds, StepKeeps, PTL DEF Spec

\* Type correctness, for any number of calls and of extensions: the entry list
\* holds entry rules only and the exit list exit rules only, so an extension
\* (_extend_dispatcher) or its undoing (_unextend) never moves a rule from one
\* side of the original callable to the other.
THEOREM TypeCorrect == Spec => []TypeOK
<1>1. IInv => TypeOK
  BY DEF IInv
<1> QED BY <1>1, Invariance, PTL

\* The calls that answer answer once.
LEMMA AnswersOnce ==
  ASSUME IInv, NEW c \in Calls, call[c].pc # "done" PROVE answer[c] = <<"none", Body>>
BY DEF IInv, Good

\* What a step of the dispatcher does to the body and the answers is a step of
\* the contract, or nothing.
LEMMA StepKeepsContract ==
  IInv /\ [Next]_vars => [Contract!Next]_(Contract!vars)
<1> SUFFICES ASSUME IInv, [Next]_vars PROVE [Contract!Next]_(Contract!vars)
  OBVIOUS
<1> USE DEF Contract!Next, Contract!vars
<1>0. TypeOK
  BY DEF IInv
<1>1. ASSUME NEW c \in Calls, NEW what, NEW who, Reply(c, what, who), call[c].pc # "done",
             UNCHANGED body
      PROVE  Contract!Answer(c, what, who)
  BY <1>1, AnswersOnce DEF Reply, Contract!Answer, Contract!Open
<1>2. ASSUME NEW c \in Calls, NEW what \in Faults, Reply(c, what, Rule(c)), UNCHANGED body,
             call[c].pc # "done", call[c].at <= Len(call[c].list),
             call[c].pc \notin {"idle", "entries", "body", "exits"}
      PROVE  Contract!Next
  <2>1. Contract!Answer(c, what, Rule(c))
    BY <1>1, <1>2
  <2>2. Good(c) /\ call[c].phase \in Phases
    BY <1>0 DEF IInv, TypeOK, Locals
  <2>3. CASE call[c].phase = "entry"
    <3>1. body[c] = "not_run" /\ Rule(c) \in Rules \ Exits
      BY <1>2, <2>2, <2>3, RuleOfPhase DEF Good, EntryRules
    <3> QED BY <2>1, <3>1 DEF Contract!Preempt
  <2>4. CASE call[c].phase = "exit"
    <3>1. body[c] # "not_run" /\ Rule(c) \in Exits
      BY <1>2, <2>2, <2>4, RuleOfPhase DEF Good
    <3> QED BY <2>1, <3>1 DEF Contract!Break
  <2> QED BY <2>2, <2>3, <2>4 DEF Phases
<1>3. ASSUME NEW c \in Calls, Gate(c) PROVE [Contract!Next]_(Contract!vars)
  <2>1. call[c].pc = "gate" /\ call[c].at <= Len(call[c].list) /\ "gate" \in Faults
        /\ UNCHANGED body
    BY <1>3 DEF Gate, At, Faults
  <2> QED BY <1>2, <1>3, <2>1 DEF Gate
<1>4. ASSUME NEW c \in Calls, RecordStart(c) PROVE [Contract!Next]_(Contract!vars)
  <2>1. call[c].pc = "start" /\ "start" \in Faults /\ UNCHANGED body /\ Good(c)
    BY <1>4 DEF RecordStart, At, Faults, IInv
  <2>2. call[c].at <= Len(call[c].list)
    BY <2>1 DEF Good
  <2> QED BY <1>2, <1>4, <2>1, <2>2 DEF RecordStart
<1>5. ASSUME NEW c \in Calls, RecordEnd(c) PROVE [Contract!Next]_(Contract!vars)
  <2>1. call[c].pc = "end" /\ "action" \in Faults /\ "end" \in Faults /\ UNCHANGED body
        /\ Good(c)
    BY <1>5 DEF RecordEnd, At, Faults, IInv
  <2>2. call[c].at <= Len(call[c].list)
    BY <2>1 DEF Good
  <2> QED BY <1>2, <1>5, <2>1, <2>2 DEF RecordEnd
<1>6. ASSUME NEW c \in Calls, Pop(c) PROVE [Contract!Next]_(Contract!vars)
  <2> DEFINE o == call[c].override
  <2>1. call[c].pc = "pop" /\ UNCHANGED body /\ Good(c)
    BY <1>6 DEF Pop, At, IInv
  <2>2. CASE o # Body /\ call[c].phase = "entry"
    <3>1. Contract!Answer(c, "value", o)
      BY <1>1, <1>6, <2>1, <2>2 DEF Pop
    <3>2. body[c] = "not_run" /\ o \in Rules \ Exits
      BY <2>1, <2>2 DEF Good, EntryRules
    <3> QED BY <3>1, <3>2 DEF Contract!Preempt
  <2>3. CASE ~(o # Body /\ call[c].phase = "entry")
    BY <1>6, <2>3 DEF Pop
  <2> QED BY <2>2, <2>3
<1>7. ASSUME NEW c \in Calls, RunBody(c) PROVE Contract!Next
  <2>1. body[c] = "not_run" /\ answer[c] = <<"none", Body>>
    BY <1>7, AnswersOnce DEF RunBody, At
  <2>2. Contract!RunBody(c)
    BY <1>7, <2>1 DEF RunBody, Contract!RunBody, Contract!Open
  <2> QED BY <2>2
<1>8. ASSUME NEW c \in Calls, Conclude(c) PROVE Contract!Next
  <2>1. call[c].pc = "gate" /\ call[c].phase = "exit" /\ Good(c) /\ UNCHANGED body
        /\ body[c] \in {"not_run", "returned", "raised"}
    BY <1>0, <1>8 DEF Conclude, At, IInv, TypeOK
  <2>2. CASE body[c] = "raised"
    <3>1. Contract!Answer(c, "body", Body)
      BY <1>1, <1>8, <2>1, <2>2 DEF Conclude
    <3> QED BY <2>2, <3>1 DEF Contract!Reraise
  <2>3. CASE body[c] # "raised"
    <3>1. Contract!Answer(c, "value", call[c].result)
      BY <1>1, <1>8, <2>1, <2>3 DEF Conclude
    <3>2. body[c] = "returned" /\ call[c].result \in Exits \cup {Body}
      BY <2>1, <2>3 DEF Good
    <3> QED BY <3>1, <3>2 DEF Contract!Conclude
  <2> QED BY <2>2, <2>3
<1>9. ASSUME NEW c \in Calls,
             Arrive(c) \/ BeginEntries(c) \/ Act(c) \/ BeginBody(c) \/ BeginExits(c)
      PROVE  UNCHANGED <<body, answer>>
  BY <1>9 DEF Arrive, BeginEntries, Act, BeginBody, BeginExits
<1>10. ASSUME NEW r \in Rules, Extend(r) \/ Retract(r) PROVE UNCHANGED <<body, answer>>
  BY <1>10 DEF Extend, Retract, Rebinding
<1>11. CASE Republish \/ UNCHANGED vars
  BY <1>11 DEF Republish, vars
<1> QED BY <1>3, <1>4, <1>5, <1>6, <1>7, <1>8, <1>9, <1>10, <1>11 DEF Next, CallStep

\* _make_dispatcher keeps the contract of an instrumented call: the original
\* runs at most once, an entry rule that answers or raises keeps it from
\* running, an exit rule's failure is never turned into a value, and a value is
\* answered only for an original that returned or was replaced.
THEOREM CallsKeepContract == Spec => KeepsCallContract
<1>1. Init => Contract!Init
  BY DEF Init, Contract!Init, Contract!Open
<1> QED BY <1>1, Invariance, StepKeepsContract, PTL DEF Spec, KeepsCallContract, Contract!Spec

\* A failed action is what its caller sees, whatever the log then does (run_action
\* and _terminal), with any number of calls and rules.
THEOREM ActionErrorsReachTheCaller == Spec => []ActionErrorWins
<1>1. Init => ActionErrorWins
  BY DEF Init, ActionErrorWins
<1>2. IInv /\ ActionErrorWins /\ [Next]_vars => ActionErrorWins'
  <2> SUFFICES ASSUME IInv, ActionErrorWins, [Next]_vars PROVE ActionErrorWins'
    OBVIOUS
  <2>0. TypeOK
    BY DEF IInv
  <2>1. CASE UNCHANGED <<answer, ended, lost>>
    BY <2>1 DEF ActionErrorWins
  <2>2. ASSUME NEW c \in Calls, NEW what, NEW who, Reply(c, what, who), call[c].pc # "done",
               UNCHANGED <<ended, lost>>
        PROVE  ActionErrorWins'
    <3>1. answer[c] = <<"none", Body>>
      BY <2>2, AnswersOnce
    <3>2. ASSUME NEW a \in ended \cup lost, a[2] # "completed"
          PROVE  answer'[a[1][1]] = <<"action", a[1][2]>>
      <4>1. answer[a[1][1]] = <<"action", a[1][2]>>
        BY <3>2 DEF ActionErrorWins
      <4>2. a[1][1] # c
        BY <3>1, <4>1
      <4> QED BY <2>0, <2>2, <4>1, <4>2 DEF Reply, TypeOK
    <3> QED BY <2>2, <3>2 DEF ActionErrorWins
  <2>3. ASSUME NEW c \in Calls, RecordEnd(c) PROVE ActionErrorWins'
    <3> DEFINE at == <<<<c, Rule(c)>>, call[c].status>>
    <3>1. call[c].pc = "end" /\ ended' \cup lost' \subseteq ended \cup lost \cup {at}
      BY <2>3 DEF RecordEnd, At
    <3>2. answer[c] = <<"none", Body>>
      BY <3>1, AnswersOnce
    <3>3. call[c].status # "completed" => Reply(c, "action", Rule(c))
      BY <2>3 DEF RecordEnd
    <3>4. ASSUME NEW d \in Calls, d # c PROVE answer'[d] = answer[d]
      <4>1. answer' = answer \/ \E what : Reply(c, what, Rule(c))
        BY <2>3 DEF RecordEnd
      <4>2. answer \in [Calls -> Answers]
        BY <2>0 DEF TypeOK
      <4>3. answer' = answer \/ \E x : answer' = [answer EXCEPT ![c] = x]
        BY <4>1 DEF Reply
      <4>4. ASSUME NEW x, answer' = [answer EXCEPT ![c] = x] PROVE answer'[d] = answer[d]
        BY ONLY <3>4, <4>2, <4>4
      <4> QED BY <4>3, <4>4
    <3>5. ASSUME NEW a \in ended \cup lost, a[2] # "completed"
          PROVE  answer'[a[1][1]] = <<"action", a[1][2]>>
      <4>1. answer[a[1][1]] = <<"action", a[1][2]>>
        BY <3>5 DEF ActionErrorWins
      <4>2. a[1][1] # c
        BY <3>2, <4>1
      <4>3. a[1][1] \in Calls
        BY <2>0, <3>5 DEF TypeOK, Attempts
      <4> QED BY <3>4, <4>1, <4>2, <4>3
    <3>6. call[c].status # "completed" => answer'[c] = <<"action", Rule(c)>>
      BY <2>0, <3>3 DEF Reply, TypeOK
    <3> QED BY <3>1, <3>5, <3>6 DEF ActionErrorWins
  <2>4. ASSUME NEW c \in Calls, Gate(c) \/ RecordStart(c) \/ Pop(c) \/ Conclude(c)
        PROVE  ActionErrorWins'
    <3>1. call[c].pc # "done" /\ UNCHANGED <<ended, lost>>
      BY <2>4 DEF Gate, RecordStart, Pop, Conclude, At, logVars
    <3>2. UNCHANGED answer \/ \E what, who : Reply(c, what, who)
      BY <2>4 DEF Gate, RecordStart, Pop, Conclude
    <3> QED BY <2>1, <2>2, <3>1, <3>2
  <2>5. ASSUME NEW c \in Calls,
               \/ Arrive(c) \/ BeginEntries(c) \/ Act(c) \/ BeginBody(c)
               \/ RunBody(c) \/ BeginExits(c)
        PROVE  ActionErrorWins'
    BY <2>1, <2>5 DEF Arrive, BeginEntries, Act, BeginBody, RunBody, BeginExits, logVars
  <2>6. ASSUME NEW r \in Rules, Extend(r) \/ Retract(r) PROVE ActionErrorWins'
    BY <2>1, <2>6 DEF Extend, Retract, Rebinding, logVars
  <2>7. CASE Republish \/ UNCHANGED vars
    BY <2>1, <2>7 DEF Republish, vars, logVars
  <2> QED BY <2>3, <2>4, <2>5, <2>6, <2>7 DEF Next, CallStep
<1> QED BY <1>1, <1>2, Invariance, PTL DEF Spec

-----------------------------------------------------------------------------
\* The ruleset, as the calls see it.

\* In an increasing list what lies below a rule is a prefix.
LEMMA BelowIsPrefix ==
  ASSUME NEW S, S \subseteq Nat, NEW list \in Seq(S), NEW r \in S, Increasing(list)
  PROVE  \E k \in 0..Len(list) :
           /\ Cardinality({i \in 1..Len(list) : list[i] < r}) = k
           /\ \A i \in 1..Len(list) : list[i] < r <=> i <= k
<1> DEFINE below == {i \in 1..Len(list) : list[i] < r}
           k == Cardinality(below)
<1>1. Len(list) \in Nat /\ \A i \in 1..Len(list) : list[i] \in Nat
  <2>1. \A i \in 1..Len(list) : list[i] \in S
    BY ElementOfSeq
  <2>2. Len(list) \in Nat
    OBVIOUS
  <2> QED BY <2>1, <2>2
<1>2. IsFiniteSet(1..Len(list)) /\ Cardinality(1..Len(list)) = Len(list)
  BY <1>1, UpTo
<1>3. below \in SUBSET (1..Len(list))
  OBVIOUS
<1>4. IsFiniteSet(below) /\ k <= Len(list) /\ k \in Nat
  BY <1>2, <1>3, FS_Subset, FS_CardinalityType
<1>5. ASSUME NEW i \in 1..Len(list), list[i] < r PROVE i <= k
  <2>1. 1..i \in SUBSET below
    BY <1>1, <1>5 DEF Increasing
  <2>2. Cardinality(1..i) <= k
    BY <1>4, <2>1, FS_Subset
  <2>3. i \in Nat /\ Cardinality(1..i) = i
    BY <1>1, UpTo
  <2> QED BY <2>2, <2>3
<1>6. ASSUME NEW i \in 1..Len(list), ~(list[i] < r) PROVE i > k
  <2>1. \A j \in below : j < i
    <3> SUFFICES ASSUME NEW j \in below PROVE j < i
      OBVIOUS
    <3>1. j \in 1..Len(list) /\ list[j] < r
      OBVIOUS
    <3>2. CASE i < j
      <4>1. list[i] < list[j]
        BY <1>6, <3>1, <3>2 DEF Increasing
      <4>2. list[i] \in Nat /\ list[j] \in Nat /\ r \in Nat
        BY <1>1, <1>6, <3>1
      <4> QED BY <1>6, <3>1, <4>1, <4>2
    <3> QED BY <1>6, <3>1, <3>2
  <2>2. i - 1 \in Nat /\ below \in SUBSET (1..(i - 1))
    BY <1>1, <2>1
  <2>3. IsFiniteSet(1..(i - 1)) /\ Cardinality(1..(i - 1)) = i - 1
    BY <2>2, UpTo
  <2>4. k <= i - 1
    BY <2>2, <2>3, FS_Subset
  <2> QED BY <1>4, <2>2, <2>4
<1> HIDE DEF k, below
<1>7. k \in 0..Len(list) /\ \A i \in 1..Len(list) : list[i] < r <=> i <= k
  BY <1>1, <1>4, <1>5, <1>6
<1> QED BY <1>7 DEF k, below

\* An extension keeps the list in ruleset order, and adds its rule to it.
LEMMA MergedInOrder ==
  \A S \in SUBSET Nat : \A list \in Seq(S), r \in S :
    r \notin ToSet(list) /\ Increasing(list) =>
      /\ Increasing(Merged(list, r))
      /\ ToSet(Merged(list, r)) = ToSet(list) \cup {r}
<1> SUFFICES ASSUME NEW S \in SUBSET Nat, NEW list \in Seq(S), NEW r \in S,
                    r \notin ToSet(list), Increasing(list)
             PROVE  /\ Increasing(Merged(list, r))
                    /\ ToSet(Merged(list, r)) = ToSet(list) \cup {r}
  OBVIOUS
<1>1. PICK k \in 0..Len(list) :
        /\ Cardinality({i \in 1..Len(list) : list[i] < r}) = k
        /\ \A i \in 1..Len(list) : list[i] < r <=> i <= k
  BY BelowIsPrefix
<1> DEFINE m == InsertAt(list, 1 + k, r)
<1>2. Merged(list, r) = m
  BY <1>1 DEF Merged
<1>3. Len(list) \in Nat /\ 1 + k \in 1..(Len(list) + 1) /\ k \in Nat
  OBVIOUS
<1>4. /\ m \in Seq(S) /\ Len(m) = Len(list) + 1
      /\ \A i \in 1..(Len(list) + 1) :
           m[i] = IF i < 1 + k THEN list[i] ELSE IF i = 1 + k THEN r ELSE list[i - 1]
  <2> DEFINE p == 1 + k
  <2>1. p \in 1..(Len(list) + 1)
    BY <1>3
  <2> HIDE DEF p
  <2>2. /\ InsertAt(list, p, r) \in Seq(S)
        /\ Len(InsertAt(list, p, r)) = Len(list) + 1
        /\ \A i \in 1..(Len(list) + 1) : InsertAt(list, p, r)[i] =
             IF i < p THEN list[i] ELSE IF i = p THEN r ELSE list[i - 1]
    BY <2>1, InsertedAt
  <2> QED BY <2>2 DEF p
<1> HIDE DEF m
<1>5. \A i \in 1..Len(list) : list[i] \in Nat /\ list[i] # r
  <2>1. DOMAIN list = 1..Len(list)
    OBVIOUS
  <2>2. \A i \in 1..Len(list) : list[i] \in S
    BY ElementOfSeq
  <2> QED BY <2>1, <2>2 DEF ToSet
<1>6. r \in Nat
  OBVIOUS
<1>7. ASSUME NEW i \in 1..(Len(list) + 1), NEW j \in 1..(Len(list) + 1), i < j
      PROVE  m[i] < m[j]
  <2>1. CASE j < 1 + k
    <3>1. i \in 1..Len(list) /\ j \in 1..Len(list) /\ m[i] = list[i] /\ m[j] = list[j]
      BY <1>3, <1>4, <1>7, <2>1
    <3> QED BY <1>7, <3>1 DEF Increasing
  <2>2. CASE j = 1 + k
    <3>1. i \in 1..Len(list) /\ i <= k /\ m[i] = list[i] /\ m[j] = r
      BY <1>3, <1>4, <1>7, <2>2
    <3> QED BY <1>1, <3>1
  <2>3. CASE j > 1 + k /\ i = 1 + k
    <3>1. j - 1 \in 1..Len(list) /\ ~(j - 1 <= k) /\ m[i] = r /\ m[j] = list[j - 1]
      BY <1>3, <1>4, <1>7, <2>3
    <3>2. ~(list[j - 1] < r) /\ list[j - 1] # r /\ list[j - 1] \in Nat
      BY <1>1, <1>5, <3>1
    <3> QED BY <1>6, <3>1, <3>2
  <2>4. CASE j > 1 + k /\ i < 1 + k
    <3>1. j - 1 \in 1..Len(list) /\ ~(j - 1 <= k) /\ m[j] = list[j - 1]
      BY <1>3, <1>4, <1>7, <2>4
    <3>2. i \in 1..Len(list) /\ i <= k /\ m[i] = list[i] /\ i < j - 1
      BY <1>3, <1>4, <1>7, <2>4
    <3> QED BY <3>1, <3>2 DEF Increasing
  <2>5. CASE i > 1 + k
    <3>1. i - 1 \in 1..Len(list) /\ j - 1 \in 1..Len(list) /\ i - 1 < j - 1
          /\ m[i] = list[i - 1] /\ m[j] = list[j - 1]
      BY <1>3, <1>4, <1>7, <2>5
    <3> QED BY <3>1 DEF Increasing
  <2> QED BY <1>3, <2>1, <2>2, <2>3, <2>4, <2>5
<1>8. Increasing(m)
  BY <1>4, <1>7 DEF Increasing
<1>9. ToSet(m) = ToSet(list) \cup {r}
  <2>1. DOMAIN list = 1..Len(list) /\ DOMAIN m = 1..(Len(list) + 1)
    <3>1. \A s \in Seq(S) : DOMAIN s = 1..Len(s)
      OBVIOUS
    <3> QED BY <1>4, <3>1
  <2>2. ASSUME NEW i \in 1..(Len(list) + 1) PROVE m[i] \in ToSet(list) \cup {r}
    <3>1. i < 1 + k => i \in 1..Len(list)
      BY <1>3
    <3>2. i > 1 + k => i - 1 \in 1..Len(list)
      BY <1>3
    <3>3. m[i] = r \/ \E j \in 1..Len(list) : m[i] = list[j]
      BY <1>3, <1>4, <3>1, <3>2
    <3> QED BY <2>1, <3>3 DEF ToSet
  <2>3. ASSUME NEW i \in 1..Len(list) PROVE list[i] \in ToSet(m)
    <3>1. i \in 1..(Len(list) + 1) /\ i + 1 \in 1..(Len(list) + 1) /\ (i + 1) - 1 = i
      BY <1>3
    <3>2. i < 1 + k => list[i] = m[i]
      BY <1>4, <3>1
    <3>3. ~(i < 1 + k) => list[i] = m[i + 1]
      BY <1>3, <1>4, <3>1
    <3> QED BY <2>1, <3>1, <3>2, <3>3 DEF ToSet
  <2>4. r \in ToSet(m)
    <3>1. 1 + k \in 1..(Len(list) + 1) /\ m[1 + k] = r
      BY <1>3, <1>4
    <3> QED BY <2>1, <3>1 DEF ToSet
  <2> QED BY <2>1, <2>2, <2>3, <2>4 DEF ToSet
<1> QED BY <1>2, <1>8, <1>9

\* Its undoing takes nothing else away, and adds nothing.
LEMMA WithoutInOrder ==
  \A S \in SUBSET Nat : \A list \in Seq(S) : \A r \in ToSet(list) :
    Increasing(list) =>
      /\ Increasing(Without(list, r))
      /\ ToSet(list) \ {r} \subseteq ToSet(Without(list, r))
      /\ ToSet(Without(list, r)) \subseteq ToSet(list)
<1> SUFFICES ASSUME NEW S \in SUBSET Nat, NEW list \in Seq(S), NEW r \in ToSet(list),
                    Increasing(list)
             PROVE  /\ Increasing(Without(list, r))
                    /\ ToSet(list) \ {r} \subseteq ToSet(Without(list, r))
                    /\ ToSet(Without(list, r)) \subseteq ToSet(list)
  OBVIOUS
<1> DEFINE p == CHOOSE i \in 1..Len(list) : list[i] = r
           w == RemoveAt(list, p)
<1>1. Len(list) \in Nat /\ DOMAIN list = 1..Len(list)
  OBVIOUS
<1>2. p \in 1..Len(list) /\ list[p] = r
  BY <1>1 DEF ToSet
<1> HIDE DEF p
<1>3. /\ w \in Seq(S) /\ Len(w) = Len(list) - 1
      /\ \A i \in 1..(Len(list) - 1) : w[i] = IF i < p THEN list[i] ELSE list[i + 1]
  BY <1>2, RemovedAt
<1>4. Without(list, r) = w
  BY DEF Without, p
<1> HIDE DEF w
<1>5. Len(list) - 1 \in Nat /\ DOMAIN w = 1..(Len(list) - 1)
  <2>1. \A s \in Seq(S) : DOMAIN s = 1..Len(s)
    OBVIOUS
  <2> QED BY <1>1, <1>2, <1>3, <2>1
<1>6. Increasing(w)
  <2> SUFFICES ASSUME NEW i \in 1..(Len(list) - 1), NEW j \in 1..(Len(list) - 1), i < j
               PROVE  w[i] < w[j]
    BY <1>3 DEF Increasing
  <2>1. i \in 1..Len(list) /\ j \in 1..Len(list)
        /\ i + 1 \in 1..Len(list) /\ j + 1 \in 1..Len(list) /\ i < j + 1 /\ i + 1 < j + 1
    BY <1>1
  <2>2. /\ list[i] < list[j] /\ list[i] < list[j + 1] /\ list[i + 1] < list[j + 1]
    BY <2>1 DEF Increasing
  <2>3. i >= p => j >= p
    BY <1>1, <1>2, <2>1
  <2> QED BY <1>1, <1>2, <1>3, <2>1, <2>2, <2>3
<1>7. ASSUME NEW i \in 1..Len(list), list[i] # r PROVE list[i] \in ToSet(w)
  <2>1. CASE i < p
    <3>1. i \in 1..(Len(list) - 1)
      BY <1>1, <1>2, <2>1
    <3>2. w[i] = list[i]
      BY <1>3, <2>1, <3>1
    <3> QED BY <1>5, <3>1, <3>2 DEF ToSet
  <2>2. CASE i > p
    <3>1. i - 1 \in 1..(Len(list) - 1) /\ ~(i - 1 < p) /\ (i - 1) + 1 = i
      BY <1>1, <1>2, <2>2
    <3>2. w[i - 1] = list[i]
      BY <1>3, <3>1
    <3> QED BY <1>5, <3>1, <3>2 DEF ToSet
  <2> QED BY <1>1, <1>2, <1>7, <2>1, <2>2
<1>8. ASSUME NEW i \in 1..(Len(list) - 1) PROVE w[i] \in ToSet(list)
  <2>1. i \in 1..Len(list) /\ i + 1 \in 1..Len(list)
    BY <1>1
  <2> QED BY <1>1, <1>3, <2>1 DEF ToSet
<1> QED BY <1>1, <1>4, <1>5, <1>6, <1>7, <1>8 DEF ToSet

\* What a phase has asked is what its loop has passed, in order: the list it
\* took when it began, however often the dispatcher was extended since.
BoundOf(phase) == IF phase = "entry" THEN BoundEntries ELSE BoundExits

Gated(c) ==
  LET k == call[c]
      n == IF k.pc = "gate" THEN k.at - 1 ELSE k.at IN
  /\ Increasing(k.list)
  /\ asked[c]["entry"] \in Seq(EntryRules) /\ asked[c]["exit"] \in Seq(Exits)
  /\ Increasing(asked[c]["entry"]) /\ Increasing(asked[c]["exit"])
  /\ k.pc \in {"idle", "entries"} => asked[c]["entry"] = <<>>
  /\ k.phase = "entry" => asked[c]["exit"] = <<>>
  /\ k.pc \in {"gate", "start", "act", "end", "pop"} =>
       /\ n <= Len(k.list) /\ Len(asked[c][k.phase]) = n
       /\ \A i \in 1..n : asked[c][k.phase][i] = k.list[i]
       /\ k.phase = "entry" \/ ~coroutine => ToSet(BoundOf(k.phase)) \subseteq ToSet(k.list)
  /\ k.pc = "body" => ToSet(BoundEntries) \subseteq ToSet(asked[c]["entry"])
  /\ answer[c][1] \in {"value", "body"} /\ body[c] # "not_run" /\ ~coroutine =>
       ToSet(BoundExits) \subseteq ToSet(asked[c]["exit"])

Lists ==
  /\ Increasing(entries) /\ Increasing(exits)
  /\ ToSet(BoundEntries) \subseteq ToSet(entries)
  /\ ~coroutine => ToSet(BoundExits) \subseteq ToSet(exits)

GInv == Lists /\ \A c \in Calls : Gated(c)

\* An extension adds its rule to one list, and its undoing takes only it out.
LEMMA ExtendedLists ==
  ASSUME TypeOK, Lists, NEW r \in Rules, Extend(r)
  PROVE  /\ Lists'
         /\ \/ entries' = entries /\ ToSet(exits') = ToSet(exits) \cup {r}
            \/ exits' = exits /\ ToSet(entries') = ToSet(entries) \cup {r}
<1>1. /\ entries \in Seq(EntryRules) /\ exits \in Seq(Exits)
      /\ EntryRules \in SUBSET Nat /\ Exits \in SUBSET Nat
  BY RulesAssumption, ExitsAssumption DEF TypeOK, EntryRules
<1>2. r \notin ToSet(entries) /\ r \notin ToSet(exits) /\ UNCHANGED coroutine
  BY DEF Extend, Served, Rebinding
<1>3. Increasing(entries) /\ Increasing(exits)
  BY DEF Lists
<1>4. CASE r \in Exits
  <2>1. Increasing(Merged(exits, r)) /\ ToSet(Merged(exits, r)) = ToSet(exits) \cup {r}
    BY <1>1, <1>2, <1>3, <1>4, MergedInOrder
  <2>2. entries' = entries /\ exits' = Merged(exits, r)
    BY <1>4 DEF Extend
  <2> QED BY <1>2, <2>1, <2>2 DEF Lists
<1>5. CASE r \notin Exits
  <2>0. r \in EntryRules
    BY <1>5 DEF EntryRules
  <2>1. Increasing(Merged(entries, r)) /\ ToSet(Merged(entries, r)) = ToSet(entries) \cup {r}
    BY <1>1, <1>2, <1>3, <2>0, MergedInOrder
  <2>2. exits' = exits /\ entries' = Merged(entries, r)
    BY <1>5 DEF Extend
  <2> QED BY <1>2, <2>1, <2>2 DEF Lists
<1> QED BY <1>4, <1>5

LEMMA RetractedLists ==
  ASSUME TypeOK, Lists, NEW r \in Rules, Retract(r)
  PROVE  /\ Lists'
         /\ ToSet(entries') \subseteq ToSet(entries) /\ ToSet(exits') \subseteq ToSet(exits)
<1>1. /\ entries \in Seq(EntryRules) /\ exits \in Seq(Exits)
      /\ EntryRules \in SUBSET Nat /\ Exits \in SUBSET Nat
  BY RulesAssumption, ExitsAssumption DEF TypeOK, EntryRules
<1>2. /\ r \notin ToSet(BoundEntries) /\ r \notin ToSet(BoundExits)
      /\ r \in ToSet(entries) \/ r \in ToSet(exits)
      /\ UNCHANGED coroutine
  BY DEF Retract, Served, Bound, Rebinding
<1>3. Increasing(entries) /\ Increasing(exits)
  BY DEF Lists
<1>4. (\A x \in ToSet(entries) : x \notin Exits) /\ (\A x \in ToSet(exits) : x \in Exits)
  BY <1>1 DEF ToSet, EntryRules
<1>5. CASE r \in Exits
  <2>1. r \in ToSet(exits)
    BY <1>2, <1>4, <1>5
  <2>2. /\ Increasing(Without(exits, r))
        /\ ToSet(exits) \ {r} \subseteq ToSet(Without(exits, r))
        /\ ToSet(Without(exits, r)) \subseteq ToSet(exits)
    BY <1>1, <1>3, <2>1, WithoutInOrder
  <2>3. entries' = entries /\ exits' = Without(exits, r)
    BY <1>5 DEF Retract
  <2> QED BY <1>2, <2>2, <2>3 DEF Lists
<1>6. CASE r \notin Exits
  <2>1. r \in ToSet(entries)
    BY <1>2, <1>4, <1>6
  <2>2. /\ Increasing(Without(entries, r))
        /\ ToSet(entries) \ {r} \subseteq ToSet(Without(entries, r))
        /\ ToSet(Without(entries, r)) \subseteq ToSet(entries)
    BY <1>1, <1>3, <2>1, WithoutInOrder
  <2>3. exits' = exits /\ entries' = Without(entries, r)
    BY <1>6 DEF Retract
  <2> QED BY <1>2, <2>2, <2>3 DEF Lists
<1> QED BY <1>5, <1>6

\* A step of one call is no step of another.
LEMMA OthersStand ==
  ASSUME TypeOK, NEW c \in Calls, CallStep(c), NEW d \in Calls, d # c
  PROVE  /\ call'[d] = call[d] /\ body'[d] = body[d]
         /\ answer'[d] = answer[d] /\ asked'[d] = asked[d]
<1>1. \A what, who : Reply(c, what, who) => call'[d] = call[d] /\ answer'[d] = answer[d]
  BY DEF Reply, Goto, TypeOK
<1>2. CASE Arrive(c) \/ BeginEntries(c) \/ Act(c) \/ BeginBody(c) \/ BeginExits(c)
  BY <1>2 DEF Arrive, BeginEntries, Act, BeginBody, BeginExits, Goto, Outcome, TypeOK
<1>3. CASE Gate(c)
  BY <1>1, <1>3 DEF Gate, Goto, NextRule, TypeOK
<1>4. CASE RecordStart(c)
  BY <1>1, <1>4 DEF RecordStart, Goto, TypeOK
<1>5. CASE RecordEnd(c)
  BY <1>1, <1>5 DEF RecordEnd, Goto, TypeOK
<1>6. CASE Pop(c)
  BY <1>1, <1>6 DEF Pop, NextRule, TypeOK
<1>7. CASE RunBody(c)
  BY <1>7 DEF RunBody, Goto, TypeOK
<1>8. CASE Conclude(c)
  BY <1>1, <1>8 DEF Conclude, TypeOK
<1> QED BY <1>2, <1>3, <1>4, <1>5, <1>6, <1>7, <1>8 DEF CallStep

LEMMA EmptyList ==
  \A S : /\ <<>> \in Seq(S) /\ Len(<<>>) = 0 /\ ToSet(<<>>) = {} /\ Increasing(<<>>)
BY DEF ToSet, Increasing

LEMMA InitGated == Init => GInv
<1> SUFFICES ASSUME Init PROVE GInv
  OBVIOUS
<1>1. Lists
  BY EmptyList, BindingAssumption DEF Init, Lists
<1>2. ASSUME NEW c \in Calls PROVE Gated(c)
  <2>1. /\ call[c].pc = "idle" /\ call[c].phase = "entry" /\ call[c].list = <<>>
        /\ asked[c]["entry"] = <<>> /\ asked[c]["exit"] = <<>>
        /\ answer[c][1] = "none"
    BY <1>2 DEF Init, Phases
  <2> QED BY <2>1, EmptyList DEF Gated
<1> QED BY <1>1, <1>2 DEF GInv

\* A list of the length of another that agrees with it is as large.
LEMMA SameList ==
  ASSUME NEW S, NEW a \in Seq(S), NEW b \in Seq(S), Len(a) = Len(b),
         \A i \in 1..Len(b) : a[i] = b[i]
  PROVE  ToSet(a) = ToSet(b)
<1>1. DOMAIN a = 1..Len(a) /\ DOMAIN b = 1..Len(b)
  OBVIOUS
<1> QED BY <1>1 DEF ToSet

\* The next rule of an increasing list comes after all that was asked of it.
LEMMA AskedInOrder ==
  ASSUME NEW S, S \subseteq Nat, NEW list \in Seq(S), Increasing(list),
         NEW a \in Seq(S), NEW i \in 1..Len(list), Len(a) = i - 1,
         \A j \in 1..(i - 1) : a[j] = list[j]
  PROVE  /\ Append(a, list[i]) \in Seq(S) /\ Len(Append(a, list[i])) = i
         /\ \A j \in 1..i : Append(a, list[i])[j] = list[j]
         /\ Increasing(Append(a, list[i]))
         /\ ToSet(Append(a, list[i])) = ToSet(a) \cup {list[i]}
         /\ \A r \in ToSet(a) : r < list[i]
<1> DEFINE b == Append(a, list[i])
<1>1. Len(list) \in Nat /\ i \in Nat
  OBVIOUS
<1>2. list[i] \in S
  BY ElementOfSeq
<1>3. /\ b \in Seq(S) /\ Len(b) = i
      /\ \A j \in 1..(i - 1) : b[j] = list[j]
      /\ b[i] = list[i]
  <2>1. /\ b \in Seq(S) /\ Len(b) = Len(a) + 1
        /\ \A j \in 1..Len(a) : b[j] = a[j]
        /\ b[Len(a) + 1] = list[i]
    BY <1>2, AppendProperties
  <2>2. Len(a) + 1 = i
    BY <1>1
  <2> QED BY <2>1, <2>2
<1>4. DOMAIN a = 1..(i - 1) /\ DOMAIN b = 1..i
  <2>1. \A s \in Seq(S) : DOMAIN s = 1..Len(s)
    OBVIOUS
  <2> QED BY <1>3, <2>1
<1> HIDE DEF b
<1>5. \A j \in 1..i : b[j] = list[j] /\ j \in 1..Len(list)
  <2> SUFFICES ASSUME NEW j \in 1..i PROVE b[j] = list[j] /\ j \in 1..Len(list)
    OBVIOUS
  <2>1. j = i \/ j \in 1..(i - 1)
    BY <1>1
  <2> QED BY <1>1, <1>3, <2>1
<1>6. Increasing(b)
  BY <1>3, <1>5 DEF Increasing
<1>7. ToSet(b) = ToSet(a) \cup {list[i]}
  <2>1. 1..i = (1..(i - 1)) \cup {i}
    BY <1>1
  <2>2. \A j \in 1..(i - 1) : b[j] = a[j]
    BY <1>3
  <2> QED BY <1>3, <1>4, <2>1, <2>2 DEF ToSet
<1>8. \A r \in ToSet(a) : r < list[i]
  <2>1. \A j \in 1..(i - 1) : list[j] < list[i]
    BY <1>1 DEF Increasing
  <2> QED BY <1>4, <2>1 DEF ToSet
<1> QED BY <1>3, <1>5, <1>6, <1>7, <1>8 DEF b

\* The phase's list and what it asked, as lists of the phase's rules.
PhaseRules(phase) == IF phase = "entry" THEN EntryRules ELSE Exits

LEMMA PhaseTyped ==
  ASSUME IInv, NEW c \in Calls, Gated(c)
  PROVE  /\ call[c].phase \in Phases /\ call[c].at \in Nat \ {0}
         /\ call[c].list \in Seq(PhaseRules(call[c].phase))
         /\ asked[c][call[c].phase] \in Seq(PhaseRules(call[c].phase))
         /\ PhaseRules(call[c].phase) \subseteq Nat
         /\ Len(call[c].list) \in Nat
<1>1. Good(c) /\ call[c] \in Locals
  BY DEF IInv, TypeOK
<1>2. call[c].phase \in Phases /\ call[c].at \in Nat \ {0} /\ call[c].list \in Seq(Rules)
  BY <1>1 DEF Locals, Good
<1>3. Len(call[c].list) \in Nat
  BY <1>2
<1>4. EntryRules \subseteq Nat /\ Exits \subseteq Nat
  BY RulesAssumption, ExitsAssumption DEF EntryRules
<1> QED BY <1>1, <1>2, <1>3, <1>4 DEF Good, Gated, PhaseRules, Phases

\* Before a rule is gated, its phase has asked only what precedes it.
LEMMA NextToAsk ==
  ASSUME IInv, NEW c \in Calls, Gated(c), call[c].pc = "gate",
         call[c].at <= Len(call[c].list)
  PROVE  LET a == asked[c][call[c].phase]
             b == Append(a, Rule(c)) IN
         /\ b \in Seq(PhaseRules(call[c].phase)) /\ Len(b) = call[c].at
         /\ \A j \in 1..call[c].at : b[j] = call[c].list[j]
         /\ Increasing(b) /\ ToSet(b) = ToSet(a) \cup {Rule(c)}
         /\ \A r \in ToSet(a) : r < Rule(c)
<1> DEFINE k == call[c]  S == PhaseRules(k.phase)
<1>1. /\ k.list \in Seq(S) /\ asked[c][k.phase] \in Seq(S) /\ S \subseteq Nat
      /\ k.at \in 1..Len(k.list)
  BY PhaseTyped
<1>2. /\ Increasing(k.list) /\ Len(asked[c][k.phase]) = k.at - 1
      /\ \A j \in 1..(k.at - 1) : asked[c][k.phase][j] = k.list[j]
  BY DEF Gated
<1> HIDE DEF k, S
<1>3. LET a == asked[c][k.phase]
          b == Append(a, k.list[k.at]) IN
      /\ b \in Seq(S) /\ Len(b) = k.at
      /\ \A j \in 1..k.at : b[j] = k.list[j]
      /\ Increasing(b) /\ ToSet(b) = ToSet(a) \cup {k.list[k.at]}
      /\ \A r \in ToSet(a) : r < k.list[k.at]
  <2> DEFINE list == k.list  i == k.at  a == asked[c][k.phase]
  <2>1. /\ list \in Seq(S) /\ a \in Seq(S) /\ S \subseteq Nat /\ i \in 1..Len(list)
        /\ Increasing(list) /\ Len(a) = i - 1 /\ \A j \in 1..(i - 1) : a[j] = list[j]
    BY <1>1, <1>2
  <2> HIDE DEF list, i, a
  <2>2. /\ Append(a, list[i]) \in Seq(S) /\ Len(Append(a, list[i])) = i
        /\ \A j \in 1..i : Append(a, list[i])[j] = list[j]
        /\ Increasing(Append(a, list[i]))
        /\ ToSet(Append(a, list[i])) = ToSet(a) \cup {list[i]}
        /\ \A r \in ToSet(a) : r < list[i]
    BY <2>1, AskedInOrder
  <2> QED BY <2>2 DEF list, i, a
<1> QED BY <1>3 DEF k, S, Rule

\* Where a step of the three actions that have a choice takes the call.
LEMMA GateMoves ==
  ASSUME TypeOK, NEW c \in Calls, Gate(c)
  PROVE  /\ call'[c].list = call[c].list /\ call'[c].phase = call[c].phase
         /\ call'[c].override = call[c].override /\ call'[c].result = call[c].result
         /\ call'[c].awaits = call[c].awaits
         /\ \/ call'[c].pc = "start" /\ call'[c].at = call[c].at /\ UNCHANGED answer
            \/ call'[c].pc = "gate" /\ call'[c].at = call[c].at + 1 /\ UNCHANGED answer
            \/ call'[c].pc = "done" /\ answer'[c] = <<"gate", Rule(c)>>
<1>1. /\ call \in [Calls -> Locals] /\ call[c] \in Locals /\ answer \in [Calls -> Answers]
  BY DEF TypeOK
<1>2. CASE Goto(c, "start") /\ UNCHANGED answer
  BY <1>1, <1>2 DEF Goto, Locals
<1>3. CASE call' = NextRule(c) /\ UNCHANGED answer
  <2> DEFINE k == [call[c] EXCEPT !.pc = "gate", !.at = @ + 1]
  <2>1. call' = [call EXCEPT ![c] = k]
    BY <1>1, <1>3 DEF NextRule
  <2>2. call'[c] = k
    BY <1>1, <2>1
  <2> QED BY <1>1, <1>3, <2>2 DEF Locals
<1>4. CASE Reply(c, "gate", Rule(c))
  BY <1>1, <1>4 DEF Reply, Goto, Locals
<1> QED BY <1>2, <1>3, <1>4 DEF Gate

LEMMA ActMoves ==
  ASSUME TypeOK, NEW c \in Calls, Act(c)
  PROVE  /\ call'[c].list = call[c].list /\ call'[c].phase = call[c].phase
         /\ call'[c].at = call[c].at /\ call'[c].result = call[c].result
         /\ call'[c].awaits = call[c].awaits
         /\ \/ /\ call'[c].pc = "end" /\ call'[c].status = "completed" /\ ~killed'
               /\ call'[c].override =
                    IF Kind[Rule(c)] = "override" THEN Rule(c) ELSE call[c].override
            \/ /\ call'[c].pc = "end" /\ call'[c].status # "completed" /\ ~killed'
               /\ call'[c].override = call[c].override
            \/ UNCHANGED call /\ killed'
<1>1. call \in [Calls -> Locals] /\ call[c] \in Locals /\ ~killed
  BY DEF TypeOK, Act, At
<1>2. ASSUME NEW s, call' = Outcome(c, s)
      PROVE  /\ call'[c].list = call[c].list /\ call'[c].phase = call[c].phase
             /\ call'[c].at = call[c].at /\ call'[c].result = call[c].result
             /\ call'[c].awaits = call[c].awaits
             /\ call'[c].pc = "end" /\ call'[c].status = s
             /\ call'[c].override = call[c].override
  <2> DEFINE k == [call[c] EXCEPT !.pc = "end", !.status = s]
  <2>1. call'[c] = k
    BY <1>1, <1>2 DEF Outcome
  <2> QED BY <1>1, <2>1 DEF Locals
<1>3. ASSUME call' = [Outcome(c, "completed") EXCEPT ![c].override = Rule(c)]
      PROVE  /\ call'[c].list = call[c].list /\ call'[c].phase = call[c].phase
             /\ call'[c].at = call[c].at /\ call'[c].result = call[c].result
             /\ call'[c].awaits = call[c].awaits
             /\ call'[c].pc = "end" /\ call'[c].status = "completed"
             /\ call'[c].override = Rule(c)
  <2> DEFINE k == [call[c] EXCEPT !.pc = "end", !.status = "completed", !.override = Rule(c)]
  <2>1. call'[c] = k
    BY <1>1, <1>3 DEF Outcome
  <2> QED BY <1>1, <2>1 DEF Locals
<1>4. CASE /\ Kind[Rule(c)] \in {"override", "plain", "async"}
           /\ call' = IF Kind[Rule(c)] = "override"
                      THEN [Outcome(c, "completed") EXCEPT ![c].override = Rule(c)]
                      ELSE Outcome(c, "completed")
           /\ UNCHANGED killed
  BY <1>1, <1>2, <1>3, <1>4
<1>5. CASE /\ Kind[Rule(c)] \in {"raise", "plain"} /\ call' = Outcome(c, "raised")
           /\ UNCHANGED killed
  BY <1>1, <1>2, <1>5
<1>6. CASE call' = Outcome(c, "failed") /\ UNCHANGED killed
  BY <1>1, <1>2, <1>6
<1>7. CASE Kind[Rule(c)] = "kill" /\ killed' = TRUE /\ UNCHANGED call
  BY <1>7
<1> QED BY <1>4, <1>5, <1>6, <1>7 DEF Act

LEMMA PopMoves ==
  ASSUME TypeOK, NEW c \in Calls, Pop(c)
  PROVE  \/ /\ call[c].override # Body /\ call[c].phase = "entry"
            /\ Reply(c, "value", call[c].override)
         \/ /\ ~(call[c].override # Body /\ call[c].phase = "entry")
            /\ call'[c].pc = "gate" /\ call'[c].list = call[c].list
            /\ call'[c].phase = call[c].phase /\ call'[c].at = call[c].at + 1
            /\ call'[c].awaits = call[c].awaits
            /\ call'[c].result = IF call[c].override # Body /\ body[c] = "returned"
                                 THEN call[c].override ELSE call[c].result
            /\ UNCHANGED answer
<1> DEFINE o == call[c].override
<1>1. call \in [Calls -> Locals] /\ call[c] \in Locals
  BY DEF TypeOK
<1>2. CASE o # Body /\ call[c].phase = "entry"
  BY <1>2 DEF Pop
<1>3. CASE ~(o # Body /\ call[c].phase = "entry")
  <2> DEFINE res == IF o # Body /\ body[c] = "returned" THEN o ELSE call[c].result
             n == [call[c] EXCEPT !.pc = "gate", !.at = call[c].at + 1]
             k == [n EXCEPT !.override = Body, !.result = res]
  <2>1. NextRule(c) = [call EXCEPT ![c] = n]
    BY <1>1 DEF NextRule
  <2>2. n.result = call[c].result
    BY <1>1 DEF Locals
  <2>3. /\ k.pc = "gate" /\ k.list = call[c].list /\ k.phase = call[c].phase
        /\ k.at = call[c].at + 1 /\ k.awaits = call[c].awaits /\ k.result = res
    BY <1>1 DEF Locals
  <2>4. [call EXCEPT ![c] = n][c] = n
    BY <1>1
  <2> HIDE DEF n
  <2>5. call' = [[call EXCEPT ![c] = n] EXCEPT ![c] = k] /\ answer' = answer
    BY <1>3, <2>1, <2>2, <2>4 DEF Pop
  <2>6. call'[c] = k
    BY <1>1, <2>5
  <2> HIDE DEF k, res
  <2>7. /\ call'[c].pc = "gate" /\ call'[c].list = call[c].list
        /\ call'[c].phase = call[c].phase /\ call'[c].at = call[c].at + 1
        /\ call'[c].awaits = call[c].awaits /\ call'[c].result = res
    BY <2>3, <2>6
  <2> QED BY <1>3, <2>5, <2>7 DEF res
<1> QED BY <1>2, <1>3

\* Steps of a call keep what it has asked in step with its loop.
LEMMA CallsStayGated ==
  ASSUME IInv, GInv, NEW c \in Calls, CallStep(c)
  PROVE  Gated(c)'
<1> USE DEF compVars
<1>0. /\ Gated(c) /\ Good(c) /\ Lists /\ call \in [Calls -> Locals] /\ call[c] \in Locals
      /\ answer \in [Calls -> Answers] /\ asked \in [Calls -> [Phases -> Seq(Rules)]]
      /\ body \in [Calls -> {"not_run", "returned", "raised"}]
  BY DEF IInv, TypeOK, GInv
<1>1. ASSUME NEW what, NEW who, Reply(c, what, who), UNCHANGED <<asked, body, coroutine>>,
             /\ what \in {"value", "body"} /\ body[c] # "not_run" /\ ~coroutine =>
                  ToSet(BoundExits) \subseteq ToSet(asked[c]["exit"])
      PROVE  Gated(c)'
  <2>1. /\ call'[c].pc = "done" /\ call'[c].list = call[c].list
        /\ call'[c].phase = call[c].phase /\ answer'[c] = <<what, who>>
    BY <1>0, <1>1 DEF Reply, Goto
  <2> QED BY <1>0, <1>1, <2>1 DEF Gated
<1>2. CASE Arrive(c)
  <2>1. /\ call'[c].pc = "entries" /\ call'[c].list = call[c].list /\ call[c].pc = "idle"
        /\ call'[c].phase = call[c].phase /\ UNCHANGED <<answer, asked, body, coroutine>>
    BY <1>0, <1>2 DEF Arrive, At
  <2> QED BY <1>0, <2>1 DEF Gated
<1>3. CASE BeginEntries(c)
  <2>1. /\ call'[c].pc = "gate" /\ call'[c].list = entries /\ call[c].pc = "entries"
        /\ call'[c].phase = call[c].phase /\ call'[c].at = 1
        /\ UNCHANGED <<answer, asked, body, coroutine>>
    BY <1>0, <1>3 DEF BeginEntries, At
  <2>2. call[c].phase = "entry" /\ asked[c]["entry"] = <<>>
    BY <1>0, <2>1 DEF Gated, Good
  <2>3. Len(entries) \in Nat
    BY DEF IInv, TypeOK
  <2> QED BY <1>0, <2>1, <2>2, <2>3 DEF Gated, Lists, BoundOf
<1>4. CASE Gate(c)
  <2> DEFINE p == call[c].phase  i == call[c].at  b == Append(asked[c][p], Rule(c))
  <2>1. call[c].pc = "gate" /\ i <= Len(call[c].list) /\ UNCHANGED <<body, coroutine>>
    BY <1>4 DEF Gate, At
  <2>2. /\ b \in Seq(PhaseRules(p)) /\ Len(b) = i
        /\ \A j \in 1..i : b[j] = call[c].list[j]
        /\ Increasing(b)
    BY <1>0, <2>1, NextToAsk
  <2>3. p \in Phases /\ i \in Nat
    BY <1>0, PhaseTyped
  <2>4. asked'[c][p] = b /\ \A q \in Phases \ {p} : asked'[c][q] = asked[c][q]
    BY <1>0, <1>4, <2>3 DEF Gate
  <2>5. /\ call'[c].list = call[c].list /\ call'[c].phase = p
        /\ \/ call'[c].pc = "start" /\ call'[c].at = i /\ UNCHANGED answer
           \/ call'[c].pc = "gate" /\ call'[c].at = i + 1 /\ UNCHANGED answer
           \/ call'[c].pc = "done" /\ answer'[c] = <<"gate", Rule(c)>>
    BY <1>0, <1>4, GateMoves DEF IInv
  <2>6. answer'[c][1] \notin {"value", "body"}
    BY <1>0, <2>1, <2>5 DEF Good
  <2> HIDE DEF b, i
  <2>7. p = "entry" => b \in Seq(EntryRules)
    BY <2>2 DEF PhaseRules
  <2>8. p = "exit" => b \in Seq(Exits)
    BY <2>2 DEF PhaseRules
  <2>9. p = "entry" \/ p = "exit"
    BY <2>3 DEF Phases
  <2>10. /\ asked'[c]["entry"] \in Seq(EntryRules) /\ asked'[c]["exit"] \in Seq(Exits)
         /\ Increasing(asked'[c]["entry"]) /\ Increasing(asked'[c]["exit"])
         /\ p = "entry" => asked'[c]["exit"] = <<>>
    BY <1>0, <2>2, <2>4, <2>7, <2>8, <2>9 DEF Gated, Phases
  <2>11. p = "entry" \/ ~coroutine => ToSet(BoundOf(p)) \subseteq ToSet(call[c].list)
    BY <1>0, <2>1 DEF Gated
  <2>12. Increasing(call[c].list)
    BY <1>0 DEF Gated
  <2>13. (i + 1) - 1 = i
    BY <2>3
  <2> HIDE DEF p
  <2> QED BY <2>1, <2>2, <2>4, <2>5, <2>6, <2>10, <2>11, <2>12, <2>13 DEF Gated, i
<1>5. CASE RecordStart(c)
  <2>1. call[c].pc = "start" /\ UNCHANGED <<asked, body, coroutine>>
    BY <1>5 DEF RecordStart, At
  <2>2. CASE Goto(c, "act") /\ UNCHANGED answer
    <3>1. /\ call'[c].pc = "act" /\ call'[c].list = call[c].list
          /\ call'[c].phase = call[c].phase /\ call'[c].at = call[c].at
      BY <1>0, <2>2 DEF Goto
    <3> QED BY <1>0, <2>1, <2>2, <3>1 DEF Gated
  <2> QED BY <1>1, <1>5, <2>1, <2>2 DEF RecordStart
<1>6. CASE Act(c)
  <2>1. /\ call[c].pc = "act" /\ UNCHANGED <<answer, asked, body, coroutine>>
    BY <1>6 DEF Act, At
  <2>2. /\ call'[c].pc \in {"act", "end"} /\ call'[c].list = call[c].list
        /\ call'[c].phase = call[c].phase /\ call'[c].at = call[c].at
    BY <1>6, <2>1, ActMoves DEF IInv
  <2> QED BY <1>0, <2>1, <2>2 DEF Gated
<1>7. CASE RecordEnd(c)
  <2>1. call[c].pc = "end" /\ UNCHANGED <<asked, body, coroutine>>
    BY <1>7 DEF RecordEnd, At
  <2>2. CASE Goto(c, "pop") /\ UNCHANGED answer
    <3>1. /\ call'[c].pc = "pop" /\ call'[c].list = call[c].list
          /\ call'[c].phase = call[c].phase /\ call'[c].at = call[c].at
      BY <1>0, <2>2 DEF Goto
    <3> QED BY <1>0, <2>1, <2>2, <3>1 DEF Gated
  <2> QED BY <1>1, <1>7, <2>1, <2>2 DEF RecordEnd
<1>8. CASE Pop(c)
  <2>1. call[c].pc = "pop" /\ UNCHANGED <<asked, body, coroutine>>
    BY <1>8 DEF Pop, At
  <2>2. CASE /\ call[c].override # Body /\ call[c].phase = "entry"
             /\ Reply(c, "value", call[c].override)
    <3>1. body[c] = "not_run"
      BY <1>0, <2>1, <2>2 DEF Good
    <3> QED BY <1>1, <2>1, <2>2, <3>1
  <2>3. CASE ~(call[c].override # Body /\ call[c].phase = "entry")
    <3>1. /\ call'[c].pc = "gate" /\ call'[c].list = call[c].list
          /\ call'[c].phase = call[c].phase /\ call'[c].at = call[c].at + 1
          /\ UNCHANGED answer
      BY <1>8, <2>3, PopMoves DEF IInv
    <3>2. (call[c].at + 1) - 1 = call[c].at
      BY <1>0 DEF Locals
    <3> QED BY <1>0, <2>1, <3>1, <3>2 DEF Gated
  <2> QED BY <1>8, <2>2, <2>3 DEF Pop
<1>9. CASE BeginBody(c) \/ Conclude(c)
  <2> DEFINE p == call[c].phase
  <2>1. /\ call[c].pc = "gate" /\ call[c].at > Len(call[c].list)
        /\ UNCHANGED <<asked, body, coroutine>>
    BY <1>9 DEF BeginBody, Conclude, At
  <2>2. /\ p \in Phases /\ call[c].at \in Nat \ {0} /\ Len(call[c].list) \in Nat
        /\ call[c].list \in Seq(PhaseRules(p)) /\ asked[c][p] \in Seq(PhaseRules(p))
    BY <1>0, PhaseTyped
  <2>3. call[c].at - 1 = Len(call[c].list)
    BY <1>0, <2>1, <2>2 DEF Gated
  <2>4. /\ Len(asked[c][p]) = Len(call[c].list)
        /\ \A i \in 1..Len(call[c].list) : asked[c][p][i] = call[c].list[i]
    BY <1>0, <2>1, <2>3 DEF Gated
  <2>5. ToSet(asked[c][p]) = ToSet(call[c].list)
    BY <2>2, <2>4, SameList
  <2>6. p = "entry" \/ ~coroutine => ToSet(BoundOf(p)) \subseteq ToSet(asked[c][p])
    BY <1>0, <2>1, <2>5 DEF Gated
  <2>7. CASE BeginBody(c)
    <3>1. /\ call'[c].pc = "body" /\ call'[c].list = call[c].list
          /\ call'[c].phase = p /\ p = "entry" /\ UNCHANGED answer
      BY <1>0, <2>7 DEF BeginBody, Goto
    <3>2. ToSet(BoundEntries) \subseteq ToSet(asked[c]["entry"])
      BY <2>6, <3>1 DEF BoundOf
    <3> QED BY <1>0, <2>1, <3>1, <3>2 DEF Gated
  <2>8. CASE Conclude(c)
    <3>1. p = "exit"
      BY <2>8 DEF Conclude
    <3>2. ~coroutine => ToSet(BoundExits) \subseteq ToSet(asked[c]["exit"])
      BY <2>6, <3>1 DEF BoundOf
    <3> QED BY <1>1, <2>1, <2>8, <3>2 DEF Conclude
  <2> QED BY <1>9, <2>7, <2>8
<1>10. CASE RunBody(c)
  <2>1. /\ call[c].pc = "body" /\ call'[c].pc = "exits" /\ call'[c].list = call[c].list
        /\ call'[c].phase = call[c].phase /\ UNCHANGED <<answer, asked, coroutine>>
    BY <1>0, <1>10 DEF RunBody, Goto, At
  <2>2. answer[c][1] = "none"
    BY <1>0, <2>1 DEF Good
  <2> QED BY <1>0, <2>1, <2>2 DEF Gated
<1>11. CASE BeginExits(c)
  <2> DEFINE l == IF coroutine THEN <<>> ELSE exits
  <2>1. /\ call[c].pc = "exits" /\ call'[c].pc = "gate" /\ call'[c].phase = "exit"
        /\ call'[c].list = l /\ call'[c].at = 1
        /\ UNCHANGED <<answer, asked, body, coroutine>>
    BY <1>0, <1>11 DEF BeginExits, At
  <2>2. asked[c]["exit"] = <<>> /\ answer[c][1] = "none"
    BY <1>0, <2>1 DEF Gated, Good
  <2>3. Increasing(l) /\ Len(l) \in Nat
    BY <1>0, EmptyList DEF Lists, IInv, TypeOK
  <2>4. ~coroutine => ToSet(BoundExits) \subseteq ToSet(l)
    BY <1>0 DEF Lists
  <2>5. Len(asked[c]["exit"]) = 0
    BY <2>2, EmptyList
  <2> HIDE DEF l
  <2> QED BY <1>0, <2>1, <2>2, <2>3, <2>4, <2>5 DEF Gated, BoundOf
<1> QED BY <1>2, <1>3, <1>4, <1>5, <1>6, <1>7, <1>8, <1>9, <1>10, <1>11 DEF CallStep

LEMMA StepKeepsGated == IInv /\ GInv /\ [Next]_vars => GInv'
<1> SUFFICES ASSUME IInv, GInv, [Next]_vars PROVE GInv'
  OBVIOUS
<1>0. TypeOK /\ Lists
  BY DEF IInv, GInv
<1>1. ASSUME NEW c \in Calls, CallStep(c) PROVE GInv'
  <2>1. UNCHANGED <<coroutine, entries, exits>>
    BY <1>1 DEF CallStep, Arrive, BeginEntries, Gate, RecordStart, Act, RecordEnd, Pop,
                BeginBody, RunBody, BeginExits, Conclude, compVars
  <2>2. Lists'
    BY <1>0, <2>1 DEF Lists
  <2>3. ASSUME NEW d \in Calls, d # c PROVE Gated(d)'
    <3>1. /\ call'[d] = call[d] /\ body'[d] = body[d]
          /\ answer'[d] = answer[d] /\ asked'[d] = asked[d]
      BY <1>0, <1>1, <2>3, OthersStand
    <3>2. Gated(d)
      BY DEF GInv
    <3> QED BY <2>1, <3>1, <3>2 DEF Gated
  <2>4. Gated(c)'
    BY <1>1, CallsStayGated
  <2> QED BY <2>2, <2>3, <2>4 DEF GInv
<1>2. ASSUME UNCHANGED <<call, body, answer, asked, coroutine>>, Lists' PROVE GInv'
  BY <1>2 DEF GInv, Gated
<1>3. ASSUME NEW r \in Rules, Extend(r) PROVE GInv'
  BY <1>0, <1>2, <1>3, ExtendedLists DEF Extend, Rebinding
<1>4. ASSUME NEW r \in Rules, Retract(r) PROVE GInv'
  BY <1>0, <1>2, <1>4, RetractedLists DEF Retract, Rebinding
<1>5. CASE Republish
  BY <1>0, <1>2, <1>5 DEF Republish, Lists
<1>6. CASE UNCHANGED vars
  BY <1>0, <1>2, <1>6 DEF vars, compVars, Lists
<1> QED BY <1>1, <1>3, <1>4, <1>5, <1>6 DEF Next

LEMMA GatedInvariance == Spec => [](IInv /\ GInv)
<1> QED BY InitGated, StepKeepsGated, Invariance, PTL DEF Spec

\* comp.entries and comp.exits are rebound, never changed in place: a call serves
\* a consistent view of the ruleset however often, and on whatever thread, its
\* dispatcher is extended under it.
THEOREM RulesetIsAlwaysServed == Spec => []RulesetIsServed
<1>1. GInv => RulesetIsServed
  BY DEF GInv, Gated, RulesetIsServed, Phases
<1> QED BY <1>1, GatedInvariance, PTL

-----------------------------------------------------------------------------
\* The firing log, as the calls leave it.
Asked(c) == ToSet(asked[c]["entry"]) \cup ToSet(asked[c]["exit"])
Terminals == ended \cup lost
Settled(c, r) == \E s \in Statuses : <<<<c, r>>, s>> \in Terminals

\* A rule asked is recorded at most once; what is recorded and not settled is
\* the attempt in hand, or the log failed on it.
Logged(c) ==
  LET k == call[c]  attempt == <<c, Rule(c)>> IN
  /\ \A r \in Rules : <<c, r>> \in started =>
       /\ r \in Asked(c)
       /\ \/ Settled(c, r)
          \/ k.pc \in {"act", "end"} /\ r = Rule(c)
          \/ answer[c] = <<"start", r>>
  /\ k.pc = "start" => attempt \notin started
  /\ k.pc = "act" => attempt \in started /\ (~killed => attempt \notin ran)
  /\ k.pc \in {"act", "end"} => ~Settled(c, Rule(c))
  /\ k.pc \in {"end", "pop"} => attempt \in ran
  /\ answer[c][1] = "action" =>
       \E s \in Statuses \ {"completed"} : <<<<c, answer[c][2]>>, s>> \in Terminals

Records ==
  /\ ran \subseteq started
  /\ \A a, b \in Terminals : a[1] = b[1] => a = b
  /\ \A a \in Terminals : a[1] \in ran

LInv == Records /\ \A c \in Calls : Logged(c)

LEMMA InitLogged == Init => LInv
<1> SUFFICES ASSUME Init PROVE LInv
  OBVIOUS
<1>1. Records
  BY DEF Init, Records, Terminals
<1>2. ASSUME NEW c \in Calls PROVE Logged(c)
  <2>1. call[c].pc = "idle" /\ answer[c][1] = "none" /\ started = {}
    BY <1>2 DEF Init
  <2> QED BY <2>1 DEF Logged
<1> QED BY <1>1, <1>2 DEF LInv

\* A call writes records of its own attempts only.
LEMMA OthersRecords ==
  ASSUME NEW c \in Calls, CallStep(c), NEW d \in Calls, d # c
  PROVE  /\ \A r : <<d, r>> \in started' <=> <<d, r>> \in started
         /\ \A r : <<d, r>> \in ran' <=> <<d, r>> \in ran
         /\ \A r, s : <<<<d, r>>, s>> \in Terminals' <=> <<<<d, r>>, s>> \in Terminals
<1> USE DEF logVars, Terminals
<1>1. CASE \/ Arrive(c) \/ BeginEntries(c) \/ Gate(c) \/ Pop(c) \/ BeginBody(c)
           \/ RunBody(c) \/ BeginExits(c) \/ Conclude(c)
  BY <1>1 DEF Arrive, BeginEntries, Gate, Pop, BeginBody, RunBody, BeginExits, Conclude
<1>2. CASE RecordStart(c)
  BY <1>2 DEF RecordStart
<1>3. CASE Act(c)
  BY <1>3 DEF Act
<1>4. CASE RecordEnd(c)
  BY <1>4 DEF RecordEnd
<1> QED BY <1>1, <1>2, <1>3, <1>4 DEF CallStep

\* A rule the loop comes to is asked for the first time.
LEMMA NextIsNew ==
  ASSUME IInv, NEW c \in Calls, Gated(c), call[c].pc = "gate",
         call[c].at <= Len(call[c].list)
  PROVE  Rule(c) \notin Asked(c)
<1> DEFINE p == call[c].phase
<1>1. p \in Phases /\ PhaseRules(p) \subseteq Nat
      /\ asked[c][p] \in Seq(PhaseRules(p))
  BY PhaseTyped
<1>2. \A r \in ToSet(asked[c][p]) : r < Rule(c)
  BY NextToAsk
<1>3. /\ Rule(c) \in Rules /\ (p = "entry" => Rule(c) \in EntryRules)
      /\ (p = "exit" => Rule(c) \in Exits)
  BY RuleOfPhase
<1>4. Rule(c) \in Nat /\ ~(Rule(c) < Rule(c))
  <2>1. Rule(c) \in Nat
    BY <1>3, RulesAssumption
  <2>2. \A n \in Nat : ~(n < n)
    OBVIOUS
  <2> QED BY <2>1, <2>2
<1>5. \A r \in ToSet(asked[c]["entry"]) : r \in EntryRules
  <2>1. asked[c]["entry"] \in Seq(EntryRules)
    BY DEF Gated
  <2> QED BY <2>1 DEF ToSet
<1>6. \A r \in ToSet(asked[c]["exit"]) : r \in Exits
  <2>1. asked[c]["exit"] \in Seq(Exits)
    BY DEF Gated
  <2> QED BY <2>1 DEF ToSet
<1> QED BY <1>1, <1>2, <1>3, <1>4, <1>5, <1>6 DEF Asked, Phases, EntryRules

\* Asking a rule adds it to what was asked.
LEMMA GateAsks ==
  ASSUME IInv, NEW c \in Calls, Gated(c), Gate(c)
  PROVE  Asked(c)' = Asked(c) \cup {Rule(c)}
<1> DEFINE p == call[c].phase
<1>1. /\ p \in Phases /\ asked \in [Calls -> [Phases -> Seq(Rules)]]
      /\ call[c].pc = "gate" /\ call[c].at <= Len(call[c].list)
  BY PhaseTyped DEF IInv, TypeOK, Gate, At
<1>2. ToSet(Append(asked[c][p], Rule(c))) = ToSet(asked[c][p]) \cup {Rule(c)}
  BY <1>1, NextToAsk
<1>3. asked'[c][p] = Append(asked[c][p], Rule(c))
      /\ \A q \in Phases \ {p} : asked'[c][q] = asked[c][q]
  BY <1>1 DEF Gate
<1> HIDE DEF p
<1> QED BY <1>1, <1>2, <1>3 DEF Asked, Phases

\* What a call's step that leaves the log alone needs to keep it in agreement.
LEMMA LogStands ==
  ASSUME NEW c \in Calls, Logged(c), UNCHANGED <<started, ended, lost, ran, killed>>,
         Asked(c) \subseteq Asked(c)',
         answer' = answer \/ (answer[c][1] = "none" /\ answer'[c][1] # "action"),
         call[c].pc \notin {"act", "end"}, call'[c].pc \notin {"act", "end", "pop"},
         call'[c].pc = "start" => <<c, Rule(c)'>> \notin started
  PROVE  Logged(c)'
<1>1. \A r : Settled(c, r)' <=> Settled(c, r)
  BY DEF Settled, Terminals
<1>2. ASSUME NEW r \in Rules, <<c, r>> \in started'
      PROVE  r \in Asked(c)' /\ (Settled(c, r)' \/ answer'[c] = <<"start", r>>)
  <2>1. r \in Asked(c) /\ (Settled(c, r) \/ answer[c] = <<"start", r>>)
    BY <1>2 DEF Logged
  <2> QED BY <1>1, <2>1
<1>3. answer'[c][1] = "action" =>
        \E s \in Statuses \ {"completed"} : <<<<c, answer'[c][2]>>, s>> \in Terminals'
  BY DEF Logged, Terminals
<1> QED BY <1>2, <1>3 DEF Logged

LEMMA CallsStayLogged ==
  ASSUME IInv, GInv, LInv, NEW c \in Calls, CallStep(c)
  PROVE  Records' /\ Logged(c)'
<1> USE DEF logVars
<1>0. /\ TypeOK /\ Gated(c) /\ Good(c) /\ Logged(c) /\ Records
      /\ call \in [Calls -> Locals] /\ call[c] \in Locals /\ answer \in [Calls -> Answers]
  BY DEF IInv, TypeOK, GInv, LInv
<1>1. ASSUME UNCHANGED <<started, ended, lost, ran>> PROVE Records'
  BY <1>0, <1>1 DEF Records, Terminals
<1>2. CASE \/ Arrive(c) \/ BeginEntries(c) \/ BeginBody(c) \/ RunBody(c) \/ BeginExits(c)
           \/ Conclude(c)
  <2>1. UNCHANGED <<started, ended, lost, ran, killed, asked>>
    BY <1>2 DEF Arrive, BeginEntries, BeginBody, RunBody, BeginExits, Conclude
  <2>2. /\ call[c].pc \in {"idle", "entries", "gate", "body", "exits"}
        /\ call'[c].pc \in {"entries", "gate", "body", "exits", "done"}
        /\ answer' = answer \/ answer'[c][1] \in {"value", "body"}
    <3>1. CASE Arrive(c)
      BY <1>0, <3>1 DEF Arrive, At
    <3>2. CASE BeginEntries(c)
      BY <1>0, <3>2 DEF BeginEntries, At
    <3>3. CASE BeginExits(c)
      BY <1>0, <3>3 DEF BeginExits, At
    <3>4. CASE BeginBody(c)
      BY <1>0, <3>4 DEF BeginBody, At, Goto
    <3>5. CASE RunBody(c)
      BY <1>0, <3>5 DEF RunBody, At, Goto
    <3>6. CASE Conclude(c)
      <4>1. \A what, who : Reply(c, what, who) =>
              call'[c].pc = "done" /\ answer'[c] = <<what, who>>
        BY <1>0 DEF Reply, Goto
      <4>2. call[c].pc = "gate" /\ call'[c].pc = "done"
            /\ answer'[c][1] \in {"body", "value"}
        BY <3>6, <4>1 DEF Conclude, At
      <4> QED BY <4>2
    <3> QED BY <1>2, <3>1, <3>2, <3>3, <3>4, <3>5, <3>6
  <2>3. answer[c][1] = "none"
    BY <1>0, <2>2 DEF Good
  <2>4. Asked(c) \subseteq Asked(c)'
    BY <2>1 DEF Asked
  <2> QED BY <1>0, <1>1, <2>1, <2>2, <2>3, <2>4, LogStands
<1>3. CASE Gate(c)
  <2>1. /\ UNCHANGED <<started, ended, lost, ran, killed>>
        /\ call[c].pc = "gate" /\ call[c].at <= Len(call[c].list)
    BY <1>3 DEF Gate, At
  <2>2. Asked(c)' = Asked(c) \cup {Rule(c)} /\ Rule(c) \notin Asked(c)
    BY <1>0, <1>3, <2>1, GateAsks, NextIsNew
  <2>3. /\ call'[c].pc \in {"start", "gate", "done"}
        /\ answer' = answer \/ answer'[c][1] = "gate"
        /\ call'[c].pc = "start" => Rule(c)' = Rule(c)
    BY <1>0, <1>3, GateMoves DEF Rule
  <2>4. answer[c][1] = "none"
    BY <1>0, <2>1 DEF Good
  <2>5. Rule(c) \in Rules
    BY <2>1, RuleOfPhase
  <2>6. <<c, Rule(c)>> \notin started
    BY <1>0, <2>2, <2>5 DEF Logged
  <2> QED BY <1>0, <1>1, <2>1, <2>2, <2>3, <2>4, <2>6, LogStands
<1>4. CASE Pop(c)
  <2>1. UNCHANGED <<started, ended, lost, ran, killed, asked>> /\ call[c].pc = "pop"
    BY <1>4 DEF Pop, At
  <2>2. /\ call'[c].pc \in {"gate", "done"}
        /\ answer' = answer \/ answer'[c][1] = "value"
    <3>1. CASE Reply(c, "value", call[c].override)
      BY <1>0, <3>1 DEF Reply, Goto
    <3> QED BY <1>0, <1>4, <3>1, PopMoves
  <2>3. answer[c][1] = "none"
    BY <1>0, <2>1 DEF Good
  <2>4. Asked(c) \subseteq Asked(c)'
    BY <2>1 DEF Asked
  <2> QED BY <1>0, <1>1, <2>1, <2>2, <2>3, <2>4, LogStands
<1>5. CASE RecordStart(c)
  <2> DEFINE r == Rule(c)
  <2>1. /\ call[c].pc = "start" /\ UNCHANGED <<ended, lost, ran, killed, asked>>
        /\ started' \in {started, started \cup {<<c, r>>}}
    BY <1>5 DEF RecordStart, At
  <2>2. answer[c] = <<"none", Body>> /\ call[c].at <= Len(call[c].list)
    BY <1>0, <2>1 DEF Good
  <2>3. r \in Rules
    BY <2>2, RuleOfPhase
  <2>4. <<c, r>> \notin started
    BY <1>0, <2>1 DEF Logged
  <2>5. <<c, r>> \notin ran /\ ~Settled(c, r)
    BY <1>0, <2>4 DEF Records, Settled
  <2>6. \A x : Settled(c, x)' <=> Settled(c, x)
    BY <2>1 DEF Settled, Terminals
  <2>7. Records'
    BY <1>0, <2>1 DEF Records, Terminals
  <2>8. r \in Asked(c)
    <3> DEFINE p == call[c].phase  i == call[c].at
    <3>1. /\ p \in Phases /\ i \in 1..Len(call[c].list)
          /\ asked[c][p] \in Seq(PhaseRules(p))
      BY <1>0, <2>2, PhaseTyped
    <3>2. Len(asked[c][p]) = i /\ asked[c][p][i] = r
      BY <1>0, <2>1, <3>1 DEF Gated, Rule
    <3>3. DOMAIN asked[c][p] = 1..Len(asked[c][p])
      BY <3>1
    <3>4. r \in ToSet(asked[c][p])
      BY <3>1, <3>2, <3>3 DEF ToSet
    <3> QED BY <3>1, <3>4 DEF Asked, Phases
  <2>9. \A x \in Rules \ {r} : <<c, x>> \in started' => x \in Asked(c) /\ Settled(c, x)
    BY <1>0, <2>1, <2>2 DEF Logged
  <2>10. Asked(c)' = Asked(c)
    BY <2>1 DEF Asked
  <2>11. CASE started' = started \cup {<<c, r>>} /\ Goto(c, "act") /\ UNCHANGED answer
    <3>1. call'[c].pc = "act" /\ Rule(c)' = r
      BY <1>0, <2>11 DEF Goto, Rule
    <3> HIDE DEF r
    <3> QED BY <2>1, <2>2, <2>5, <2>6, <2>7, <2>8, <2>9, <2>10, <2>11, <3>1 DEF Logged
  <2>12. CASE Reply(c, "start", r)
    <3>1. call'[c].pc = "done" /\ answer'[c] = <<"start", r>>
      BY <1>0, <2>12 DEF Reply, Goto
    <3> HIDE DEF r
    <3> QED BY <2>1, <2>6, <2>7, <2>8, <2>9, <2>10, <3>1 DEF Logged
  <2> QED BY <1>5, <2>11, <2>12 DEF RecordStart
<1>6. CASE Act(c)
  <2> DEFINE r == Rule(c)
  <2>1. /\ call[c].pc = "act" /\ UNCHANGED <<started, ended, lost, asked, answer>>
        /\ ran' = ran \cup {<<c, r>>}
    BY <1>6 DEF Act, At
  <2>2. answer[c] = <<"none", Body>>
    BY <1>0, <2>1 DEF Good
  <2>3. <<c, r>> \in started /\ ~Settled(c, r)
    BY <1>0, <2>1 DEF Logged
  <2>4. Records'
    BY <1>0, <2>1, <2>3 DEF Records, Terminals
  <2>5. \A x : Settled(c, x)' <=> Settled(c, x)
    BY <2>1 DEF Settled, Terminals
  <2>6. \/ call'[c].pc = "end"
        \/ call'[c].pc = "act" /\ killed'
    BY <1>0, <1>6, <2>1, ActMoves
  <2>7. Rule(c)' = r
    BY <1>0, <1>6, ActMoves DEF Rule
  <2>8. Asked(c)' = Asked(c)
    BY <2>1 DEF Asked
  <2>9. \A x \in Rules : <<c, x>> \in started => x \in Asked(c) /\ (Settled(c, x) \/ x = r)
    BY <1>0, <2>1, <2>2 DEF Logged
  <2> HIDE DEF r
  <2> QED BY <2>1, <2>2, <2>3, <2>4, <2>5, <2>6, <2>7, <2>8, <2>9 DEF Logged
<1>7. CASE RecordEnd(c)
  <2>0. PICK r : r = Rule(c)
    OBVIOUS
  <2>a. PICK attempt : attempt = <<<<c, r>>, call[c].status>>
    OBVIOUS
  <2>1. /\ call[c].pc = "end" /\ UNCHANGED <<started, ran, killed, asked>>
        /\ Terminals' = Terminals \cup {attempt}
    BY <1>7, <2>0, <2>a DEF RecordEnd, At, Terminals
  <2>2. answer[c] = <<"none", Body>> /\ call[c].status \in Statuses
    BY <1>0, <2>1 DEF Good, Locals
  <2>3. <<c, r>> \in ran /\ ~Settled(c, r)
    BY <1>0, <2>0, <2>1 DEF Logged
  <2>4. \A a \in Terminals : a[1] # <<c, r>>
    <3> SUFFICES ASSUME NEW a \in Terminals, a[1] = <<c, r>> PROVE FALSE
      OBVIOUS
    <3>1. a = <<a[1], a[2]>> /\ a[2] \in Statuses
      BY <1>0 DEF Terminals, TypeOK
    <3> QED BY <2>3, <3>1 DEF Settled
  <2>5. attempt[1] = <<c, r>>
    BY <2>a
  <2>6. Records'
    BY <1>0, <2>1, <2>3, <2>4, <2>5 DEF Records
  <2>7. Settled(c, r)' /\ \A x : Settled(c, x) => Settled(c, x)'
    <3>1. Settled(c, r)'
      <4>1. <<<<c, r>>, call[c].status>> \in Terminals'
        BY <2>1, <2>a
      <4> QED BY <2>2, <4>1 DEF Settled
    <3>2. ASSUME NEW x, Settled(c, x) PROVE Settled(c, x)'
      BY <2>1, <3>2 DEF Settled
    <3> QED BY <3>1, <3>2
  <2>8. Asked(c)' = Asked(c)
    BY <2>1 DEF Asked
  <2>9. \A x \in Rules : <<c, x>> \in started' => x \in Asked(c)' /\ Settled(c, x)'
    <3> SUFFICES ASSUME NEW x \in Rules, <<c, x>> \in started
                 PROVE  x \in Asked(c) /\ Settled(c, x)'
      BY <2>1, <2>8
    <3>1. x \in Asked(c) /\ (Settled(c, x) \/ x = r)
      BY <1>0, <2>0, <2>2 DEF Logged
    <3> QED BY <2>7, <3>1
  <2>10. CASE Reply(c, "action", r) /\ call[c].status # "completed"
    <3>1. call'[c].pc = "done" /\ answer'[c] = <<"action", r>>
      BY <1>0, <2>10 DEF Reply, Goto
    <3>2. <<<<c, r>>, call[c].status>> \in Terminals'
      BY <2>1, <2>a
    <3>3. call[c].status \in Statuses \ {"completed"}
      BY <2>2, <2>10
    <3> QED BY <2>6, <2>9, <3>1, <3>2, <3>3 DEF Logged
  <2>11. CASE Reply(c, "end", r)
    <3>1. call'[c].pc = "done" /\ answer'[c] = <<"end", r>>
      BY <1>0, <2>11 DEF Reply, Goto
    <3> QED BY <2>6, <2>9, <3>1 DEF Logged
  <2>12. CASE Goto(c, "pop") /\ UNCHANGED answer
    <3>1. call'[c].pc = "pop" /\ Rule(c)' = r
      BY <1>0, <2>0, <2>12 DEF Goto, Rule
    <3> QED BY <2>1, <2>2, <2>3, <2>6, <2>9, <2>12, <3>1 DEF Logged
  <2> QED BY <1>7, <2>0, <2>10, <2>11, <2>12 DEF RecordEnd
<1> QED BY <1>2, <1>3, <1>4, <1>5, <1>6, <1>7 DEF CallStep

LEMMA StepKeepsLogged == IInv /\ GInv /\ LInv /\ [Next]_vars => LInv'
<1> SUFFICES ASSUME IInv, GInv, LInv, [Next]_vars PROVE LInv'
  OBVIOUS
<1>1. ASSUME NEW c \in Calls, CallStep(c) PROVE LInv'
  <2>1. Records' /\ Logged(c)'
    BY <1>1, CallsStayLogged
  <2>2. ASSUME NEW d \in Calls, d # c PROVE Logged(d)'
    <3>1. /\ call'[d] = call[d] /\ answer'[d] = answer[d] /\ asked'[d] = asked[d]
      BY <1>1, <2>2, OthersStand DEF IInv
    <3>2. /\ \A r : <<d, r>> \in started' <=> <<d, r>> \in started
          /\ \A r : <<d, r>> \in ran' <=> <<d, r>> \in ran
          /\ \A r, s : <<<<d, r>>, s>> \in Terminals' <=> <<<<d, r>>, s>> \in Terminals
      BY <1>1, <2>2, OthersRecords
    <3>3. Logged(d) /\ ~killed
      BY <1>1 DEF LInv, CallStep, Arrive, BeginEntries, Gate, RecordStart, Act, RecordEnd,
                  Pop, BeginBody, RunBody, BeginExits, Conclude, At
    <3>4. Asked(d)' = Asked(d) /\ Rule(d)' = Rule(d)
      BY <3>1 DEF Asked, Rule
    <3>5. \A r : Settled(d, r)' <=> Settled(d, r)
      BY <3>2 DEF Settled
    <3> QED BY <3>1, <3>2, <3>3, <3>4, <3>5 DEF Logged
  <2> QED BY <2>1, <2>2 DEF LInv
<1>2. ASSUME UNCHANGED <<call, answer, asked, started, ended, lost, ran, killed>> PROVE LInv'
  BY <1>2 DEF LInv, Records, Logged, Asked, Settled, Terminals, Rule
<1>3. ASSUME NEW r \in Rules, Extend(r) \/ Retract(r) PROVE LInv'
  BY <1>2, <1>3 DEF Extend, Retract, Rebinding, logVars
<1>4. CASE Republish \/ UNCHANGED vars
  BY <1>2, <1>4 DEF Republish, vars, logVars
<1> QED BY <1>1, <1>3, <1>4 DEF Next

LEMMA LoggedInvariance == Spec => [](IInv /\ GInv /\ LInv)
<1> QED BY InitLogged, StepKeepsLogged, GatedInvariance, PTL DEF Spec

\* run_action with _record_attempt and _terminal: no action runs unrecorded, no
\* attempt ends twice, and one without an end when its call is over is one the
\* log failed on, for any number of calls and of rules.
THEOREM EveryAttemptIsAccountedFor == Spec => []AttemptsAreAccountedFor
<1>1. IInv /\ LInv => AttemptsAreAccountedFor
  <2> SUFFICES ASSUME IInv, LInv PROVE AttemptsAreAccountedFor
    OBVIOUS
  <2>1. ASSUME NEW a \in started, answer[a[1]] \notin {<<"none", Body>>, <<"start", a[2]>>}
        PROVE  \E s \in Statuses : <<a, s>> \in ended \cup lost
    <3>1. a = <<a[1], a[2]>> /\ a[1] \in Calls /\ a[2] \in Rules
      BY DEF IInv, TypeOK, Attempts
    <3>2. Logged(a[1]) /\ Good(a[1])
      BY <3>1 DEF LInv, IInv
    <3>3. call[a[1]].pc \notin {"act", "end"}
      BY <2>1, <3>2 DEF Good
    <3>4. Settled(a[1], a[2])
      BY <2>1, <3>1, <3>2, <3>3 DEF Logged
    <3> QED BY <3>1, <3>4 DEF Settled, Terminals
  <2>2. ASSUME NEW c \in Calls, answer[c][1] = "action"
        PROVE  \E s \in Statuses \ {"completed"} :
                 <<<<c, answer[c][2]>>, s>> \in ended \cup lost
    BY <2>2 DEF LInv, Logged, Terminals
  <2>3. Records
    BY DEF LInv
  <2> QED BY <2>1, <2>2, <2>3 DEF AttemptsAreAccountedFor, Records, Terminals
<1> QED BY <1>1, LoggedInvariance, PTL

-----------------------------------------------------------------------------
\* The value the caller gets.

\* v is the last of the overrides S, or the original's result if there is none.
IsLast(S, v) ==
  \/ S = {} /\ v = Body
  \/ v \in S /\ \A r \in S : r <= v

Chosen(c) ==
  LET k == call[c]  running == k.phase = "exit" /\ body[c] = "returned" /\ ~killed IN
  /\ k.pc \in {"end", "pop"} /\ k.status = "completed" =>
       k.override = IF Kind[Rule(c)] = "override" THEN Rule(c) ELSE Body
  /\ k.pc = "pop" => k.status = "completed"
  /\ running /\ k.pc \in {"gate", "start", "act"} => IsLast(Overriding(c), k.result)
  /\ running /\ k.pc \in {"end", "pop"} => IsLast(Overriding(c) \ {Rule(c)}, k.result)
  /\ answer[c][1] = "value" /\ body[c] = "returned" => IsLast(Overriding(c), answer[c][2])

CInv == \A c \in Calls : Chosen(c)

LEMMA InitChosen == Init => CInv
BY DEF Init, CInv, Chosen

\* The rule in hand is asked, and comes after the others the phase asked.
LEMMA RuleIsLastAsked ==
  ASSUME IInv, NEW c \in Calls, Gated(c), call[c].pc = "pop", call[c].phase = "exit"
  PROVE  /\ Rule(c) \in ToSet(asked[c]["exit"]) /\ Rule(c) \in Nat
         /\ \A r \in ToSet(asked[c]["exit"]) : r <= Rule(c)
<1> DEFINE a == asked[c]["exit"]  i == call[c].at
<1>1. Good(c)
  BY DEF IInv
<1>2. i \in 1..Len(call[c].list) /\ a \in Seq(Exits) /\ Exits \subseteq Nat
  BY <1>1, PhaseTyped DEF Good, PhaseRules
<1>3. Len(a) = i /\ a[i] = Rule(c) /\ Increasing(a)
  BY <1>2 DEF Gated, Rule
<1> HIDE DEF a, i
<1>4. DOMAIN a = 1..i /\ i \in 1..i
  BY <1>2, <1>3
<1>5. \A j \in 1..i : a[j] \in Nat
  <2>1. \A j \in 1..Len(a) : a[j] \in Exits
    BY <1>2, ElementOfSeq
  <2> QED BY <1>2, <1>3, <2>1
<1>6. \A j \in 1..i : a[j] <= Rule(c)
  <2> SUFFICES ASSUME NEW j \in 1..i PROVE a[j] <= Rule(c)
    OBVIOUS
  <2>1. j = i \/ a[j] < a[i]
    BY <1>2, <1>3 DEF Increasing
  <2> QED BY <1>3, <1>4, <1>5, <2>1
<1>7. Rule(c) \in ToSet(a) /\ Rule(c) \in Nat
  BY <1>3, <1>4, <1>5 DEF ToSet
<1>8. \A r \in ToSet(a) : r <= Rule(c)
  BY <1>4, <1>6 DEF ToSet
<1> QED BY <1>7, <1>8 DEF a

LEMMA CallsStayChosen ==
  ASSUME IInv, GInv, LInv, CInv, NEW c \in Calls, CallStep(c)
  PROVE  Chosen(c)'
<1> USE DEF logVars
<1>0. /\ TypeOK /\ Gated(c) /\ Good(c) /\ Logged(c) /\ Records /\ Chosen(c) /\ ~killed
      /\ call \in [Calls -> Locals] /\ call[c] \in Locals /\ answer \in [Calls -> Answers]
      /\ body \in [Calls -> {"not_run", "returned", "raised"}]
  BY DEF IInv, TypeOK, GInv, LInv, CInv, CallStep, Arrive, BeginEntries, Gate, RecordStart,
         Act, RecordEnd, Pop, BeginBody, RunBody, BeginExits, Conclude, At
<1>1. \A what, who : Reply(c, what, who) =>
        call'[c].pc = "done" /\ answer'[c] = <<what, who>>
  BY <1>0 DEF Reply, Goto
<1>2. ASSUME NEW what, NEW who, Reply(c, what, who), what # "value" \/ body'[c] # "returned"
      PROVE  Chosen(c)'
  BY <1>1, <1>2 DEF Chosen
<1>3. CASE Arrive(c)
  <2>1. call'[c].pc = "entries" /\ call[c].pc = "idle" /\ UNCHANGED answer
    BY <1>0, <1>3 DEF Arrive, At
  <2>2. answer[c][1] = "none"
    BY <1>0, <2>1 DEF Good
  <2> QED BY <2>1, <2>2 DEF Chosen
<1>4. CASE BeginEntries(c)
  <2>1. /\ call'[c].pc = "gate" /\ call[c].pc = "entries" /\ UNCHANGED answer
        /\ call'[c].phase = call[c].phase
    BY <1>0, <1>4 DEF BeginEntries, At
  <2>2. answer[c][1] = "none" /\ call[c].phase = "entry"
    BY <1>0, <2>1 DEF Good
  <2> QED BY <2>1, <2>2 DEF Chosen
<1>5. CASE BeginBody(c)
  <2>1. call'[c].pc = "body" /\ call[c].pc = "gate" /\ UNCHANGED answer
    BY <1>0, <1>5 DEF BeginBody, At, Goto
  <2>2. answer[c][1] = "none"
    BY <1>0, <2>1 DEF Good
  <2> QED BY <2>1, <2>2 DEF Chosen
<1>6. CASE RunBody(c)
  <2>1. call'[c].pc = "exits" /\ call[c].pc = "body" /\ UNCHANGED answer
    BY <1>0, <1>6 DEF RunBody, At, Goto
  <2>2. answer[c][1] = "none"
    BY <1>0, <2>1 DEF Good
  <2> QED BY <2>1, <2>2 DEF Chosen
<1>7. CASE BeginExits(c)
  <2>1. /\ call'[c].pc = "gate" /\ call[c].pc = "exits" /\ UNCHANGED <<answer, asked>>
        /\ call'[c].result = call[c].result
    BY <1>0, <1>7 DEF BeginExits, At, Locals
  <2>2. answer[c][1] = "none" /\ call[c].phase = "entry" /\ call[c].result = Body
    BY <1>0, <2>1 DEF Good
  <2>3. asked[c]["exit"] = <<>>
    BY <1>0, <2>2 DEF Gated
  <2>4. Overriding(c)' = {}
    BY <2>1, <2>3, EmptyList DEF Overriding
  <2> QED BY <2>1, <2>2, <2>4 DEF Chosen, IsLast
<1>8. CASE Gate(c)
  <2>1. /\ UNCHANGED <<ran, killed, body>>
        /\ call[c].pc = "gate" /\ call[c].at <= Len(call[c].list)
    BY <1>8 DEF Gate, At
  <2>2. /\ call'[c].phase = call[c].phase /\ call'[c].result = call[c].result
        /\ call'[c].pc \in {"start", "gate", "done"}
        /\ answer' = answer \/ answer'[c][1] = "gate"
    BY <1>0, <1>8, GateMoves
  <2>3. answer[c][1] = "none"
    BY <1>0, <2>1 DEF Good
  <2>4. CASE call[c].phase = "exit"
    <3>1. Rule(c) \notin Asked(c) /\ Rule(c) \in Rules
      BY <1>0, <2>1, NextIsNew, RuleOfPhase
    <3>2. <<c, Rule(c)>> \notin ran
      BY <1>0, <3>1 DEF Logged, Records
    <3>3. ToSet(Append(asked[c]["exit"], Rule(c))) = ToSet(asked[c]["exit"]) \cup {Rule(c)}
      BY <1>0, <2>1, <2>4, NextToAsk
    <3>4. asked'[c]["exit"] = Append(asked[c]["exit"], Rule(c))
      BY <1>0, <1>8, <2>4 DEF Gate, TypeOK, Phases
    <3>5. Overriding(c)' = Overriding(c)
      BY <2>1, <3>2, <3>3, <3>4 DEF Overriding
    <3>6. call[c].phase = "exit" /\ body[c] = "returned" => IsLast(Overriding(c), call[c].result)
      BY <1>0, <2>1 DEF Chosen
    <3> QED BY <2>1, <2>2, <2>3, <3>5, <3>6 DEF Chosen
  <2>5. CASE call[c].phase # "exit"
    BY <2>2, <2>3, <2>5 DEF Chosen
  <2> QED BY <2>4, <2>5
<1>9. CASE RecordStart(c)
  <2>1. call[c].pc = "start" /\ UNCHANGED <<ran, killed, body, asked>>
    BY <1>9 DEF RecordStart, At
  <2>2. CASE Goto(c, "act") /\ UNCHANGED answer
    <3>1. /\ call'[c].pc = "act" /\ call'[c].phase = call[c].phase
          /\ call'[c].result = call[c].result
      BY <1>0, <2>2 DEF Goto, Locals
    <3>2. Overriding(c)' = Overriding(c)
      BY <2>1 DEF Overriding
    <3> QED BY <1>0, <2>1, <2>2, <3>1, <3>2 DEF Chosen
  <2> QED BY <1>2, <1>9, <2>2 DEF RecordStart
<1>10. CASE Act(c)
  <2>1. /\ call[c].pc = "act" /\ UNCHANGED <<body, asked, answer>>
        /\ ran' = ran \cup {<<c, Rule(c)>>}
    BY <1>10 DEF Act, At
  <2>2. answer[c][1] = "none" /\ call[c].override = Body
    BY <1>0, <2>1 DEF Good
  <2>3. <<c, Rule(c)>> \notin ran
    BY <1>0, <2>1 DEF Logged
  <2>4. Rule(c)' = Rule(c) /\ call'[c].phase = call[c].phase
        /\ call'[c].result = call[c].result
    BY <1>0, <1>10, ActMoves DEF Rule
  <2>5. Overriding(c)' \ {Rule(c)} = Overriding(c)
    BY <2>1, <2>3 DEF Overriding
  <2>6. call[c].phase = "exit" /\ body[c] = "returned" => IsLast(Overriding(c), call[c].result)
    BY <1>0, <2>1 DEF Chosen
  <2>7. \/ /\ call'[c].pc = "end" /\ call'[c].status = "completed"
           /\ call'[c].override = IF Kind[Rule(c)] = "override" THEN Rule(c) ELSE Body
        \/ call'[c].pc = "end" /\ call'[c].status # "completed"
        \/ call'[c].pc = "act" /\ killed'
    BY <1>0, <1>10, <2>1, <2>2, ActMoves
  <2> QED BY <2>1, <2>2, <2>4, <2>5, <2>6, <2>7 DEF Chosen
<1>11. CASE RecordEnd(c)
  <2>1. call[c].pc = "end" /\ UNCHANGED <<ran, killed, body, asked>>
    BY <1>11 DEF RecordEnd, At
  <2>2. CASE Goto(c, "pop") /\ UNCHANGED answer /\ call[c].status = "completed"
    <3>1. /\ call'[c].pc = "pop" /\ call'[c].phase = call[c].phase
          /\ call'[c].result = call[c].result /\ call'[c].override = call[c].override
          /\ call'[c].status = call[c].status /\ Rule(c)' = Rule(c)
      BY <1>0, <2>2 DEF Goto, Locals, Rule
    <3>2. Overriding(c)' = Overriding(c)
      BY <2>1 DEF Overriding
    <3>3. answer[c][1] = "none"
      BY <1>0, <2>1 DEF Good
    <3> QED BY <1>0, <2>1, <2>2, <3>1, <3>2, <3>3 DEF Chosen
  <2> QED BY <1>2, <1>11, <2>2 DEF RecordEnd
<1>12. CASE Pop(c)
  <2>1. call[c].pc = "pop" /\ UNCHANGED <<ran, killed, body, asked>>
    BY <1>12 DEF Pop, At
  <2>2. CASE call[c].phase = "entry" /\ Reply(c, "value", call[c].override)
    <3>1. body[c] = "not_run"
      BY <1>0, <2>1, <2>2 DEF Good
    <3> QED BY <1>2, <2>1, <2>2, <3>1
  <2>3. CASE /\ call'[c].pc = "gate" /\ call'[c].phase = call[c].phase
             /\ call'[c].result = IF call[c].override # Body /\ body[c] = "returned"
                                  THEN call[c].override ELSE call[c].result
             /\ UNCHANGED answer
    <3>1. answer[c][1] = "none"
      BY <1>0, <2>1 DEF Good
    <3>2. CASE call[c].phase = "exit" /\ body[c] = "returned"
      <4>1. /\ Rule(c) \in ToSet(asked[c]["exit"]) /\ Rule(c) \in Nat
            /\ \A r \in ToSet(asked[c]["exit"]) : r <= Rule(c)
        BY <1>0, <2>1, <3>2, RuleIsLastAsked
      <4>2. <<c, Rule(c)>> \in ran
        BY <1>0, <2>1 DEF Logged
      <4>3. IsLast(Overriding(c) \ {Rule(c)}, call[c].result)
        BY <1>0, <2>1, <3>2 DEF Chosen
      <4>4. call[c].override = IF Kind[Rule(c)] = "override" THEN Rule(c) ELSE Body
        BY <1>0, <2>1 DEF Chosen
      <4>5. Overriding(c)' = Overriding(c)
        BY <2>1 DEF Overriding
      <4>6. CASE Kind[Rule(c)] = "override"
        <5>1. Rule(c) # Body
          <6>1. call[c].at <= Len(call[c].list)
            BY <1>0, <2>1 DEF Good
          <6>2. Rule(c) \in Rules
            BY <6>1, RuleOfPhase
          <6> QED BY <6>2, RulesAssumption
        <5>2. call'[c].result = Rule(c)
          BY <2>3, <3>2, <4>4, <4>6, <5>1
        <5>3. Rule(c) \in Overriding(c) /\ \A r \in Overriding(c) : r <= Rule(c)
          BY <4>1, <4>2, <4>6 DEF Overriding
        <5>4. IsLast(Overriding(c), Rule(c))
          BY <5>3 DEF IsLast
        <5> QED BY <2>3, <3>1, <4>5, <5>2, <5>4 DEF Chosen
      <4>7. CASE Kind[Rule(c)] # "override"
        <5>1. call'[c].result = call[c].result
          BY <2>3, <4>4, <4>7
        <5>2. Overriding(c) \ {Rule(c)} = Overriding(c)
          BY <4>7 DEF Overriding
        <5> QED BY <2>3, <3>1, <4>3, <4>5, <5>1, <5>2 DEF Chosen
      <4> QED BY <4>6, <4>7
    <3>3. CASE ~(call[c].phase = "exit" /\ body[c] = "returned")
      BY <2>1, <2>3, <3>1, <3>3 DEF Chosen
    <3> QED BY <3>2, <3>3
  <2> QED BY <1>0, <1>12, <2>2, <2>3, PopMoves
<1>13. CASE Conclude(c)
  <2>1. /\ call[c].pc = "gate" /\ call[c].phase = "exit"
        /\ UNCHANGED <<ran, killed, body, asked>>
    BY <1>13 DEF Conclude, At
  <2>2. CASE body[c] = "raised"
    BY <1>2, <1>13, <2>1, <2>2 DEF Conclude
  <2>3. CASE body[c] = "returned"
    <3>1. Reply(c, "value", call[c].result)
      BY <1>13, <2>3 DEF Conclude
    <3>2. IsLast(Overriding(c), call[c].result)
      BY <1>0, <2>1, <2>3 DEF Chosen
    <3>3. call'[c].pc = "done" /\ answer'[c] = <<"value", call[c].result>>
      BY <1>1, <3>1
    <3>4. Overriding(c)' = Overriding(c)
      BY <2>1 DEF Overriding
    <3> QED BY <3>2, <3>3, <3>4 DEF Chosen
  <2>4. body[c] # "not_run"
    BY <1>0, <2>1 DEF Good
  <2> QED BY <1>0, <2>2, <2>3, <2>4
<1> QED BY <1>3, <1>4, <1>5, <1>6, <1>7, <1>8, <1>9, <1>10, <1>11, <1>12, <1>13 DEF CallStep

LEMMA StepKeepsChosen == IInv /\ GInv /\ LInv /\ CInv /\ [Next]_vars => CInv'
<1> SUFFICES ASSUME IInv, GInv, LInv, CInv, [Next]_vars PROVE CInv'
  OBVIOUS
<1>1. ASSUME NEW c \in Calls, CallStep(c) PROVE CInv'
  <2>1. Chosen(c)'
    BY <1>1, CallsStayChosen
  <2>2. ASSUME NEW d \in Calls, d # c PROVE Chosen(d)'
    <3>1. /\ call'[d] = call[d] /\ answer'[d] = answer[d] /\ asked'[d] = asked[d]
          /\ body'[d] = body[d]
      BY <1>1, <2>2, OthersStand DEF IInv
    <3>2. \A r : <<d, r>> \in ran' <=> <<d, r>> \in ran
      BY <1>1, <2>2, OthersRecords
    <3>3. Chosen(d) /\ ~killed
      BY <1>1 DEF CInv, CallStep, Arrive, BeginEntries, Gate, RecordStart, Act, RecordEnd,
                  Pop, BeginBody, RunBody, BeginExits, Conclude, At
    <3>4. Overriding(d)' = Overriding(d) /\ Rule(d)' = Rule(d)
      BY <3>1, <3>2 DEF Overriding, Rule
    <3> QED BY <3>1, <3>3, <3>4 DEF Chosen
  <2> QED BY <2>1, <2>2 DEF CInv
<1>2. ASSUME UNCHANGED <<call, body, answer, asked, ran, killed>> PROVE CInv'
  BY <1>2 DEF CInv, Chosen, Overriding, Rule
<1>3. ASSUME NEW r \in Rules, Extend(r) \/ Retract(r) PROVE CInv'
  BY <1>2, <1>3 DEF Extend, Retract, Rebinding
<1>4. CASE Republish \/ UNCHANGED vars
  BY <1>2, <1>4 DEF Republish, vars
<1> QED BY <1>1, <1>3, <1>4 DEF Next

\* ctx.pop("_override"): of the overrides of a call's exit rules the last one in
\* ruleset order is what the caller gets, and only an override replaces what the
\* original returned.
THEOREM TheLastOverrideIsServed == Spec => []LastOverrideWins
<1>1. CInv => LastOverrideWins
  BY DEF CInv, Chosen, IsLast, LastOverrideWins
<1> QED BY <1>1, InitChosen, StepKeepsChosen, LoggedInvariance, PTL DEF Spec

-----------------------------------------------------------------------------
\* The flag that picks the driver.

\* Where _patch shares the thread of the calls, nothing comes between the reading
\* of the flag and that of the list it summarises.
Awaiting(c) ==
  LET k == call[c] IN
  IF coroutine
  THEN /\ k.pc = "entries" => ~rebound /\ k.awaits = AnyAsync(entries)
       /\ k.pc \notin {"idle", "entries"} /\ AnyAsync(k.list) => k.awaits
  ELSE ~AnyAsync(k.list)

SInv ==
  /\ IF coroutine THEN ~rebound => has_async_sleep = AnyAsync(entries)
     ELSE ~AnyAsync(entries) /\ ~AnyAsync(exits)
  /\ \A c \in Calls : Awaiting(c)
  /\ blocked = {}

LEMMA AsyncIsOfTheSet ==
  ASSUME NEW S, NEW list \in Seq(S)
  PROVE  AnyAsync(list) <=> \E r \in ToSet(list) : Kind[r] = "async"
<1>1. DOMAIN list = 1..Len(list)
  OBVIOUS
<1> QED BY <1>1 DEF AnyAsync, ToSet

LEMMA InitAwaiting == Init => SInv
<1> SUFFICES ASSUME Init PROVE SInv
  OBVIOUS
<1>1. ~AnyAsync(BoundEntries) /\ ~AnyAsync(BoundExits)
  BY BindingAssumption, AsyncIsOfTheSet
<1>2. ~AnyAsync(<<>>)
  BY DEF AnyAsync
<1>3. ASSUME NEW c \in Calls PROVE Awaiting(c)
  <2>1. call[c].pc = "idle" /\ call[c].list = <<>>
    BY DEF Init
  <2> QED BY <1>2, <2>1 DEF Awaiting
<1> QED BY <1>1, <1>3 DEF Init, SInv

LEMMA StepKeepsAwaiting ==
  ASSUME TRUE \notin Threaded, IInv, GInv, SInv, [Next]_vars
  PROVE  SInv'
<1> USE DEF compVars
<1>0. TypeOK /\ Lists /\ coroutine \in BOOLEAN
  BY DEF IInv, GInv, TypeOK
<1>1. ASSUME NEW c \in Calls, CallStep(c) PROVE SInv'
  <2>0. /\ Awaiting(c) /\ Good(c) /\ ~killed /\ (coroutine => ~rebound)
        /\ call \in [Calls -> Locals] /\ call[c] \in Locals
    BY <1>0, <1>1 DEF IInv, TypeOK, SInv, CallStep, Arrive, BeginEntries, Gate, RecordStart,
         Act, RecordEnd, Pop, BeginBody, RunBody, BeginExits, Conclude, At
  <2>1. UNCHANGED <<coroutine, entries, exits, rebound, has_async_sleep>>
    BY <1>1 DEF CallStep, Arrive, BeginEntries, Gate, RecordStart, Act, RecordEnd, Pop,
                BeginBody, RunBody, BeginExits, Conclude
  <2>2. /\ \A d \in Calls : d # c => call'[d] = call[d]
        /\ \A d \in Calls : Awaiting(d)
    BY <1>0, <1>1, OthersStand DEF SInv
  <2>3. ASSUME Awaiting(c)', blocked' = {} PROVE SInv'
    <3>1. \A d \in Calls : d # c => Awaiting(d)'
      BY <2>1, <2>2 DEF Awaiting, AnyAsync
    <3> QED BY <2>1, <2>3, <3>1 DEF SInv, AnyAsync
  <2>4. blocked = {}
    BY DEF SInv
  <2>5. ASSUME /\ call'[c].list = call[c].list /\ call'[c].awaits = call[c].awaits
               /\ call'[c].pc # "entries" /\ call[c].pc \notin {"idle", "entries"}
        PROVE  Awaiting(c)'
    BY <2>0, <2>1, <2>5 DEF Awaiting, AnyAsync
  <2>6. CASE Arrive(c)
    <3>1. /\ call'[c].pc = "entries" /\ call'[c].list = call[c].list
          /\ call'[c].awaits = (coroutine /\ has_async_sleep) /\ UNCHANGED blocked
      BY <2>0, <2>6 DEF Arrive, Locals
    <3>2. coroutine => has_async_sleep = AnyAsync(entries)
      BY <2>0 DEF SInv
    <3>3. ~coroutine => ~AnyAsync(call[c].list)
      BY <2>0 DEF Awaiting
    <3>4. /\ coroutine' = coroutine /\ AnyAsync(entries)' = AnyAsync(entries)
          /\ AnyAsync(call[c].list)' = AnyAsync(call[c].list) /\ rebound' = rebound
      BY <2>1, <3>1 DEF AnyAsync
    <3>5. Awaiting(c)'
      <4>1. CASE coroutine
        <5>1. call'[c].awaits = has_async_sleep
          <6>1. has_async_sleep \in BOOLEAN
            BY <1>0 DEF TypeOK
          <6> QED BY <3>1, <4>1, <6>1
        <5>2. call'[c].awaits = AnyAsync(entries)'
          BY <3>2, <3>4, <4>1, <5>1
        <5> QED BY <2>0, <3>1, <3>4, <4>1, <5>2 DEF Awaiting
      <4>2. CASE ~coroutine
        BY <3>1, <3>3, <3>4, <4>2 DEF Awaiting
      <4> QED BY <4>1, <4>2
    <3> QED BY <2>3, <2>4, <3>1, <3>5
  <2>7. CASE BeginEntries(c)
    <3>1. /\ call'[c].pc = "gate" /\ call'[c].list = entries /\ call[c].pc = "entries"
          /\ call'[c].awaits = call[c].awaits /\ UNCHANGED blocked
      BY <2>0, <2>7 DEF BeginEntries, At, Locals
    <3>2. ~coroutine => ~AnyAsync(entries)
      BY DEF SInv
    <3>3. coroutine => call[c].awaits = AnyAsync(entries)
      BY <2>0, <3>1 DEF Awaiting
    <3>4. coroutine' = coroutine /\ AnyAsync(call'[c].list) = AnyAsync(entries)
      BY <2>1, <3>1 DEF AnyAsync
    <3>5. AnyAsync(call[c].list)' <=> AnyAsync(call'[c].list)
      BY DEF AnyAsync
    <3>6. Awaiting(c)'
      BY <3>1, <3>2, <3>3, <3>4, <3>5 DEF Awaiting
    <3> QED BY <2>3, <2>4, <3>1, <3>6
  <2>8. CASE BeginExits(c)
    <3>1. /\ call'[c].pc = "gate" /\ UNCHANGED blocked
          /\ call'[c].list = IF coroutine THEN <<>> ELSE exits
      BY <2>0, <2>8 DEF BeginExits, Locals
    <3>2. ~coroutine => ~AnyAsync(exits)
      BY DEF SInv
    <3>3. ~AnyAsync(<<>>)
      BY DEF AnyAsync
    <3> QED BY <2>1, <2>3, <2>4, <3>1, <3>2, <3>3 DEF Awaiting, AnyAsync
  <2>9. CASE Act(c)
    <3>1. call[c].pc = "act" /\ blocked' = IF Kind[Rule(c)] = "async" /\ ~call[c].awaits
                                           THEN blocked \cup {<<c, Rule(c)>>} ELSE blocked
      BY <2>9 DEF Act, At
    <3>2. /\ call'[c].list = call[c].list /\ call'[c].awaits = call[c].awaits
          /\ call'[c].pc \in {"act", "end"}
      BY <1>0, <2>9, <3>1, ActMoves
    <3>3. Kind[Rule(c)] = "async" => AnyAsync(call[c].list)
      <4>1. call[c].at \in 1..Len(call[c].list)
        <5>1. call[c].at <= Len(call[c].list) /\ call[c].at # 0
          BY <2>0, <3>1 DEF Good
        <5>2. call[c].at \in Nat /\ Len(call[c].list) \in Nat
          BY <2>0 DEF Locals
        <5> QED BY <5>1, <5>2
      <4> QED BY <4>1 DEF AnyAsync, Rule
    <3>4. Kind[Rule(c)] = "async" => call[c].awaits
      BY <2>0, <3>1, <3>3 DEF Awaiting
    <3> QED BY <2>3, <2>4, <2>5, <3>1, <3>2, <3>4
  <2>10. CASE Gate(c)
    <3>1. call[c].pc = "gate" /\ UNCHANGED blocked
      BY <2>10 DEF Gate, At
    <3>2. /\ call'[c].list = call[c].list /\ call'[c].awaits = call[c].awaits
          /\ call'[c].pc # "entries"
      BY <1>0, <2>10, GateMoves
    <3> QED BY <2>3, <2>4, <2>5, <3>1, <3>2
  <2>11. ASSUME NEW label, Goto(c, label), label # "entries", UNCHANGED blocked,
                call[c].pc \notin {"idle", "entries"}
         PROVE  SInv'
    <3>1. /\ call'[c].list = call[c].list /\ call'[c].awaits = call[c].awaits
          /\ call'[c].pc = label
      BY <2>0, <2>11 DEF Goto, Locals
    <3> QED BY <2>3, <2>4, <2>5, <2>11, <3>1
  <2>12. CASE Pop(c)
    <3>1. call[c].pc = "pop" /\ UNCHANGED blocked
      BY <2>12 DEF Pop, At
    <3>2. CASE Reply(c, "value", call[c].override)
      BY <2>11, <3>1, <3>2 DEF Reply
    <3>3. CASE /\ call'[c].list = call[c].list /\ call'[c].awaits = call[c].awaits
               /\ call'[c].pc = "gate"
      BY <2>3, <2>4, <2>5, <3>1, <3>3
    <3> QED BY <1>0, <2>12, <3>2, <3>3, PopMoves
  <2>13. CASE RecordStart(c) \/ RecordEnd(c) \/ BeginBody(c) \/ RunBody(c) \/ Conclude(c)
    <3>1. call[c].pc \in {"start", "end", "gate", "body"} /\ UNCHANGED blocked
      BY <2>13 DEF RecordStart, RecordEnd, BeginBody, RunBody, Conclude, At
    <3>2. \E label \in {"act", "done", "pop", "body", "exits"} : Goto(c, label)
      BY <2>13 DEF RecordStart, RecordEnd, BeginBody, RunBody, Conclude, Reply
    <3> QED BY <2>11, <3>1, <3>2
  <2> QED BY <1>1, <2>6, <2>7, <2>8, <2>9, <2>10, <2>12, <2>13 DEF CallStep
<1>2. ASSUME UNCHANGED <<coroutine, call, blocked>>, rebound',
             coroutine => \A c \in Calls : call[c].pc # "entries",
             ~coroutine => ~AnyAsync(entries') /\ ~AnyAsync(exits')
      PROVE  SInv'
  BY <1>2 DEF SInv, Awaiting, AnyAsync
<1>3. /\ entries \in Seq(EntryRules) /\ exits \in Seq(Exits)
      /\ EntryRules \subseteq Nat /\ Exits \subseteq Nat
  BY <1>0, RulesAssumption, ExitsAssumption DEF TypeOK, EntryRules
<1>4. /\ entries' \in Seq(EntryRules) /\ exits' \in Seq(Exits)
  BY StepKeeps DEF IInv, TypeOK, EntryRules
<1>5. ASSUME Rebinding
      PROVE  /\ UNCHANGED <<coroutine, blocked>> /\ rebound'
             /\ coroutine => \A c \in Calls : call[c].pc # "entries"
  <2>1. coroutine => coroutine \notin Threaded
    BY <1>0
  <2>2. coroutine => \A c \in Calls : call[c].pc \in Foreign
    BY <1>5, <2>1 DEF Rebinding, MayPatch
  <2> QED BY <1>5, <2>2 DEF Rebinding, Foreign
<1>6. ASSUME /\ ~coroutine => \A x \in ToSet(entries') : x \in ToSet(entries) \/ Kind[x] # "async"
             /\ ~coroutine => \A x \in ToSet(exits') : x \in ToSet(exits) \/ Kind[x] # "async"
      PROVE  ~coroutine => ~AnyAsync(entries') /\ ~AnyAsync(exits')
  <2>1. ~coroutine => ~AnyAsync(entries) /\ ~AnyAsync(exits)
    BY DEF SInv
  <2>2. /\ AnyAsync(entries) <=> \E x \in ToSet(entries) : Kind[x] = "async"
        /\ AnyAsync(exits) <=> \E x \in ToSet(exits) : Kind[x] = "async"
    BY <1>3, AsyncIsOfTheSet
  <2>3. /\ AnyAsync(entries') <=> \E x \in ToSet(entries') : Kind[x] = "async"
        /\ AnyAsync(exits') <=> \E x \in ToSet(exits') : Kind[x] = "async"
    BY <1>4, AsyncIsOfTheSet
  <2> QED BY <1>6, <2>1, <2>2, <2>3
<1>7. ASSUME NEW r \in Rules, Extend(r) \/ Retract(r) PROVE SInv'
  <2>1. UNCHANGED <<coroutine, call, blocked>> /\ rebound'
        /\ (coroutine => \A c \in Calls : call[c].pc # "entries")
    BY <1>5, <1>7 DEF Extend, Retract
  <2>2. /\ ~coroutine => \A x \in ToSet(entries') : x \in ToSet(entries) \/ Kind[x] # "async"
        /\ ~coroutine => \A x \in ToSet(exits') : x \in ToSet(exits) \/ Kind[x] # "async"
    <3>1. CASE Extend(r)
      <4>1. ~coroutine => Kind[r] # "async"
        BY <3>1 DEF Extend, Mergeable
      <4> QED BY <1>0, <3>1, <4>1, ExtendedLists
    <3>2. CASE Retract(r)
      BY <1>0, <3>2, RetractedLists
    <3> QED BY <1>7, <3>1, <3>2
  <2> QED BY <1>2, <1>6, <2>1, <2>2
<1>8. CASE Republish
  <2>1. /\ UNCHANGED <<coroutine, entries, exits, call, blocked>> /\ ~rebound'
        /\ has_async_sleep' = AnyAsync(entries)
    BY <1>8 DEF Republish
  <2> QED BY <1>0, <2>1 DEF SInv, Awaiting, AnyAsync
<1>9. CASE UNCHANGED vars
  BY <1>9 DEF vars, SInv, Awaiting, AnyAsync
<1> QED BY <1>1, <1>7, <1>8, <1>9 DEF Next

\* _republish_state, while _patch runs on the event loop's own thread: a sleep
\* declared async is awaited by every call that serves it, however often the
\* dispatcher is extended.
THEOREM SleepsAreAwaited ==
  ASSUME TRUE \notin Threaded
  PROVE  Spec => []AwaitedSleepsNeverBlock
<1>1. IInv /\ GInv /\ SInv /\ [Next]_vars => SInv'
  BY StepKeepsAwaiting
<1>2. SInv => AwaitedSleepsNeverBlock
  BY DEF SInv, AwaitedSleepsNeverBlock
<1> QED BY <1>1, <1>2, InitAwaiting, GatedInvariance, PTL DEF Spec
=============================================================================
