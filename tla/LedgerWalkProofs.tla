-------------------------- MODULE LedgerWalkProofs --------------------------
(***************************************************************************)
(* LedgerWalk for every set of entries and slots and every depth of        *)
(* nesting: no wrapper that stands is forgotten, and a walk settles or     *)
(* reports what it found.                                                  *)
(***************************************************************************)
EXTENDS LedgerWalk, TLAPS, SequenceTheorems

Visiting == {"read", "store", "stored"}

LedgerInv == \A j \in DOMAIN ledger : phase[ledger[j]] = "published"

\* What walk d found, has not reported, and is still in the list.
Waits(d, e) == e \in walk[d].known /\ e \notin walk[d].refused

\* All that waits for a walk is below its cursor, or is the entry it is at;
\* what it is at is published, and no wrapper of it stands once it is stored.
Cursor(d) ==
  /\ \A e \in walk[d].known : phase[e] = "published"
  /\ walk[d].pc \in Visiting =>
       walk[d].entry \in Entries /\ phase[walk[d].entry] = "published" /\ walk[d].i > 0
  /\ walk[d].pc = "stored" => ~Holds(walk[d].entry)
  /\ walk[d].pc = "done" => walk[d].i = 0
  /\ walk[d].pc # "raised" =>
       \A j \in DOMAIN ledger : Waits(d, ledger[j]) =>
         /\ j <= walk[d].i
         /\ walk[d].pc \in Visiting /\ j = walk[d].i => ledger[j] = walk[d].entry
CursorInv == \A d \in 1..depth : Cursor(d)

Covered(d) ==
  \A e \in Range(ledger) : Waits(d, e) => e \in walk[d].inner

\* A walk with another inside it is at an entry, and the inner one found all that
\* still waits for it.  The list is shorter than the running walk's cursor only if
\* an inner walk ended, which reported all that then waited.
Outer(d) ==
  /\ walk[d].pc \in Visiting
  /\ \A e \in Range(ledger) : e \in walk[d].known => e \in walk[d + 1].known
Reach(d) == walk[d].i <= Len(ledger) \/ Covered(d)
StackInv ==
  /\ \A d \in 1..depth : d < depth => Outer(d)
  /\ depth > 0 => Reach(depth)
  /\ \A d \in 1..depth : walk[d].pc = "raised" => Covered(d)

IInv == TypeOK /\ LedgerInv /\ NothingWrappedIsForgotten /\ CursorInv /\ StackInv

-----------------------------------------------------------------------------
LEMMA RemoveAtFacts ==
  ASSUME NEW S, NEW s \in Seq(S), NEW i \in DOMAIN s
  PROVE  /\ RemoveAt(s, i) \in Seq(S)
         /\ Len(RemoveAt(s, i)) = Len(s) - 1
         /\ \A j \in 1..(Len(s) - 1) :
              RemoveAt(s, i)[j] = IF j < i THEN s[j] ELSE s[j + 1]
<1> DEFINE a == SubSeq(s, 1, i - 1)
           b == SubSeq(s, i + 1, Len(s))
<1>1. i \in 1..Len(s) /\ Len(s) \in Nat
  OBVIOUS
<1>2. /\ a \in Seq(S) /\ Len(a) = i - 1
      /\ \A j \in 1..(i - 1) : a[j] = s[j]
  BY <1>1
<1>3. /\ b \in Seq(S) /\ Len(b) = Len(s) - i
      /\ \A j \in 1..(Len(s) - i) : b[j] = s[j + i]
  BY <1>1
<1> HIDE DEF a, b
<1>4. /\ a \o b \in Seq(S) /\ Len(a \o b) = Len(s) - 1
      /\ \A j \in 1..(Len(s) - 1) : (a \o b)[j] = IF j <= Len(a) THEN a[j] ELSE b[j - Len(a)]
  BY <1>1, <1>2, <1>3
<1>5. \A j \in 1..(Len(s) - 1) : (a \o b)[j] = IF j < i THEN s[j] ELSE s[j + 1]
  <2> TAKE j \in 1..(Len(s) - 1)
  <2>1. CASE j < i
    BY <2>1, <1>1, <1>2, <1>4
  <2>2. CASE ~(j < i)
    <3>1. j - (i - 1) \in 1..(Len(s) - i) /\ (j - (i - 1)) + i = j + 1
      BY <2>2, <1>1
    <3>2. b[j - (i - 1)] = s[j + 1]
      BY <3>1, <1>3
    <3>3. (a \o b)[j] = b[j - (i - 1)]
      BY <2>2, <1>1, <1>2, <1>4
    <3> QED
      BY <2>2, <3>2, <3>3
  <2> QED
    BY <2>1, <2>2
<1>6. RemoveAt(s, i) = a \o b
  BY DEF RemoveAt, a, b
<1> QED
  BY <1>4, <1>5, <1>6

\* What a settlement leaves: all but the entry, each where it was or one lower.
LEMMA SettledFacts ==
  ASSUME TypeOK, depth > 0
  PROVE  /\ Settled \in Seq(Entries)
         /\ \A e \in Range(ledger) : e # W.entry => e \in Range(Settled)
         /\ \A j \in DOMAIN Settled : \E k \in DOMAIN ledger :
              /\ ledger[k] = Settled[j]
              /\ \/ k = j /\ (j = W.i => ledger[j] # W.entry)
                 \/ k = j + 1 /\ j >= W.i
         /\ W.i <= Len(ledger) => W.i - 1 <= Len(Settled)
<1>1. W \in Walks /\ W.i \in Nat
  BY DEF TypeOK, W, Walks
<1>2. ledger \in Seq(Entries) /\ Len(ledger) \in Nat /\ DOMAIN ledger = 1..Len(ledger)
  BY DEF TypeOK
<1>3. CASE W.i \in DOMAIN ledger /\ ledger[W.i] = W.entry
  <2> DEFINE r == RemoveAt(ledger, W.i)
  <2>1. /\ r \in Seq(Entries) /\ Len(r) = Len(ledger) - 1
        /\ \A j \in 1..(Len(ledger) - 1) :
             r[j] = IF j < W.i THEN ledger[j] ELSE ledger[j + 1]
    BY <1>2, <1>3, RemoveAtFacts
  <2>2. Settled = r
    BY <1>3 DEF Settled
  <2> HIDE DEF r
  <2>3. DOMAIN r = 1..(Len(ledger) - 1)
    BY <2>1, <1>2
  <2>4. \A e \in Range(ledger) : e # W.entry => e \in Range(r)
    <3> SUFFICES ASSUME NEW k \in DOMAIN ledger, ledger[k] # W.entry
                 PROVE  ledger[k] \in Range(r)
      BY DEF Range
    <3>1. CASE k < W.i
      <4>1. k \in DOMAIN r /\ r[k] = ledger[k]
        BY <3>1, <2>1, <2>3, <1>1, <1>2, <1>3
      <4> QED
        BY <4>1 DEF Range
    <3>2. CASE k > W.i
      <4>1. k - 1 \in DOMAIN r /\ r[k - 1] = ledger[k]
        BY <3>2, <2>1, <2>3, <1>1, <1>2, <1>3
      <4> QED
        BY <4>1 DEF Range
    <3> QED
      BY <3>1, <3>2, <1>1, <1>2, <1>3
  <2>5. \A j \in DOMAIN r : \E k \in DOMAIN ledger :
          /\ ledger[k] = r[j]
          /\ \/ k = j /\ (j = W.i => ledger[j] # W.entry)
             \/ k = j + 1 /\ j >= W.i
    <3> TAKE j \in DOMAIN r
    <3>1. CASE j < W.i
      BY <3>1, <2>1, <2>3, <1>1, <1>2
    <3>2. CASE j >= W.i
      <4>1. j + 1 \in DOMAIN ledger /\ ledger[j + 1] = r[j]
        BY <3>2, <2>1, <2>3, <1>1, <1>2
      <4> QED
        BY <4>1, <3>2
    <3> QED
      BY <3>1, <3>2, <2>3, <1>1, <1>2
  <2> QED
    BY <2>1, <2>2, <2>4, <2>5, <1>1, <1>2
<1>4. CASE ~(W.i \in DOMAIN ledger /\ ledger[W.i] = W.entry)
  BY <1>1, <1>2, <1>4 DEF Settled
<1> QED
  BY <1>3, <1>4
-----------------------------------------------------------------------------
LEMMA InitIInv == Init => IInv
  BY SlotOfAssumption, MaxDepthAssumption
     DEF Init, IInv, TypeOK, LedgerInv, NothingWrappedIsForgotten, CursorInv, StackInv,
         Locals, Walks, Labels, Holds

\* The running walk: its locals, and where it is when it visits an entry.
LEMMA Running ==
  ASSUME IInv, depth > 0
  PROVE  /\ depth \in 1..MaxDepth /\ W \in Walks /\ W.i \in Nat
         /\ W.pc \in Visiting => W.entry \in Entries /\ W.i - 1 \in Nat
<1>1. depth \in 1..MaxDepth /\ W \in Walks /\ W.i \in Nat
  BY MaxDepthAssumption DEF IInv, TypeOK, W, Walks
<1> QED
  BY <1>1 DEF IInv, CursorInv, Cursor, W

LEMMA StepTypeOK == IInv /\ [Next]_vars => TypeOK'
<1> SUFFICES ASSUME IInv, [Next]_vars PROVE TypeOK'
  OBVIOUS
<1>0. TypeOK
  BY DEF IInv
<1>1. ASSUME NEW e \in Entries, NEW q \in {"claimed", "landed", "published", "gone"},
             Enters(e, q), slot' \in {slot, Cleared(e), [slot EXCEPT ![SlotOf[e]] = e]},
             ledger' \in {ledger, Append(ledger, e)}, UNCHANGED <<depth, walk>>
      PROVE  TypeOK'
  <2>1. SlotOf[e] \in Slots
    BY SlotOfAssumption
  <2>2. slot' \in [Slots -> Entries \cup {None}]
    BY <1>0, <1>1, <2>1 DEF TypeOK, Cleared
  <2>3. phase' \in [Entries -> {"new", "claimed", "landed", "published", "gone"}]
    BY <1>0, <1>1 DEF TypeOK, Enters
  <2>4. ledger' \in Seq(Entries)
    BY <1>0, <1>1 DEF TypeOK
  <2> QED
    BY <1>0, <1>1, <2>2, <2>3, <2>4 DEF TypeOK
<1>2. ASSUME NEW e \in Entries, Claim(e) \/ Land(e) PROVE TypeOK'
  BY <1>1, <1>2 DEF Claim, Land
<1>3. ASSUME NEW e \in Entries, Publish(e) \/ RollBack(e) PROVE TypeOK'
  BY <1>1, <1>3 DEF Publish, RollBack
<1>4. ASSUME NEW s \in Slots, Replace(s) PROVE TypeOK'
  BY <1>0, <1>4 DEF Replace, TypeOK
<1>5. ASSUME Begin PROVE TypeOK'
  <2>1. Locals(Len(ledger), Range(ledger)) \in Walks
    BY <1>0 DEF Locals, Range, Walks, Labels, TypeOK
  <2> QED
    BY <1>0, <1>5, <2>1, MaxDepthAssumption DEF Begin, TypeOK
<1>6. ASSUME depth > 0, NEW w \in Walks, walk' = [walk EXCEPT ![depth] = w],
             ledger' \in Seq(Entries), slot' \in {slot, Cleared(W.entry)},
             UNCHANGED <<phase, depth>>
      PROVE  TypeOK'
  BY <1>0, <1>6, MaxDepthAssumption DEF TypeOK, Cleared
<1>7. ASSUME Fetch \/ Finish PROVE TypeOK'
  <2>1. depth > 0 /\ W \in Walks
    BY <1>7, Running DEF Fetch, Finish, At
  <2>2. \A p \in Labels : [W EXCEPT !.pc = p] \in Walks
    BY <2>1 DEF Walks
  <2>3. ASSUME NEW j \in DOMAIN ledger
        PROVE  [W EXCEPT !.pc = "read", !.entry = ledger[j]] \in Walks
    <3>1. ledger[j] \in Entries
      BY <1>0 DEF TypeOK
    <3> QED
      BY <2>1, <3>1 DEF Walks, Labels
  <2>4. CASE Fetch
    BY <1>0, <1>6, <2>1, <2>2, <2>3, <2>4 DEF Fetch, W, Labels, TypeOK
  <2>5. CASE Finish
    BY <1>0, <1>6, <2>1, <2>2, <2>5 DEF Finish, W, Labels, TypeOK
  <2> QED
    BY <1>7, <2>4, <2>5
<1>8. ASSUME Read \/ Store \/ Stored PROVE TypeOK'
  <2>1. /\ depth > 0 /\ W.pc \in Visiting
        /\ UNCHANGED <<phase, depth>> /\ slot' \in {slot, Cleared(W.entry)}
    BY <1>8 DEF Read, Store, Stored, At, W, Visiting
  <2>2. W \in Walks /\ W.entry \in Entries /\ W.i - 1 \in Nat
    BY <2>1, Running
  <2>3. ledger' \in Seq(Entries)
    BY <1>0, <1>8, <2>1, SettledFacts DEF Read, Store, Stored, Settle, Refuse, TypeOK
  <2>4. \A p \in Labels : [W EXCEPT !.pc = p] \in Walks
    BY <2>2 DEF Walks
  <2>5. [W EXCEPT !.pc = "pass", !.i = W.i - 1] \in Walks
    BY <2>2 DEF Walks, Labels
  <2>6. [W EXCEPT !.pc = "pass", !.i = W.i - 1, !.refused = W.refused \cup {W.entry}] \in Walks
    BY <2>2 DEF Walks, Labels
  <2>7. ASSUME NextPass PROVE TypeOK'
    BY <1>6, <2>1, <2>3, <2>5, <2>7 DEF NextPass, W
  <2>8. ASSUME Refuse PROVE TypeOK'
    BY <1>6, <2>1, <2>3, <2>6, <2>8 DEF Refuse, W
  <2>9. ASSUME NEW p \in Labels, walk' = [walk EXCEPT ![depth].pc = p] PROVE TypeOK'
    BY <1>6, <2>1, <2>3, <2>4, <2>9 DEF W
  <2> QED
    BY <1>8, <2>7, <2>8, <2>9 DEF Read, Store, Stored, Settle, Labels
<1>9. ASSUME End PROVE TypeOK'
  <2>1. depth > 0 /\ W \in Walks /\ Locals(0, {}) \in Walks
    BY <1>9, Running DEF End, At, Locals, Walks, Labels
  <2>2. \A d \in 1..MaxDepth : [walk[d] EXCEPT !.inner = @ \cup W.refused \cup W.inner] \in Walks
    BY <1>0, <2>1 DEF Walks, TypeOK
  <2> QED
    BY <1>0, <1>9, <2>1, <2>2, MaxDepthAssumption DEF End, TypeOK
<1>10. CASE UNCHANGED vars
  BY <1>0, <1>10 DEF TypeOK, vars
<1> QED
  BY <1>2, <1>3, <1>4, <1>5, <1>7, <1>8, <1>9, <1>10 DEF Next

LEMMA StepPublished == IInv /\ [Next]_vars => LedgerInv' /\ NothingWrappedIsForgotten'
<1> SUFFICES ASSUME IInv, [Next]_vars PROVE LedgerInv' /\ NothingWrappedIsForgotten'
  OBVIOUS
<1>0. TypeOK /\ LedgerInv /\ NothingWrappedIsForgotten /\ CursorInv
  BY DEF IInv
<1>1. ASSUME NEW e \in Entries, phase[e] # "published", UNCHANGED ledger,
             NEW q, Enters(e, q), q # "published",
             slot' \in {slot, Cleared(e), [slot EXCEPT ![SlotOf[e]] = e]}
      PROVE  LedgerInv' /\ NothingWrappedIsForgotten'
  <2>1. \A x \in Entries : x # e => phase'[x] = phase[x]
    BY <1>0, <1>1 DEF TypeOK, Enters
  <2>2. phase'[e] # "published"
    BY <1>0, <1>1 DEF TypeOK, Enters
  <2>3. \A x \in Entries : x # e /\ Holds(x)' => Holds(x)
    BY <1>0, <1>1, SlotOfAssumption, NoneAssumption DEF TypeOK, Cleared, Holds
  <2>4. LedgerInv'
    BY <1>0, <1>1, <2>1 DEF TypeOK, LedgerInv
  <2>5. NothingWrappedIsForgotten'
    BY <1>0, <1>1, <2>1, <2>2, <2>3 DEF NothingWrappedIsForgotten
  <2> QED
    BY <2>4, <2>5
<1>2. ASSUME NEW e \in Entries, ledger' = Append(ledger, e), Enters(e, "published"),
             slot' \in {slot, Cleared(e)}
      PROVE  LedgerInv' /\ NothingWrappedIsForgotten'
  <2>1. /\ DOMAIN ledger' = 1..(Len(ledger) + 1)
        /\ \A j \in DOMAIN ledger' :
             ledger'[j] = IF j \in DOMAIN ledger THEN ledger[j] ELSE e
    BY <1>0, <1>2 DEF TypeOK
  <2>2. LedgerInv'
    BY <1>0, <1>2, <2>1 DEF TypeOK, Enters, LedgerInv
  <2>3. /\ \A j \in DOMAIN ledger : j \in DOMAIN ledger' /\ ledger'[j] = ledger[j]
        /\ Len(ledger) + 1 \in DOMAIN ledger' /\ ledger'[Len(ledger) + 1] = e
    BY <1>0, <2>1 DEF TypeOK
  <2>4. Range(ledger) \subseteq Range(ledger') /\ e \in Range(ledger')
    BY <2>3, Zenon DEF Range
  <2>5. NothingWrappedIsForgotten'
    BY <1>0, <1>2, <2>4, SlotOfAssumption, NoneAssumption
       DEF TypeOK, Enters, Cleared, NothingWrappedIsForgotten, Holds
  <2> QED
    BY <2>2, <2>5
<1>3. ASSUME UNCHANGED <<phase, ledger>>,
             slot' = slot \/ \E s \in Slots : slot' = [slot EXCEPT ![s] = None]
      PROVE  LedgerInv' /\ NothingWrappedIsForgotten'
  BY <1>0, <1>3, SlotOfAssumption, NoneAssumption
     DEF TypeOK, LedgerInv, NothingWrappedIsForgotten, Holds
<1>4. ASSUME depth > 0, ~Holds(W.entry), Settle, UNCHANGED <<slot, phase>>
      PROVE  LedgerInv' /\ NothingWrappedIsForgotten'
  <2>1. /\ \A e \in Range(ledger) : e # W.entry => e \in Range(ledger')
        /\ \A j \in DOMAIN ledger' : \E k \in DOMAIN ledger : ledger[k] = ledger'[j]
    BY <1>0, <1>4, SettledFacts DEF Settle
  <2> QED
    BY <1>0, <1>4, <2>1 DEF LedgerInv, NothingWrappedIsForgotten, Holds
<1>5. CASE \E e \in Entries : Claim(e) \/ Land(e) \/ Publish(e) \/ RollBack(e)
  BY <1>1, <1>2, <1>5 DEF Claim, Land, Publish, RollBack
<1>6. CASE \E s \in Slots : Replace(s)
  <2>1. PICK s \in Slots : Replace(s)
    BY <1>6
  <2>2. UNCHANGED <<phase, ledger>> /\ slot' = [slot EXCEPT ![s] = None]
    BY <2>1 DEF Replace
  <2> QED
    BY <1>3, <2>2
<1>7. CASE Begin \/ Fetch \/ Finish \/ Store \/ End
  <2>1. UNCHANGED <<phase, ledger>> /\ (slot' = slot \/ Store)
    BY <1>7 DEF Begin, Fetch, Finish, Store, End
  <2>2. Store => slot' = [slot EXCEPT ![SlotOf[W.entry]] = None] /\ SlotOf[W.entry] \in Slots
    BY Running, SlotOfAssumption DEF Store, At, W, Cleared, Visiting
  <2> QED
    BY <1>3, <2>1, <2>2
<1>8. CASE Read \/ Stored
  <2>1. depth > 0 /\ UNCHANGED <<slot, phase>>
    BY <1>8 DEF Read, Stored, At
  <2>2. CASE UNCHANGED ledger
    BY <1>3, <2>1, <2>2
  <2>3. CASE Settle /\ ~Holds(W.entry)
    BY <1>4, <2>1, <2>3
  <2>4. At("stored") => ~Holds(W.entry)
    BY <1>0, <2>1, MaxDepthAssumption DEF CursorInv, Cursor, W, TypeOK, At
  <2> QED
    BY <1>8, <2>2, <2>3, <2>4 DEF Read, Stored, Refuse
<1>9. CASE UNCHANGED vars
  <2>1. UNCHANGED <<phase, ledger, slot>>
    BY <1>9 DEF vars
  <2> QED
    BY <1>3, <2>1
<1> QED
  BY <1>5, <1>6, <1>7, <1>8, <1>9 DEF Next

\* Steps of _patch and of the program, which no walk takes.
LEMMA StepOthers ==
  ASSUME IInv, UNCHANGED <<depth, walk>>,
         \/ \E e \in Entries : Claim(e) \/ Land(e) \/ Publish(e) \/ RollBack(e)
         \/ \E s \in Slots : Replace(s)
         \/ UNCHANGED vars
  PROVE  CursorInv' /\ StackInv'
<1>0. TypeOK /\ LedgerInv /\ CursorInv /\ StackInv
  BY DEF IInv
<1>1. \A x \in Entries : phase[x] = "published" => phase'[x] = "published" /\ (Holds(x)' => Holds(x))
  BY <1>0, SlotOfAssumption, NoneAssumption
     DEF Claim, Land, Publish, RollBack, Replace, Enters, Cleared, Holds, TypeOK, vars
<1>2. \/ ledger' = ledger
      \/ \E e \in Entries : phase[e] # "published" /\ ledger' = Append(ledger, e)
  BY DEF Claim, Land, Publish, RollBack, Replace, vars
<1>3. /\ DOMAIN ledger \subseteq DOMAIN ledger' /\ Len(ledger) <= Len(ledger')
      /\ \A j \in DOMAIN ledger' :
           \/ j \in DOMAIN ledger /\ ledger'[j] = ledger[j]
           \/ phase[ledger'[j]] # "published"
  BY <1>0, <1>2 DEF TypeOK
<1>4. \A x \in Range(ledger') : x \in Range(ledger) \/ phase[x] # "published"
  BY <1>3 DEF Range
<1>5. \A d \in 1..depth : walk[d] \in Walks /\ walk[d].known \subseteq Entries
  BY <1>0, MaxDepthAssumption DEF TypeOK, Walks
<1>6. \A d \in 1..depth : Cursor(d)' /\ (Covered(d) => Covered(d)') /\ (Outer(d) => Outer(d)')
  <2> TAKE d \in 1..depth
  <2>1. Cursor(d) /\ walk[d] \in Walks
    BY <1>0, <1>5 DEF CursorInv
  <2>2. ASSUME NEW j \in DOMAIN ledger', Waits(d, ledger[j])'
        PROVE  j \in DOMAIN ledger /\ ledger'[j] = ledger[j] /\ Waits(d, ledger[j])
    BY <1>3, <2>1, <2>2 DEF Cursor, Waits
  <2>3. walk[d].pc = "stored" => ~Holds(walk[d].entry)'
    BY <1>1, <2>1 DEF Cursor, Visiting, Holds
  <2>4. /\ \A e \in walk[d].known : phase'[e] = "published"
        /\ walk[d].pc \in Visiting => phase'[walk[d].entry] = "published"
    BY <1>1, <1>5, <2>1 DEF Cursor
  <2>5. Cursor(d)'
    BY <2>1, <2>2, <2>3, <2>4 DEF Cursor, Holds
  <2>6. Covered(d) => Covered(d)'
    BY <1>4, <2>1 DEF Cursor, Covered, Waits
  <2>7. Outer(d) => Outer(d)'
    BY <1>4, <2>1 DEF Cursor, Outer
  <2> QED
    BY <2>5, <2>6, <2>7
<1>7. depth > 0 => Reach(depth)'
  BY <1>0, <1>3, <1>5, <1>6 DEF StackInv, Reach, Walks, TypeOK
<1> QED
  BY <1>0, <1>6, <1>7 DEF CursorInv, StackInv

\* An outer walk keeps its locals; the list only loses entries.
LEMMA StepOuter ==
  ASSUME IInv, TypeOK', depth > 0, UNCHANGED phase,
         ledger' \in {ledger, Settled}, slot' \in {slot, Cleared(W.entry)},
         NEW d \in 1..depth, walk'[d] = walk[d]
  PROVE  Cursor(d)' /\ (Covered(d) => Covered(d)')
<1>0. TypeOK /\ CursorInv /\ Cursor(d)
  BY DEF IInv, CursorInv
<1>1. \A j \in DOMAIN ledger' : \E k \in DOMAIN ledger :
        ledger[k] = ledger'[j] /\ (k = j \/ k = j + 1)
  BY <1>0, SettledFacts
<1>2. \A x \in Range(ledger') : x \in Range(ledger)
  BY <1>1 DEF Range
<1>3. \A x \in Entries : Holds(x)' => Holds(x)
  BY <1>0, SlotOfAssumption, NoneAssumption DEF Cleared, Holds, TypeOK
<1>4. walk[d] \in Walks /\ walk[d].i \in Nat /\ DOMAIN ledger' \subseteq Nat
  BY <1>0, MaxDepthAssumption DEF TypeOK, Walks
<1>5. Cursor(d)'
  <2>1. ASSUME walk[d].pc # "raised", NEW j \in DOMAIN ledger', Waits(d, ledger[j])'
        PROVE  /\ j <= walk[d].i
               /\ walk[d].pc \in Visiting /\ j = walk[d].i => ledger'[j] = walk[d].entry
    <3>1. PICK k \in DOMAIN ledger : ledger[k] = ledger'[j] /\ (k = j \/ k = j + 1)
      BY <1>1
    <3>2. Waits(d, ledger[k])
      BY <2>1, <3>1 DEF Waits
    <3>3. /\ k <= walk[d].i
          /\ walk[d].pc \in Visiting /\ k = walk[d].i => ledger[k] = walk[d].entry
      BY <1>0, <2>1, <3>2 DEF Cursor
    <3> QED
      BY <1>4, <3>1, <3>3
  <2>2. walk[d].pc = "stored" => ~Holds(walk[d].entry)'
    BY <1>0, <1>3 DEF Cursor, Visiting, Holds
  <2> QED
    BY <1>0, <2>1, <2>2 DEF Cursor, Holds
<1>6. Covered(d) => Covered(d)'
  BY <1>2 DEF Covered, Waits
<1> QED
  BY <1>5, <1>6

\* A step of the running walk: what is left to show is about that walk.
LEMMA StepRunning ==
  ASSUME IInv, TypeOK', depth > 0, UNCHANGED <<phase, depth>>,
         ledger' \in {ledger, Settled}, slot' \in {slot, Cleared(W.entry)},
         \A d \in 1..depth : d # depth => walk'[d] = walk[d],
         walk'[depth].known = W.known,
         Cursor(depth)', Reach(depth)', walk'[depth].pc = "raised" => Covered(depth)'
  PROVE  CursorInv' /\ StackInv'
<1>0. TypeOK /\ StackInv /\ depth \in 1..MaxDepth
  BY Running DEF IInv
<1>1. \A x \in Range(ledger') : x \in Range(ledger)
  <2>1. \A j \in DOMAIN ledger' : \E k \in DOMAIN ledger : ledger[k] = ledger'[j]
    BY <1>0, SettledFacts
  <2> QED
    BY <2>1 DEF Range
<1>2. \A d \in 1..depth : d # depth => Cursor(d)' /\ (Covered(d) => Covered(d)')
  BY StepOuter
<1>3. \A d \in 1..depth : walk'[d].known = walk[d].known
  BY DEF W
<1>4. ASSUME NEW d \in 1..depth, d < depth PROVE Outer(d)'
  <2>1. d + 1 \in 1..depth /\ walk'[d] = walk[d] /\ Outer(d)
    BY <1>0, <1>4 DEF StackInv
  <2> QED
    BY <1>1, <1>3, <2>1 DEF Outer
<1>5. CursorInv'
  BY <1>2 DEF CursorInv
<1>6. \A d \in 1..depth : walk'[d].pc = "raised" => Covered(d)'
  BY <1>0, <1>2 DEF StackInv
<1> QED
  BY <1>0, <1>4, <1>5, <1>6 DEF StackInv

LEMMA StepFetch ==
  ASSUME IInv, TypeOK', Fetch \/ Finish
  PROVE  CursorInv' /\ StackInv'
<1>0. /\ TypeOK /\ depth > 0 /\ depth \in 1..MaxDepth /\ W.pc = "pass" /\ W.i \in Nat
      /\ UNCHANGED <<slot, phase, ledger, depth>>
  BY Running DEF IInv, Fetch, Finish, At, W
<1>1. Cursor(depth) /\ Reach(depth)
  BY <1>0 DEF IInv, CursorInv, StackInv
<1>2. /\ \A d \in 1..depth : d # depth => walk'[d] = walk[d]
      /\ walk'[depth].known = W.known /\ walk'[depth].i = W.i
      /\ walk'[depth].refused = W.refused /\ walk'[depth].inner = W.inner
  BY <1>0, MaxDepthAssumption DEF Fetch, Finish, W, TypeOK, Walks
<1>3. Reach(depth)' /\ (Covered(depth) => Covered(depth)')
  BY <1>0, <1>1, <1>2 DEF Reach, Covered, Waits, W
<1>4. CASE Fetch /\ W.i \in DOMAIN ledger
  <2>1. /\ walk'[depth].pc = "read" /\ walk'[depth].entry = ledger[W.i]
        /\ W.i > 0 /\ ledger[W.i] \in Entries /\ phase[ledger[W.i]] = "published"
    BY <1>0, <1>4 DEF Fetch, W, TypeOK, Walks, IInv, LedgerInv
  <2>2. Cursor(depth)'
    BY <1>0, <1>1, <1>2, <2>1 DEF Cursor, Waits, W, Visiting
  <2> QED
    BY <1>0, <1>2, <1>3, <2>1, <2>2, StepRunning
<1>5. CASE Fetch /\ W.i \notin DOMAIN ledger
  <2>1. walk'[depth].pc = "raised" /\ ~(W.i <= Len(ledger))
    BY <1>0, <1>5 DEF Fetch, W, TypeOK, Walks
  <2>2. Cursor(depth)' /\ Covered(depth)'
    BY <1>0, <1>1, <1>2, <1>3, <2>1 DEF Cursor, Reach, W, Visiting
  <2> QED
    BY <1>0, <1>2, <1>3, <2>2, StepRunning
<1>6. CASE Finish
  <2>1. walk'[depth].pc = "done" /\ W.i = 0
    BY <1>0, <1>6 DEF Finish, W, TypeOK, Walks
  <2>2. Cursor(depth)'
    BY <1>0, <1>1, <1>2, <2>1 DEF Cursor, Waits, W, Visiting
  <2> QED
    BY <1>0, <1>2, <1>3, <2>1, <2>2, StepRunning
<1> QED
  BY <1>4, <1>5, <1>6

LEMMA StepVisit ==
  ASSUME IInv, TypeOK', Read \/ Store \/ Stored
  PROVE  CursorInv' /\ StackInv'
<1>0. /\ TypeOK /\ depth > 0 /\ depth \in 1..MaxDepth /\ W.pc \in Visiting /\ W.i \in Nat
      /\ W.entry \in Entries /\ W \in Walks /\ UNCHANGED <<phase, depth>>
  BY Running DEF IInv, Read, Store, Stored, At, W, Visiting
<1>1. Cursor(depth) /\ Reach(depth)
  BY <1>0 DEF IInv, CursorInv, StackInv
<1>2. ASSUME NEW p \in Visiting, walk' = [walk EXCEPT ![depth].pc = p], UNCHANGED ledger,
             slot' \in {slot, Cleared(W.entry)}, p = "stored" => slot' = Cleared(W.entry)
      PROVE  CursorInv' /\ StackInv'
  <2>1. /\ \A d \in 1..depth : d # depth => walk'[d] = walk[d]
        /\ walk'[depth] = [W EXCEPT !.pc = p]
    BY <1>0, <1>2, MaxDepthAssumption DEF W, TypeOK
  <2>2. /\ walk'[depth].known = W.known /\ walk'[depth].i = W.i
        /\ walk'[depth].refused = W.refused /\ walk'[depth].inner = W.inner
        /\ walk'[depth].entry = W.entry /\ walk'[depth].pc = p
    BY <1>0, <2>1 DEF Walks
  <2>3. p = "stored" => slot'[SlotOf[W.entry]] # W.entry
    BY <1>0, <1>2, SlotOfAssumption, NoneAssumption DEF Cleared, Holds, TypeOK
  <2>4. Reach(depth)'
    BY <1>0, <1>1, <1>2, <2>2 DEF Reach, Covered, Waits, W
  <2>5. Cursor(depth)'
    BY <1>0, <1>1, <1>2, <2>2, <2>3 DEF Cursor, Waits, W, Visiting, Holds
  <2> QED
    BY <1>0, <1>2, <2>1, <2>2, <2>4, <2>5, StepRunning DEF Visiting
<1>3. ASSUME Settle, UNCHANGED slot PROVE CursorInv' /\ StackInv'
  <2>1. /\ \A d \in 1..depth : d # depth => walk'[d] = walk[d]
        /\ walk'[depth] = [W EXCEPT !.pc = "pass", !.i = W.i - 1]
    BY <1>0, <1>3, MaxDepthAssumption DEF W, TypeOK, Settle, NextPass
  <2>2. /\ walk'[depth].known = W.known /\ walk'[depth].i = W.i - 1
        /\ walk'[depth].refused = W.refused /\ walk'[depth].inner = W.inner
        /\ walk'[depth].pc = "pass"
    BY <1>0, <2>1 DEF Walks
  <2>3. ledger' = Settled
    BY <1>3 DEF Settle
  <2>4. ASSUME NEW j \in DOMAIN ledger', Waits(depth, ledger[j])' PROVE j <= W.i - 1
    <3>1. PICK k \in DOMAIN ledger :
            /\ ledger[k] = ledger'[j]
            /\ \/ k = j /\ (j = W.i => ledger[j] # W.entry)
               \/ k = j + 1 /\ j >= W.i
      BY <1>0, <2>3, SettledFacts
    <3>2. Waits(depth, ledger[k])
      BY <1>0, <2>2, <2>4, <3>1 DEF Waits, W
    <3>3. k <= W.i /\ (k = W.i => ledger[k] = W.entry)
      BY <1>0, <1>1, <3>2 DEF Cursor, W, Visiting
    <3>4. j \in Nat /\ k \in Nat
      BY <1>0 DEF TypeOK
    <3> QED
      BY <1>0, <3>1, <3>3, <3>4
  <2>5. Cursor(depth)'
    BY <1>0, <1>1, <2>2, <2>4 DEF Cursor, Waits, W, Visiting
  <2>6. \A x \in Range(ledger') : x \in Range(ledger)
    <3>1. \A j \in DOMAIN ledger' : \E k \in DOMAIN ledger : ledger[k] = ledger'[j]
      BY <1>0, <2>3, SettledFacts
    <3> QED
      BY <3>1 DEF Range
  <2>7. W.i <= Len(ledger) => W.i - 1 <= Len(ledger')
    BY <1>0, <2>3, SettledFacts
  <2>8. Reach(depth)'
    BY <1>0, <1>1, <2>2, <2>6, <2>7 DEF Reach, Covered, Waits, W
  <2> QED
    BY <1>0, <1>3, <2>1, <2>2, <2>3, <2>5, <2>8, StepRunning
<1>4. ASSUME Refuse, UNCHANGED slot PROVE CursorInv' /\ StackInv'
  <2>1. /\ \A d \in 1..depth : d # depth => walk'[d] = walk[d]
        /\ walk'[depth] = [W EXCEPT !.pc = "pass", !.i = W.i - 1,
                                  !.refused = W.refused \cup {W.entry}]
    BY <1>0, <1>4, MaxDepthAssumption DEF W, TypeOK, Refuse
  <2>2. /\ walk'[depth].known = W.known /\ walk'[depth].i = W.i - 1
        /\ walk'[depth].refused = W.refused \cup {W.entry} /\ walk'[depth].inner = W.inner
        /\ walk'[depth].pc = "pass"
    BY <1>0, <2>1 DEF Walks
  <2>3. ledger' = ledger
    BY <1>4 DEF Refuse
  <2>4. ASSUME NEW j \in DOMAIN ledger, Waits(depth, ledger[j])' PROVE j <= W.i - 1
    <3>1. Waits(depth, ledger[j]) /\ ledger[j] # W.entry
      BY <1>0, <2>2, <2>3, <2>4 DEF Waits, W
    <3>2. j <= W.i /\ j # W.i
      BY <1>0, <1>1, <3>1 DEF Cursor, W, Visiting
    <3> QED
      BY <1>0, <3>2 DEF TypeOK
  <2>5. Cursor(depth)'
    BY <1>0, <1>1, <2>2, <2>3, <2>4 DEF Cursor, Waits, W, Visiting
  <2>6. Reach(depth)'
    BY <1>0, <1>1, <2>2, <2>3 DEF Reach, Covered, Waits, W, TypeOK
  <2> QED
    BY <1>0, <1>4, <2>1, <2>2, <2>3, <2>5, <2>6, StepRunning
<1> QED
  BY <1>0, <1>2, <1>3, <1>4 DEF Read, Store, Stored, Visiting

LEMMA StepBegin ==
  ASSUME IInv, TypeOK', Begin
  PROVE  CursorInv' /\ StackInv'
<1> PICK n : n = depth + 1
  OBVIOUS
<1>0. /\ TypeOK /\ LedgerInv /\ CursorInv /\ StackInv /\ depth \in Nat /\ n \in 1..MaxDepth
      /\ depth' = n /\ UNCHANGED <<slot, phase, ledger>>
  BY MaxDepthAssumption DEF IInv, TypeOK, Begin
<1>1. /\ \A d \in 1..depth : walk'[d] = walk[d]
      /\ walk'[n] = Locals(Len(ledger), Range(ledger))
  BY <1>0, MaxDepthAssumption DEF Begin, TypeOK
<1>2. \A d \in 1..depth : Cursor(d)' /\ (Covered(d) => Covered(d)')
  BY <1>0, <1>1 DEF CursorInv, Cursor, Covered, Waits, Holds
<1>3. Cursor(n)'
  <2>1. \A e \in Range(ledger) : phase[e] = "published"
    BY <1>0 DEF LedgerInv, Range
  <2> QED
    BY <1>0, <1>1, <2>1 DEF Cursor, Waits, Locals, Visiting, TypeOK
<1>4. Reach(n)'
  BY <1>0, <1>1 DEF Reach, Locals, TypeOK
<1>5. ASSUME NEW d \in 1..depth PROVE Outer(d)'
  <2>1. CASE d < depth
    <3>1. Outer(d) /\ d + 1 \in 1..depth
      BY <1>0, <2>1 DEF StackInv
    <3> QED
      BY <1>0, <1>1, <3>1 DEF Outer
  <2>2. CASE d = depth
    BY <1>0, <1>1, <2>2 DEF Outer, Begin, InTarget, Locals, Visiting
  <2> QED
    BY <1>0, <2>1, <2>2
<1>6. walk'[n].pc # "raised"
  BY <1>1 DEF Locals
<1>7. \A d \in 1..depth : walk'[d].pc = "raised" => Covered(d)'
  BY <1>0, <1>1, <1>2 DEF StackInv
<1>8. \A d \in 1..depth' : d \in 1..depth \/ d = n
  BY <1>0
<1>9. CursorInv'
  BY <1>2, <1>3, <1>8 DEF CursorInv
<1>10. StackInv'
  BY <1>0, <1>4, <1>5, <1>6, <1>7, <1>8 DEF StackInv
<1> QED
  BY <1>9, <1>10

\* The walk that goes on learns what the one inside it reported, and that is all
\* that still waited for it.
LEMMA StepEnd ==
  ASSUME IInv, TypeOK', End
  PROVE  CursorInv' /\ StackInv'
<1> PICK n : n = depth - 1
  OBVIOUS
<1>0. /\ TypeOK /\ CursorInv /\ StackInv /\ depth \in 1..MaxDepth /\ n \in Nat /\ n < MaxDepth
      /\ depth' = n /\ depth = n + 1
      /\ UNCHANGED <<slot, phase, ledger>> /\ W.pc \in {"done", "raised"}
  <2>1. /\ depth > 0 /\ depth' = depth - 1 /\ UNCHANGED <<slot, phase, ledger>>
        /\ W.pc \in {"done", "raised"}
    BY DEF End, At, W
  <2>2. depth \in 1..MaxDepth
    BY <2>1, Running
  <2> QED
    BY <2>1, <2>2, MaxDepthAssumption DEF IInv
<1>1. \A d \in 1..n :
        walk'[d] = IF d = n
                   THEN [walk[d] EXCEPT !.inner = @ \cup W.refused \cup W.inner]
                   ELSE walk[d]
  BY <1>0, MaxDepthAssumption DEF End
<1>2. \A d \in 1..n :
        /\ walk'[d].pc = walk[d].pc /\ walk'[d].i = walk[d].i /\ walk'[d].entry = walk[d].entry
        /\ walk'[d].known = walk[d].known /\ walk'[d].refused = walk[d].refused
        /\ walk'[d].inner = IF d = n THEN walk[d].inner \cup W.refused \cup W.inner
                            ELSE walk[d].inner
  <2> TAKE d \in 1..n
  <2>1. walk[d] \in Walks
    BY <1>0, MaxDepthAssumption DEF TypeOK
  <2> QED
    BY <1>1, <2>1 DEF Walks
<1>3. ASSUME NEW d \in 1..n PROVE Cursor(d)'
  <2>1. Cursor(d)
    BY <1>0 DEF CursorInv
  <2>2. \A e : Waits(d, e)' <=> Waits(d, e)
    BY <1>2 DEF Waits
  <2> QED
    BY <1>0, <1>2, <2>1, <2>2 DEF Cursor, Holds
<1>4. \A d \in 1..n : Outer(d) /\ walk[d].pc \in Visiting /\ d + 1 \in 1..depth
  BY <1>0 DEF StackInv, Outer
<1>5. ASSUME NEW d \in 1..n, d < n PROVE Outer(d)'
  <2>1. d + 1 \in 1..n /\ Outer(d)
    BY <1>0, <1>4, <1>5
  <2> QED
    BY <1>0, <1>2, <2>1 DEF Outer
<1>6. \A e \in Range(ledger) : e \in W.known => e \in W.refused \cup W.inner
  <2>1. CASE W.pc = "done"
    <3>1. Cursor(depth) /\ W.i = 0
      BY <1>0, <2>1 DEF CursorInv, Cursor, W
    <3>2. \A j \in DOMAIN ledger : ~Waits(depth, ledger[j])
      BY <1>0, <2>1, <3>1 DEF Cursor, W, TypeOK
    <3> QED
      BY <3>2 DEF Waits, W, Range
  <2>2. CASE W.pc = "raised"
    BY <1>0, <2>2 DEF StackInv, Covered, Waits, W
  <2> QED
    BY <1>0, <2>1, <2>2
<1>7. n > 0 => Covered(n)'
  <2> HAVE n > 0
  <2>1. n \in 1..n
    BY <1>0
  <2>2. \A e \in Range(ledger) : e \in walk[n].known => e \in W.known
    BY <1>0, <1>4, <2>1 DEF Outer, W
  <2>3. /\ walk'[n].known = walk[n].known
        /\ walk'[n].inner = walk[n].inner \cup W.refused \cup W.inner
    BY <1>2, <2>1
  <2> QED
    BY <1>0, <1>6, <2>2, <2>3 DEF Covered, Waits
<1>8. \A d \in 1..n : walk'[d].pc # "raised"
  BY <1>2, <1>4 DEF Visiting
<1>9. CursorInv'
  BY <1>0, <1>3 DEF CursorInv
<1>10. StackInv'
  BY <1>0, <1>5, <1>7, <1>8 DEF StackInv, Reach
<1> QED
  BY <1>9, <1>10

LEMMA StepIInv == IInv /\ [Next]_vars => IInv'
<1> SUFFICES ASSUME IInv, [Next]_vars PROVE IInv'
  OBVIOUS
<1>1. TypeOK' /\ LedgerInv' /\ NothingWrappedIsForgotten'
  BY StepTypeOK, StepPublished
<1>2. CASE UNCHANGED vars
  BY <1>1, <1>2, StepOthers DEF IInv, vars
<1>3. CASE \/ \E e \in Entries : Claim(e) \/ Land(e) \/ Publish(e) \/ RollBack(e)
           \/ \E s \in Slots : Replace(s)
  <2>1. UNCHANGED <<depth, walk>>
    BY <1>3 DEF Claim, Land, Publish, RollBack, Replace
  <2> QED
    BY <1>1, <1>3, <2>1, StepOthers DEF IInv
<1>4. CASE Begin \/ Fetch \/ Finish \/ Read \/ Store \/ Stored \/ End
  BY <1>1, <1>4, StepBegin, StepFetch, StepVisit, StepEnd DEF IInv
<1> QED
  BY <1>2, <1>3, <1>4 DEF Next

-----------------------------------------------------------------------------
LEMMA Invariant == Spec => []IInv
  BY InitIInv, StepIInv, PTL DEF Spec

\* The state of the walks is always one of TypeOK.
THEOREM TypeCorrect == Spec => []TypeOK
<1>1. IInv => TypeOK
  BY DEF IInv
<1> QED
  BY <1>1, Invariant, PTL

\* No wrapper that stands in its slot is ever without its entry, however many
\* uninstalls run inside one another (patcher.py:433-446).
THEOREM NothingIsForgotten == Spec => []NothingWrappedIsForgotten
<1>1. IInv => NothingWrappedIsForgotten
  BY DEF IInv
<1> QED
  BY <1>1, Invariant, PTL

\* What an uninstall found it took off or reports; one that raises leaves what
\* the uninstalls inside it reported.
THEOREM WalkSettles == Spec => []WalkSettlesWhatItFound
<1>1. IInv => WalkSettlesWhatItFound
  <2> SUFFICES ASSUME IInv, NEW d \in 1..depth
               PROVE  /\ walk[d].pc = "done" => Range(ledger) \cap walk[d].known \subseteq walk[d].refused
                      /\ walk[d].pc = "raised" =>
                           Range(ledger) \cap walk[d].known \subseteq walk[d].refused \cup walk[d].inner
    BY DEF WalkSettlesWhatItFound
  <2>1. Cursor(d) /\ ledger \in Seq(Entries)
    BY DEF IInv, CursorInv, TypeOK
  <2>2. ASSUME walk[d].pc = "done", NEW j \in DOMAIN ledger PROVE ~Waits(d, ledger[j])
    BY <2>1, <2>2 DEF Cursor
  <2>3. walk[d].pc = "raised" => Covered(d)
    BY DEF IInv, StackInv
  <2> QED
    BY <2>2, <2>3 DEF Covered, Waits, Range
<1> QED
  BY <1>1, Invariant, PTL
=============================================================================
